---------------------------- MODULE MCToolSession ----------------------------
(* Small instance of ToolSession: as many calls as FewCalls allows for the  *)
(* shortest channel and pipes, which both fill.                             *)
EXTENDS ToolSession
=============================================================================
