---------------------------- MODULE MCToolServer ----------------------------
(* TLC instance of ToolServer.                                             *)
EXTENDS ToolServer

CONSTANTS m1, m2, m3
=============================================================================
