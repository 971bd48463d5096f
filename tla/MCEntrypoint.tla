---------------------------- MODULE MCEntrypoint ----------------------------
(* TLC instance of the container's script: children that exit with         *)
(* success, a failure, or the status of a process killed by TERM.          *)
EXTENDS Entrypoint

ExitStatuses == {0, 1, Interrupted}
=============================================================================
