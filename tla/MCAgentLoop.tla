----------------------------- MODULE MCAgentLoop -----------------------------
(* Small instances of AgentLoop. *)
EXTENDS AgentLoop

CONSTANTS c1, c2

(* Protocol instance: short results, every way a call can be refused. *)
MCProfile == <<"grep", "ls">>
MCTools == {"grep", "ls"}
MCRequests ==
    {[id |-> c1, function |-> TRUE, tool |-> "grep", arguments |-> "valid"],
     [id |-> NoId, function |-> TRUE, tool |-> "grep", arguments |-> "valid"],
     [id |-> c2, function |-> TRUE, tool |-> "ls", arguments |-> "valid"],
     [id |-> c2, function |-> FALSE, tool |-> "grep", arguments |-> "path"]}

(* Context instance: the code's own limits, one accepted call, results that *)
(* are short, that exactly fill a prompt entry, and that are refused.       *)
MCBigProfile == <<"cat">>
MCBigTools == {"cat"}
MCBigRequests == {[id |-> c1, function |-> TRUE, tool |-> "cat", arguments |-> "valid"]}
=============================================================================
