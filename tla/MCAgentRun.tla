----------------------------- MODULE MCAgentRun -----------------------------
(* A small instance of AgentRun: a tool only the core server may run, one   *)
(* only the web server may, one that both may, and one that nobody may.     *)
EXTENDS AgentRun

MCTools == {"ls", "browse", "shared", "rogue"}
MCAllowed == [s \in Servers |-> IF s = "core" THEN {"ls", "shared"} ELSE {"browse", "shared"}]
=============================================================================
