------------------------------ MODULE AgentRun ------------------------------
(***************************************************************************)
(* One run of the agent command: main of cmd/agent, Run, startWebMCPServer *)
(* and FilterDiscovered of internal/agent.  Two MCP servers are child      *)
(* processes; they may hang or exit at any time, and a signal may end the  *)
(* context at any time.  Deferred calls are a stack that a return unwinds. *)
(* Session.Loop is one step here (AgentLoop models it), and so are a       *)
(* handshake, a discovery and Close (McpClient models the client).         *)
(***************************************************************************)
EXTENDS Integers, Sequences, SequencesExt

CONSTANTS
    Tools,      \* tool names the servers may advertise
    Allowed,    \* AllowedCoreTools and AllowedWebTools
    NoServer    \* no server at all

Servers == {"core", "web"}
ASSUME AllowedAssumption == Allowed \in [Servers -> SUBSET Tools] /\ NoServer \notin Servers

VARIABLES
    pc,         \* where Run is
    server,     \* the server being started or closed
    webWanted,  \* --web-mcp-command was given
    proc,       \* the child processes
    advertised, \* the tools a server listed
    owner,      \* Session.clients: the server that runs a tool
    deferred,   \* pending deferred calls, the next one last
    startup,    \* startupCtx
    cancelled,  \* the context of Run is done
    mcpDone,    \* cancelMCP has been called
    failed,     \* Run returns an error
    exit        \* the exit status of the command, -1 while it runs

vars == <<pc, server, webWanted, proc, advertised, owner, deferred, startup, cancelled,
          mcpDone, failed, exit>>
-----------------------------------------------------------------------------
Init ==
    /\ pc = "parse" /\ server = "core" /\ webWanted \in BOOLEAN
    /\ proc = [s \in Servers |-> "none"]
    /\ advertised = [s \in Servers |-> {}]
    /\ owner = [t \in Tools |-> NoServer]
    /\ deferred = << >>
    /\ startup = "none" /\ cancelled = FALSE /\ mcpDone = FALSE
    /\ failed = FALSE /\ exit = -1

Children == <<server, proc, advertised, owner>>
Contexts == <<startup, cancelled, mcpDone>>
Discovered == {t \in Tools : owner[t] # NoServer}

Return(error) == pc' = "unwind" /\ failed' = error

(* Before Run: a blank prompt is a usage error. *)
Parse ==
    /\ pc = "parse"
    /\ \/ pc' = "exited" /\ exit' = 2
       \/ pc' = "validate" /\ UNCHANGED exit
    /\ UNCHANGED <<webWanted, Children, deferred, Contexts, failed>>

Validate ==
    /\ pc = "validate"
    /\ \/ Return(TRUE)
       \/ pc' = "ping" /\ UNCHANGED failed
    /\ UNCHANGED <<webWanted, Children, deferred, Contexts, exit>>

(* After Ping comes the context of the servers. *)
Ping ==
    /\ pc = "ping"
    /\ \/ Return(TRUE) /\ UNCHANGED deferred
       \/ pc' = "start" /\ deferred' = <<"cancelMCP">> /\ UNCHANGED failed
    /\ UNCHANGED <<webWanted, Children, Contexts, exit>>

(* StartProcess: nothing starts in a context that is done. *)
StartFails ==
    /\ pc = "start" /\ Return(TRUE)
    /\ UNCHANGED <<webWanted, Children, deferred, Contexts, exit>>

\* Faulty variant: the servers start without a deadline.
StartWithoutDeadline ==
    /\ pc = "start" /\ ~cancelled
    /\ proc' = [proc EXCEPT ![server] = "running"]
    /\ pc' = "initialize"
    /\ deferred' = IF server = "core" THEN Append(deferred, "closeCore") ELSE deferred
    /\ UNCHANGED <<webWanted, server, advertised, owner, Contexts, failed, exit>>

StartProcess ==
    /\ pc = "start" /\ ~cancelled
    /\ proc' = [proc EXCEPT ![server] = "running"]
    /\ pc' = "initialize"
    /\ IF server = "core"
       THEN deferred' = deferred \o <<"closeCore", "cancelStartup">> /\ startup' = "running"
       ELSE UNCHANGED <<deferred, startup>>
    /\ UNCHANGED <<webWanted, server, advertised, owner, cancelled, mcpDone, failed, exit>>

\* Faulty variant: a web server that could not be listed is left alone.
AbandonServer ==
    /\ pc \in {"initialize", "list"}
    /\ failed' = TRUE /\ pc' = IF server = "web" /\ pc = "initialize" THEN "closing" ELSE "unwind"
    /\ UNCHANGED <<webWanted, Children, deferred, Contexts, exit>>

(* Initialize and ListTools fail with the server, a context or the answer; *)
(* the web server, whose Close is not deferred yet, is closed at once.     *)
StartupFails ==
    /\ pc \in {"initialize", "list"}
    /\ failed' = TRUE /\ pc' = IF server = "web" THEN "closing" ELSE "unwind"
    /\ UNCHANGED <<webWanted, Children, deferred, Contexts, exit>>

Initialize ==
    /\ pc = "initialize" /\ proc[server] = "running"
    /\ pc' = "list"
    /\ UNCHANGED <<webWanted, Children, deferred, Contexts, failed, exit>>

\* Faulty variant: the later server takes over a name both advertise.
LastServerOwns(found) ==
    [t \in Tools |-> IF t \in found THEN server ELSE owner[t]]

(* FilterDiscovered and the merge: a name keeps its first server. *)
FirstServerOwns(found) ==
    [t \in Tools |-> IF t \in found /\ owner[t] = NoServer THEN server ELSE owner[t]]

ListTools ==
    /\ pc = "list"
    /\ \E found \in SUBSET Tools :
           /\ advertised' = [advertised EXCEPT ![server] = found]
           /\ owner' = FirstServerOwns(found \cap Allowed[server])
    /\ IF server = "core" /\ webWanted
       THEN pc' = "start" /\ server' = "web" /\ UNCHANGED deferred
       ELSE /\ pc' = "check" /\ UNCHANGED server
            /\ deferred' = IF server = "web" THEN Append(deferred, "closeWeb") ELSE deferred
    /\ UNCHANGED <<webWanted, proc, Contexts, failed, exit>>

Check ==
    /\ pc = "check"
    /\ IF Discovered = {} THEN Return(TRUE) ELSE pc' = "loop" /\ UNCHANGED failed
    /\ UNCHANGED <<webWanted, Children, deferred, Contexts, exit>>

\* Faulty variant: the loop runs in a context that the signal does not end.
LoopDetached ==
    /\ pc = "loop"
    /\ IF cancelled THEN UNCHANGED <<pc, failed>> ELSE \E error \in BOOLEAN : Return(error)
    /\ UNCHANGED <<webWanted, Children, deferred, Contexts, exit>>

(* Session.Loop answers, or reports the round limit, or fails. *)
Loop ==
    /\ pc = "loop" /\ \E error \in BOOLEAN : Return(error)
    /\ UNCHANGED <<webWanted, Children, deferred, Contexts, exit>>

(* The deferred calls, last first. *)
Unwind ==
    /\ pc = "unwind" /\ deferred # << >>
    /\ deferred' = Front(deferred)
    /\ CASE Last(deferred) = "closeWeb" -> pc' = "closing" /\ server' = "web" /\ UNCHANGED <<startup, mcpDone>>
         [] Last(deferred) = "closeCore" -> pc' = "closing" /\ server' = "core" /\ UNCHANGED <<startup, mcpDone>>
         [] Last(deferred) = "cancelStartup" -> startup' = "done" /\ UNCHANGED <<pc, server, mcpDone>>
         [] Last(deferred) = "cancelMCP" -> mcpDone' = TRUE /\ UNCHANGED <<pc, server, startup>>
    /\ UNCHANGED <<webWanted, proc, advertised, owner, cancelled, failed, exit>>

(* Close: the child ends by itself or is killed after three seconds. *)
KillOnClose ==
    /\ pc = "closing" /\ proc[server] = "running"
    /\ proc' = [proc EXCEPT ![server] = "exited"]
    /\ UNCHANGED <<pc, server, webWanted, advertised, owner, deferred, Contexts, failed, exit>>

CloseReturns ==
    /\ pc = "closing" /\ proc[server] = "exited"
    /\ proc' = [proc EXCEPT ![server] = "reaped"]
    /\ pc' = "unwind"
    /\ UNCHANGED <<server, webWanted, advertised, owner, deferred, Contexts, failed, exit>>

Exit ==
    /\ pc = "unwind" /\ deferred = << >>
    /\ pc' = "exited" /\ exit' = IF failed THEN 1 ELSE 0
    /\ UNCHANGED <<webWanted, Children, deferred, Contexts, failed>>
-----------------------------------------------------------------------------
(* SIGINT or SIGTERM. *)
Signal ==
    /\ ~cancelled /\ pc \notin {"parse", "exited"}
    /\ cancelled' = TRUE
    /\ UNCHANGED <<pc, webWanted, Children, deferred, startup, mcpDone, failed, exit>>

(* MCPStartupTimeout, one for both servers. *)
StartupTimeout ==
    /\ startup = "running" /\ startup' = "expired"
    /\ UNCHANGED <<pc, webWanted, Children, deferred, cancelled, mcpDone, failed, exit>>

(* A child may exit at any time; exec.CommandContext kills it when its      *)
(* context is done.                                                        *)
ChildExits(s) ==
    /\ proc[s] = "running" /\ proc' = [proc EXCEPT ![s] = "exited"]
    /\ UNCHANGED <<pc, server, webWanted, advertised, owner, deferred, Contexts, failed, exit>>

Program ==
    \/ Parse \/ Validate \/ Ping \/ StartFails \/ StartProcess \/ StartupFails
    \/ Initialize \/ ListTools \/ Check \/ Loop \/ Unwind \/ KillOnClose \/ CloseReturns \/ Exit
Exited == pc = "exited" /\ UNCHANGED vars
Next == Program \/ Signal \/ StartupTimeout \/ (\E s \in Servers : ChildExits(s)) \/ Exited

Spec == Init /\ [][Next]_vars
(* What ends by itself does: Ping has a timeout, a context ends what waits *)
(* for a server, Loop stops when the context is done (CancelStops of       *)
(* AgentLoop), timers expire.  A server need not answer.                   *)
Waiting == pc \in {"initialize", "list", "loop"}
FairSpec ==
    /\ Spec
    /\ WF_vars(~Waiting /\ Program)
    /\ WF_vars((cancelled \/ startup = "expired" \/ proc[server] # "running") /\ StartupFails)
    /\ WF_vars(cancelled /\ Loop)
    /\ WF_vars(StartupTimeout)
    /\ \A s \in Servers : WF_vars((cancelled \/ mcpDone) /\ ChildExits(s))
-----------------------------------------------------------------------------
(* Every variable has its type: no more calls are deferred than Run defers. *)
TypeOK ==
    /\ pc \in {"parse", "validate", "ping", "start", "initialize", "list", "check", "loop",
               "unwind", "closing", "exited"}
    /\ server \in Servers /\ webWanted \in BOOLEAN
    /\ proc \in [Servers -> {"none", "running", "exited", "reaped"}]
    /\ advertised \in [Servers -> SUBSET Tools]
    /\ owner \in [Tools -> Servers \cup {NoServer}]
    /\ deferred \in Seq({"cancelMCP", "closeCore", "cancelStartup", "closeWeb"}) /\ Len(deferred) <= 4
    /\ startup \in {"none", "running", "expired", "done"}
    /\ cancelled \in BOOLEAN /\ mcpDone \in BOOLEAN /\ failed \in BOOLEAN
    /\ exit \in -1..2

(* Whatever fails, and whenever: when the command exits, every child it    *)
(* started is gone and waited for (the Close calls of Run and              *)
(* startWebMCPServer).                                                     *)
NoChildSurvives == pc = "exited" => \A s \in Servers : proc[s] \in {"none", "reaped"}

(* The loop's tools are run by the server that advertised them, if the     *)
(* policy allows that server to; the core server comes first, and no       *)
(* client of a tool has been closed (agent.go:160-181).                    *)
RoutedByPolicy ==
    pc = "loop" =>
        /\ Discovered # {}
        /\ \A t \in Discovered :
               /\ t \in advertised[owner[t]] \cap Allowed[owner[t]]
               /\ proc[owner[t]] \in {"running", "exited"}
               /\ t \in advertised["core"] \cap Allowed["core"] => owner[t] = "core"

(* A signal ends the command, whatever the servers and the model do.       *)
SignalEnds == cancelled ~> pc = "exited"

(* A server that never answers does not hold up the start: either the loop *)
(* begins or the command exits (MCPStartupTimeout).                        *)
StartupEnds == pc = "start" ~> pc \in {"loop", "exited"}
=============================================================================
