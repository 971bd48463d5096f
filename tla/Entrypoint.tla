----------------------------- MODULE Entrypoint -----------------------------
(***************************************************************************)
(* docker/entrypoint.sh, the container's first process: it starts          *)
(* coreutils-mcp ("mcp" mode), llama-server alone ("serve"), or            *)
(* llama-server and then the agent ("oneshot"), forwards TERM and INT to   *)
(* them, and exits with a status.                                          *)
(*                                                                         *)
(* What the shell does is taken from how the script uses it: bash reaps    *)
(* its children eagerly and keeps their statuses, a trapped signal is      *)
(* acted on between two commands or by interrupting "wait", which then     *)
(* returns more than 128, but not while a command runs in the foreground,  *)
(* and a first process ignores a signal it has no trap for.  TERM and INT  *)
(* differ only by that number and are one signal here.  The argument       *)
(* parsing and the environment are left out.                               *)
(***************************************************************************)
EXTENDS Naturals

CONSTANTS
  Statuses,    \* statuses a child may exit with
  MaxSignals   \* bound: how often the container is signalled

Interrupted == 143   \* what "wait" returns when a TERM trap interrupts it

ASSUME StatusesAssumption == Statuses \subseteq 0..255 /\ 0 \in Statuses
ASSUME SignalsAssumption == MaxSignals \in Nat

VARIABLES
  mode,      \* what the container was started for
  pc,        \* the next command of the script
  child,     \* the server (llama-server or coreutils-mcp) and the agent
  trapSet,   \* the TERM and INT traps are installed
  agentPid,  \* $agent_pid is set
  pending,   \* a trapped signal has not been acted on
  status,    \* $wait_status, $status, and at the end the exit status
  signals    \* how many signals were sent

vars == <<mode, pc, child, trapSet, agentPid, pending, status, signals>>

Children == {"server", "agent"}
Supervising == {"wait", "recheck"}
Reaping == {"reapServer", "reapAgent"}
Probing == {"health", "models"}   \* curl runs in the foreground
Starting == {"startup", "second", "look"} \cup Probing

Running(c) == child[c].state = "running"
Exited(c) == child[c].state = "exited"

Spawned(c) == [child EXCEPT ![c].state = "running"]

\* kill -TERM of the processes in C, which does nothing to one that is gone.
Terminated(C) == [c \in Children |->
                    IF c \in C /\ Running(c) THEN [child[c] EXCEPT !.asked = TRUE]
                                             ELSE child[c]]

\* What the traps send TERM to: agent_pid is empty until the script notes it.
Forwarded == Terminated({"server"} \cup (IF agentPid THEN {"agent"} ELSE {}))

Init == /\ mode \in {"mcp", "serve", "oneshot"}
        /\ pc = "spawnServer"
        /\ child = [c \in Children |-> [state |-> "unborn", asked |-> FALSE, status |-> 0]]
        /\ trapSet = FALSE /\ agentPid = FALSE /\ pending = FALSE
        /\ status = 0
        /\ signals = 0

SpawnServer == /\ pc = "spawnServer"
               /\ pc' = "setTrap"
               /\ child' = Spawned("server")
               /\ UNCHANGED <<mode, trapSet, agentPid, pending, status, signals>>

SetTrap == /\ pc = "setTrap"
           /\ trapSet' = TRUE
           /\ pc' = IF mode = "mcp" THEN "wait" ELSE "startup"
           /\ UNCHANGED <<mode, child, agentPid, pending, status, signals>>

(* A turn of the readiness loop: two probes, a look at llama-server and at  *)
(* the deadline, and a second's sleep.  A trapped signal is acted on before *)
(* a probe is started.                                                      *)
StartProbe == /\ ~pending
              /\ \/ pc = "startup" /\ pc' = "health"
                 \/ pc = "second" /\ pc' = "models"
              /\ UNCHANGED <<mode, child, trapSet, agentPid, pending, status, signals>>

(* curl waits for llama-server without a limit.  It fails if the answer is  *)
(* an error, nothing listens, or llama-server exits.                        *)
Ready == /\ pc \in Probing /\ Running("server")
         /\ pc' = IF mode = "serve" THEN "wait" ELSE "spawnAgent"
         /\ UNCHANGED <<mode, child, trapSet, agentPid, pending, status, signals>>

ProbeFails == /\ \/ pc = "health" /\ pc' = "second"
                 \/ pc = "models" /\ pc' = "look"
              /\ UNCHANGED <<mode, child, trapSet, agentPid, pending, status, signals>>

DiesInStartup == /\ pc = "look" /\ Exited("server")
                 /\ pc' = "exited"
                 /\ status' = 1
                 /\ UNCHANGED <<mode, child, trapSet, agentPid, pending, signals>>

\* Its faulty variant exits at once.
ExitAtDeadline == /\ pc = "look" /\ Running("server")
                  /\ status' = 1
                  /\ pc' = "exited"
                  /\ UNCHANGED <<mode, child, trapSet, agentPid, pending, signals>>

StartupDeadline == /\ pc = "look" /\ Running("server")
                   /\ child' = Terminated({"server"})
                   /\ status' = 1
                   /\ pc' = "reapServer"
                   /\ UNCHANGED <<mode, trapSet, agentPid, pending, signals>>

NextTurn == /\ pc = "look" /\ Running("server")
            /\ pc' = "startup"
            /\ UNCHANGED <<mode, child, trapSet, agentPid, pending, status, signals>>

(* wait_for_exit_status, and the exit that follows it.                     *)
WaitReturns == /\ pc = "wait" /\ Exited("server")
               /\ status' = child["server"].status
               /\ pc' = "exited"
               /\ UNCHANGED <<mode, child, trapSet, agentPid, pending, signals>>

\* A faulty variant of the step below: one wait, with no retry.
WaitOnce == /\ pc = "wait" /\ pending
            /\ pending' = FALSE
            /\ child' = Forwarded
            /\ status' = Interrupted
            /\ pc' = "exited"
            /\ UNCHANGED <<mode, trapSet, agentPid, signals>>

WaitInterrupted == /\ pc = "wait" /\ pending
                   /\ pending' = FALSE
                   /\ child' = Forwarded
                   /\ status' = Interrupted
                   /\ pc' = "recheck"
                   /\ UNCHANGED <<mode, trapSet, agentPid, signals>>

Recheck == /\ pc = "recheck"
           /\ pc' = IF Running("server") THEN "wait" ELSE "exited"
           /\ UNCHANGED <<mode, child, trapSet, agentPid, pending, status, signals>>

(* The one-shot mode: the agent is started, then both are polled.          *)
SpawnAgent == /\ pc = "spawnAgent"
              /\ child' = Spawned("agent")
              /\ pc' = "notePid"
              /\ UNCHANGED <<mode, trapSet, agentPid, pending, status, signals>>

NotePid == /\ pc = "notePid"
           /\ agentPid' = TRUE
           /\ pc' = "checkServer"
           /\ UNCHANGED <<mode, child, trapSet, pending, status, signals>>

\* A faulty variant of the step below: the agent is left to end by itself.
WaitForAgent == /\ pc = "checkServer" /\ Exited("server")
                /\ status' = 1
                /\ pc' = "reapAgent"
                /\ UNCHANGED <<mode, child, trapSet, agentPid, pending, signals>>

ServerLost == /\ pc = "checkServer" /\ Exited("server")
              /\ child' = Terminated({"agent"})
              /\ status' = 1
              /\ pc' = "reapAgent"
              /\ UNCHANGED <<mode, trapSet, agentPid, pending, signals>>

ServerAlive == /\ pc = "checkServer" /\ Running("server")
               /\ pc' = "checkAgent"
               /\ UNCHANGED <<mode, child, trapSet, agentPid, pending, status, signals>>

\* A faulty variant of the step below: the status is read after the second
\* wait instead of the first.
AgentDoneServerStatus == /\ pc = "checkAgent" /\ Exited("agent")
                         /\ status' = child["server"].status
                         /\ child' = Terminated({"server"})
                         /\ pc' = "reapServer"
                         /\ UNCHANGED <<mode, trapSet, agentPid, pending, signals>>

AgentDone == /\ pc = "checkAgent" /\ Exited("agent")
             /\ status' = child["agent"].status
             /\ child' = Terminated({"server"})
             /\ pc' = "reapServer"
             /\ UNCHANGED <<mode, trapSet, agentPid, pending, signals>>

AgentAlive == /\ pc = "checkAgent" /\ Running("agent")
              /\ pc' = "checkServer"
              /\ UNCHANGED <<mode, child, trapSet, agentPid, pending, status, signals>>

(* "wait ... || true" before the script exits.  It is not retried, so a    *)
(* trapped signal ends it too.                                             *)
Awaited == IF pc = "reapAgent" THEN "agent" ELSE "server"

Reaped == /\ pc \in Reaping /\ Exited(Awaited)
          /\ pc' = "exited"
          /\ UNCHANGED <<mode, child, trapSet, agentPid, pending, status, signals>>

ReapInterrupted == /\ pc \in Reaping /\ pending
                   /\ pending' = FALSE
                   /\ child' = Forwarded
                   /\ pc' = "exited"
                   /\ UNCHANGED <<mode, trapSet, agentPid, status, signals>>

\* The trap, run between two other commands, and not while curl runs.
RunTrap == /\ pending /\ pc \notin {"wait", "exited"} \cup Reaping \cup Probing
           /\ pending' = FALSE
           /\ child' = Forwarded
           /\ UNCHANGED <<mode, pc, trapSet, agentPid, status, signals>>

(* A signal to the script is lost until its trap is set.                   *)
Signal == /\ pc # "exited" /\ signals < MaxSignals
          /\ signals' = signals + 1
          /\ pending' = (pending \/ trapSet)
          /\ UNCHANGED <<mode, pc, child, trapSet, agentPid, status>>

ChildExits(c) == /\ pc # "exited" /\ Running(c)
                 /\ \E s \in Statuses : child' = [child EXCEPT ![c].state = "exited",
                                                               ![c].status = s]
                 /\ UNCHANGED <<mode, pc, trapSet, agentPid, pending, status, signals>>

Startup == SpawnServer \/ SetTrap \/ StartProbe \/ DiesInStartup \/ StartupDeadline \/ NextTurn
Probe == Ready \/ ProbeFails
Supervise == WaitReturns \/ WaitInterrupted \/ Recheck
Oneshot == SpawnAgent \/ NotePid \/ ServerLost \/ ServerAlive \/ AgentDone \/ AgentAlive
Reap == Reaped \/ ReapInterrupted

Next == \/ Startup \/ Probe \/ Supervise \/ Oneshot \/ Reap
        \/ RunTrap
        \/ Signal
        \/ \E c \in Children : ChildExits(c)

Spec == Init /\ [][Next]_vars

(* The shell runs on, a trap is acted on between two commands, and a       *)
(* process that was sent TERM exits: the agent and coreutils-mcp cancel    *)
(* their context on it, and llama-server is taken to.  The deadline comes, *)
(* as every turn that ends takes a second (strong fairness: the loop is    *)
(* not always at the test).  A probe ends with llama-server; nothing makes *)
(* llama-server answer one, nor a child exit unasked.                      *)
FairSpec == /\ Spec
            /\ WF_vars(Startup) /\ SF_vars(StartupDeadline)
            /\ WF_vars(Exited("server") /\ ProbeFails)
            /\ WF_vars(Supervise) /\ WF_vars(Oneshot) /\ WF_vars(Reap)
            /\ WF_vars(RunTrap)
            /\ \A c \in Children : WF_vars(child[c].asked /\ ChildExits(c))

-----------------------------------------------------------------------------

(* The retry loop of wait_for_exit_status: however signals fall, a script  *)
(* that supervises one server does not exit before that server has.        *)
SupervisesToTheEnd ==
  [][(pc \in Supervising /\ pc' = "exited") => Exited("server")]_vars

(* The paths that leave the one-shot loop and the readiness loop: when the *)
(* script exits, and the container with it, a child still running has been *)
(* sent TERM, also when the signal came between the agent's start and the  *)
(* line that notes its id.                                                 *)
NothingAbandoned ==
  pc = "exited" => \A c \in Children : Running(c) => child[c].asked

(* A one-shot container reports success only if its agent ended with it.   *)
SuccessIsTheAgents ==
  pc = "exited" /\ mode = "oneshot" /\ status = 0
    => Exited("agent") /\ child["agent"].status = 0

(* A container ends once a signal was trapped, in every mode and wherever  *)
(* it arrives, also when the trap did not know the agent yet; a one-shot   *)
(* container ends once its agent has; and a start ends, at the latest by   *)
(* its deadline: "llama-server did not become ready within                 *)
(* ${LLAMA_STARTUP_TIMEOUT}s" (entrypoint.sh:404).  All that rests on      *)
(* llama-server: no health probe may wait for ever, as the deadline and    *)
(* the trap then wait with it.                                             *)
ProbesReturn == []<>(pc \notin Probing)
ContainerEnds ==
  ProbesReturn => /\ (pending \/ Exited("agent")) ~> pc = "exited"
                  /\ pc = "startup" ~> pc \notin Starting
=============================================================================
