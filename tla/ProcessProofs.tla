---------------------------- MODULE ProcessProofs ----------------------------
(***************************************************************************)
(* Proofs about the container's first process, Entrypoint, and about the   *)
(* tool server it starts, ToolServer: nothing is abandoned, a one-shot     *)
(* container succeeds only as its agent does, one server is supervised to  *)
(* its end, and a tool server that exits with success has no tool call in  *)
(* flight.                                                                 *)
(*                                                                         *)
(* The argument for the script: pc says which children have been started   *)
(* (Control), and whoever the script awaits before it exits has been sent  *)
(* TERM or is gone, while the other one is gone (Awaiting); a status of 0  *)
(* on the way out of a one-shot container was the agent's (Outcome).       *)
(*                                                                         *)
(* The argument for the server: the goroutine of Serve reports the         *)
(* ErrServerClosed that serveHTTP turns into success only once Shutdown    *)
(* was called, so success comes after the requests in flight are done, and *)
(* none is taken up then.                                                  *)
(***************************************************************************)
EXTENDS Entrypoint, ToolServer, TLAPS

Locations == {"spawnServer", "setTrap", "spawnAgent", "notePid", "checkServer", "checkAgent",
              "exited"} \cup Starting \cup Supervising \cup Reaping

TypeOK == /\ mode \in {"mcp", "serve", "oneshot"}
          /\ pc \in Locations
          /\ child \in [Children -> [state : {"unborn", "running", "exited"},
                                     asked : BOOLEAN, status : Nat]]
          /\ trapSet \in BOOLEAN /\ agentPid \in BOOLEAN /\ pending \in BOOLEAN
          /\ status \in Nat
          /\ signals \in Nat

State(c) == child[c].state
Control ==
    /\ (pc = "spawnServer") = (State("server") = "unborn")
    /\ pc \in {"spawnServer", "setTrap", "spawnAgent"} \cup Starting \cup Supervising =>
           State("agent") = "unborn"
    /\ pc \in {"spawnAgent"} \cup Starting => mode # "mcp"
    /\ pc \in {"spawnAgent", "notePid", "checkServer", "checkAgent"} => mode = "oneshot"
    /\ pc \in Supervising => mode # "oneshot"

Asked(c) == Running(c) => child[c].asked
Awaiting ==
    /\ pc = "reapServer" => Asked("server") /\ ~Running("agent")
    /\ pc = "reapAgent" => Asked("agent") /\ ~Running("server")
    /\ pc = "exited" => Asked("server") /\ Asked("agent")

Outcome ==
    pc \in Reaping \cup {"exited"} /\ mode = "oneshot" /\ status = 0 =>
        Exited("agent") /\ child["agent"].status = 0

ScriptInv == TypeOK /\ Control /\ Awaiting /\ Outcome
-----------------------------------------------------------------------------
(* The script starts with nothing started and nothing to await.            *)
LEMMA ScriptInvInit == Init => ScriptInv
  <1> SUFFICES ASSUME Init PROVE ScriptInv
    OBVIOUS
  <1> USE DEF Init, Children, Starting, Probing, Supervising, Reaping
  <1>1. TypeOK
    BY DEF TypeOK, Locations
  <1>2. Control /\ Awaiting /\ Outcome
    BY DEF Control, State, Awaiting, Asked, Running, Outcome
  <1> QED
    BY <1>1, <1>2 DEF ScriptInv

(* TERM changes nothing but who was asked to end. *)
LEMMA TerminatedOnlyAsks ==
  ASSUME TypeOK, NEW C
  PROVE  /\ Terminated(C) \in [Children -> [state : {"unborn", "running", "exited"},
                                            asked : BOOLEAN, status : Nat]]
         /\ \A c \in Children : /\ Terminated(C)[c].state = child[c].state
                                /\ Terminated(C)[c].status = child[c].status
                                /\ child[c].asked => Terminated(C)[c].asked
                                /\ c \in C /\ Running(c) => Terminated(C)[c].asked
  BY DEF Terminated, TypeOK, Running

(* Exiting changes nothing but one child's state and status. *)
LEMMA ExitChangesOne ==
  ASSUME TypeOK, NEW c \in Children, ChildExits(c)
  PROVE  /\ child' \in [Children -> [state : {"unborn", "running", "exited"},
                                     asked : BOOLEAN, status : Nat]]
         /\ child'[c].state = "exited" /\ child[c].state = "running"
         /\ \A d \in Children \ {c} : child'[d] = child[d]
  <1>1. PICK s \in Statuses : child' = [child EXCEPT ![c].state = "exited", ![c].status = s]
    BY DEF ChildExits
  <1>2. s \in Nat
    BY StatusesAssumption
  <1> QED
    BY <1>1, <1>2 DEF TypeOK, ChildExits, Running

(* Types and control. *)
LEMMA ControlNext ==
  ASSUME ScriptInv, [Next]_vars
  PROVE  TypeOK' /\ Control'
  <1> USE DEF ScriptInv, TypeOK, Control, State, Locations, Children, Starting, Probing,
              Supervising, Reaping, Running, Exited
  <1>1. CASE SpawnServer
    BY <1>1 DEF SpawnServer, Spawned
  <1>2. CASE SetTrap
    BY <1>2 DEF SetTrap
  <1>3. CASE StartProbe \/ Ready \/ ProbeFails \/ DiesInStartup \/ NextTurn
    BY <1>3 DEF StartProbe, Ready, ProbeFails, DiesInStartup, NextTurn
  <1>4. CASE StartupDeadline
    BY <1>4, TerminatedOnlyAsks DEF StartupDeadline
  <1>5. CASE WaitReturns \/ Recheck
    BY <1>5 DEF WaitReturns, Recheck
  <1>6. CASE WaitInterrupted
    BY <1>6, TerminatedOnlyAsks DEF WaitInterrupted, Forwarded, Interrupted
  <1>7. CASE SpawnAgent
    BY <1>7 DEF SpawnAgent, Spawned
  <1>8. CASE NotePid \/ ServerAlive \/ AgentAlive
    BY <1>8 DEF NotePid, ServerAlive, AgentAlive
  <1>9. CASE ServerLost
    BY <1>9, TerminatedOnlyAsks DEF ServerLost
  <1>10. CASE AgentDone
    BY <1>10, TerminatedOnlyAsks DEF AgentDone
  <1>11. CASE Reaped
    BY <1>11 DEF Reaped
  <1>12. CASE ReapInterrupted
    BY <1>12, TerminatedOnlyAsks DEF ReapInterrupted, Forwarded
  <1>13. CASE RunTrap
    BY <1>13, TerminatedOnlyAsks DEF RunTrap, Forwarded
  <1>14. CASE Signal
    BY <1>14 DEF Signal
  <1>15. CASE \E c \in Children : ChildExits(c)
    <2>1. PICK c \in Children : ChildExits(c)
      BY <1>15
    <2> QED
      BY <2>1, ExitChangesOne, ZenonT(40) DEF ChildExits
  <1>16. CASE UNCHANGED vars
    BY <1>16 DEF vars
  <1> QED
    BY <1>1, <1>2, <1>3, <1>4, <1>5, <1>6, <1>7, <1>8, <1>9, <1>10, <1>11, <1>12, <1>13, <1>14,
       <1>15, <1>16 DEF Next, Startup, Probe, Supervise, Oneshot, Reap

(* Whom the script awaits, and what it will report. *)
LEMMA AwaitingNext ==
  ASSUME ScriptInv, [Next]_vars
  PROVE  Awaiting' /\ Outcome'
  <1> USE DEF ScriptInv, TypeOK, Control, State, Awaiting, Outcome, Asked, Locations, Children,
              Starting, Probing, Supervising, Reaping, Running, Exited
  <1>1. CASE SpawnServer \/ SpawnAgent
    BY <1>1 DEF SpawnServer, SpawnAgent
  <1>2. CASE SetTrap \/ NotePid \/ ServerAlive \/ AgentAlive
    BY <1>2 DEF SetTrap, NotePid, ServerAlive, AgentAlive
  <1>3. CASE DiesInStartup
    BY <1>3 DEF DiesInStartup
  <1>4. CASE StartupDeadline
    BY <1>4, TerminatedOnlyAsks DEF StartupDeadline
  <1>5. CASE WaitReturns \/ Recheck
    BY <1>5 DEF WaitReturns, Recheck
  <1>6. CASE WaitInterrupted
    BY <1>6 DEF WaitInterrupted
  <1>7. CASE ServerLost
    BY <1>7, TerminatedOnlyAsks DEF ServerLost
  <1>8. CASE AgentDone
    BY <1>8, TerminatedOnlyAsks DEF AgentDone
  <1>9. CASE Reaped
    BY <1>9 DEF Reaped, Awaited
  <1>10. CASE ReapInterrupted
    BY <1>10, TerminatedOnlyAsks DEF ReapInterrupted, Forwarded
  <1>11. CASE RunTrap
    BY <1>11, TerminatedOnlyAsks DEF RunTrap, Forwarded
  <1>12. CASE Signal
    BY <1>12 DEF Signal
  <1>13. CASE \E c \in Children : ChildExits(c)
    <2>1. PICK c \in Children : ChildExits(c)
      BY <1>13
    <2>2. UNCHANGED <<mode, pc, status>> /\ pc # "exited"
      BY <2>1 DEF ChildExits
    <2> QED
      BY <2>1, <2>2, ExitChangesOne
  <1>14. CASE StartProbe \/ Ready \/ ProbeFails \/ NextTurn
    BY <1>14 DEF StartProbe, Ready, ProbeFails, NextTurn
  <1>15. CASE UNCHANGED vars
    BY <1>15 DEF vars
  <1> QED
    BY <1>1, <1>2, <1>3, <1>4, <1>5, <1>6, <1>7, <1>8, <1>9, <1>10, <1>11, <1>12, <1>13, <1>14,
       <1>15 DEF Next, Startup, Probe, Supervise, Oneshot, Reap

(* Every reachable state of the script is as the invariant says.           *)
LEMMA ScriptInvariant == Spec => []ScriptInv
  <1>1. ScriptInv /\ [Next]_vars => ScriptInv'
    BY ControlNext, AwaitingNext DEF ScriptInv
  <1> QED
    BY ScriptInvInit, <1>1, PTL DEF Spec
-----------------------------------------------------------------------------
(* However signals, exits and polls fall: when the script exits, a child   *)
(* that still runs has been sent TERM (entrypoint.sh:384-390, 398-457).    *)
THEOREM ChildrenAreSignalled == Spec => []NothingAbandoned
  <1>1. ScriptInv => NothingAbandoned
    BY DEF ScriptInv, Awaiting, Asked, NothingAbandoned, Children
  <1> QED
    BY ScriptInvariant, <1>1, PTL

(* Whatever the children's statuses: a one-shot container that reports     *)
(* success had an agent that did (entrypoint.sh:443-457).                  *)
THEOREM SuccessIsEarned == Spec => []SuccessIsTheAgents
  <1>1. ScriptInv => SuccessIsTheAgents
    BY DEF ScriptInv, Outcome, SuccessIsTheAgents
  <1> QED
    BY ScriptInvariant, <1>1, PTL

(* However often it is interrupted: wait_for_exit_status goes on until the *)
(* server has exited (entrypoint.sh:50-65).                                *)
THEOREM ServerIsAwaited == Spec => SupervisesToTheEnd
  <1>1. ASSUME ScriptInv, [Next]_vars, pc \in Supervising, pc' = "exited"
        PROVE  Exited("server")
    <2> USE <1>1 DEF Supervising, Reaping
    <2>1. CASE WaitReturns
      BY <2>1 DEF WaitReturns
    <2>2. CASE Recheck
      BY <2>2 DEF Recheck, ScriptInv, TypeOK, Control, State, Running, Exited, Children
    <2>3. CASE WaitInterrupted \/ UNCHANGED vars
      BY <2>3 DEF WaitInterrupted, vars
    <2>4. CASE Startup \/ Probe
      BY <2>4 DEF Startup, SpawnServer, SetTrap, StartProbe, DiesInStartup, StartupDeadline,
                  NextTurn, Probe, Probing, Ready, ProbeFails
    <2>5. CASE Oneshot \/ Reap \/ RunTrap \/ Signal \/ \E c \in Children : ChildExits(c)
      BY <2>5 DEF Oneshot, SpawnAgent, NotePid, ServerLost, ServerAlive, AgentDone, AgentAlive,
                  Reap, Reaped, ReapInterrupted, RunTrap, Signal, ChildExits
    <2> QED
      BY <2>1, <2>2, <2>3, <2>4, <2>5 DEF Next, Supervise
  <1>2. ScriptInv /\ [Next]_vars =>
            [(pc \in Supervising /\ pc' = "exited") => Exited("server")]_vars
    BY <1>1
  <1> QED
    BY ScriptInvariant, <1>2, PTL DEF Spec, SupervisesToTheEnd
-----------------------------------------------------------------------------
(* The tool server.                                                        *)

ServerTypeOK == state \in [Requests -> {"unsent", "sent", "running", "done"}]

ClosedIsShutdown == proc \in {"start", "serve"} => errCh # "nil"
DrainedIsIdle == proc = "drain" => Idle

ProcInv == ServerTypeOK /\ ClosedIsShutdown /\ DrainedIsIdle /\ CleanExitLeavesNothing
-----------------------------------------------------------------------------
(* The process starts with nothing taken up.                               *)
LEMMA ProcInvInit == ServerInit => ProcInv
  BY DEF ServerInit, ProcInv, ServerTypeOK, ClosedIsShutdown, DrainedIsIdle,
         CleanExitLeavesNothing

(* Nothing starts to run but by a Dispatch, in a process that serves. *)
LEMMA DispatchTypes ==
  ASSUME ServerTypeOK, NEW r, Dispatch(r)
  PROVE  ServerTypeOK'
  BY DEF ServerTypeOK, Dispatch

(* A tool that ends starts none.                                           *)
LEMMA ToolEndsKeepsIdle ==
  ASSUME ServerTypeOK, NEW r \in Requests, ToolEnds(r)
  PROVE  ServerTypeOK' /\ (Idle => Idle')
  BY DEF ServerTypeOK, ToolEnds, Idle, ToolRunning

(* Every step of the process keeps the invariant.                          *)
LEMMA ProcInvNext ==
  ASSUME ProcInv, [ServerNext]_processVars
  PROVE  ProcInv'
  <1> USE DEF ProcInv, ClosedIsShutdown, DrainedIsIdle, CleanExitLeavesNothing
  <1>1. CASE Start
    BY <1>1 DEF Start, Exit, httpVars, ServerTypeOK, Idle, ToolRunning
  <1>2. CASE Stdio
    <2>1. CASE ScanLine
      BY <2>1, DispatchTypes DEF ScanLine, procVars, httpVars
    <2>2. CASE LineAfterSignal
      BY <2>2 DEF LineAfterSignal, Exit, httpVars, ServerTypeOK, Idle, ToolRunning
    <2>3. CASE LineTooLong
      BY <2>3 DEF LineTooLong, Exit, httpVars, ServerTypeOK
    <2>4. CASE EndOfInput
      BY <2>4 DEF EndOfInput, Exit, httpVars, ServerTypeOK, Idle, ToolRunning
    <2> QED
      BY <1>2, <2>1, <2>2, <2>3, <2>4 DEF Stdio
  <1>3. CASE Http
    <2>1. CASE ServeStarts
      BY <2>1 DEF ServeStarts, Closing, procVars, ServerTypeOK, Idle, ToolRunning
    <2>2. CASE ServeError
      BY <2>2 DEF ServeError, Exit, httpVars, ServerTypeOK
    <2>3. CASE Shutdown
      BY <2>3 DEF Shutdown, ServerTypeOK
    <2>4. CASE InFlightDone
      BY <2>4 DEF InFlightDone, httpVars, ServerTypeOK, Idle, ToolRunning
    <2>5. CASE ShutdownTimeout
      BY <2>5 DEF ShutdownTimeout, Exit, httpVars, ServerTypeOK
    <2>6. CASE Drain
      BY <2>6 DEF Drain, Exit, httpVars, ServerTypeOK, Idle, ToolRunning
    <2>7. CASE \E r \in Requests : Accept(r)
      BY <2>7, DispatchTypes DEF Accept, procVars, httpVars
    <2> QED
      BY <1>3, <2>1, <2>2, <2>3, <2>4, <2>5, <2>6, <2>7 DEF Http
  <1>4. CASE AcceptFails
    BY <1>4 DEF AcceptFails, procVars, ServerTypeOK, Idle, ToolRunning
  <1>5. CASE \E r \in Requests : ToolEnds(r)
    BY <1>5, ToolEndsKeepsIdle DEF ToolEnds, procVars, httpVars
  <1>6. CASE \E r \in Requests : Send(r)
    <2>1. PICK r \in Requests : Send(r)
      BY <1>6
    <2>2. ServerTypeOK' /\ (Idle => Idle')
      BY <2>1 DEF Send, ServerTypeOK, Idle, ToolRunning
    <2> QED
      BY <2>1, <2>2 DEF Send, procVars, httpVars
  <1>7. CASE CloseInput \/ SignalServer \/ UNCHANGED processVars
    BY <1>7 DEF CloseInput, SignalServer, processVars, procVars,
                httpVars, ServerTypeOK, Idle, ToolRunning
  <1>8. CASE Kill
    BY <1>8 DEF Kill, Exit, httpVars, ServerTypeOK
  <1> QED
    BY <1>1, <1>2, <1>3, <1>4, <1>5, <1>6, <1>7, <1>8 DEF ServerNext
-----------------------------------------------------------------------------
(* Whatever the messages and however the signal, the listener and the      *)
(* requests interleave: a process that exits with success leaves no tool   *)
(* call behind (cmd/coreutils-mcp/main.go:73-93).                          *)
THEOREM SuccessIsIdle == ServerSpec => []CleanExitLeavesNothing
  <1>1. ProcInv /\ [ServerNext]_processVars => ProcInv'
    BY ProcInvNext
  <1>2. ProcInv => CleanExitLeavesNothing
    BY DEF ProcInv
  <1> QED
    BY ProcInvInit, <1>1, <1>2, PTL DEF ServerSpec
=============================================================================
