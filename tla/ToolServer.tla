----------------------------- MODULE ToolServer -----------------------------
(***************************************************************************)
(* The process coreutils-mcp (cmd/coreutils-mcp, internal/mcpserver): it   *)
(* serves JSON-RPC messages over stdio, one line after another, or over    *)
(* HTTP, one goroutine per request, until its input ends or it is          *)
(* signalled.  webutils-mcp is the stdio half.                             *)
(*                                                                         *)
(* A message is its kind: a tool call, another request with an id, a       *)
(* notification, malformed JSON, or one the transport refuses (a line      *)
(* beyond the scanner's buffer; an HTTP request without the token, with    *)
(* another method, content type or size).  What a tool does is             *)
(* WorkspaceTools; here it runs and then ends.                             *)
(*                                                                         *)
(* ProcessProofs extends this module beside Entrypoint, the script that    *)
(* starts the process; so what both have is named for the server here.     *)
(***************************************************************************)
EXTENDS Naturals, Sequences

CONSTANT Requests   \* the messages clients send

VARIABLES
  transport,  \* --transport
  proc,       \* where main is
  exitStatus, \* its exit status
  signalled,  \* ctx is done
  stdin,      \* the parent holds the input open
  arrived,    \* the messages sent, in order
  scanned,    \* how many lines the scanner has returned
  kind,       \* of each message
  state,      \* how far each message is
  replies,    \* the responses written, in order
  serving,    \* the goroutine of httpServer.Serve
  errCh       \* what it sent to serveHTTP

messageVars == <<arrived, kind>>
procVars == <<proc, exitStatus>>
httpVars == <<serving, errCh>>
processVars ==
  <<transport, signalled, stdin, scanned, state, replies, messageVars, procVars, httpVars>>

Kinds == {"call", "request", "notification", "malformed", "refused"}
HasReply == {"call", "request", "malformed"}

ToolRunning(r) == state[r] = "running"
Idle == \A r \in Requests : ~ToolRunning(r)

Exit(code) == proc' = "exited" /\ exitStatus' = code

ServerInit ==
  /\ transport \in {"stdio", "http"}
  /\ proc = "start" /\ exitStatus = "none"
  /\ signalled = FALSE /\ stdin = TRUE
  /\ arrived = << >> /\ scanned = 0 /\ replies = << >>
  /\ kind = [r \in Requests |-> "request"]
  /\ state = [r \in Requests |-> "unsent"]
  /\ serving = "unstarted" /\ errCh = "empty"

(* New may refuse the workspace; serveHTTP binds its address before it     *)
(* starts the goroutine.                                                   *)
Start == /\ proc = "start"
         /\ \/ proc' = "serve" /\ UNCHANGED exitStatus
            \/ Exit("failed")
         /\ UNCHANGED <<transport, signalled, stdin, scanned, state, replies, messageVars, httpVars>>

(* dispatch and callTool: a tool call runs under its own time limit, the   *)
(* other messages are answered at once, a notification not at all.         *)
Dispatch(r) ==
  /\ state' = [state EXCEPT ![r] = IF kind[r] = "call" THEN "running" ELSE "done"]
  /\ replies' = IF kind[r] \in HasReply \ {"call"} THEN Append(replies, r) ELSE replies

ToolEnds(r) == /\ ToolRunning(r) /\ proc # "exited"
               /\ state' = [state EXCEPT ![r] = "done"]
               /\ replies' = Append(replies, r)
               /\ UNCHANGED <<transport, signalled, stdin, scanned, messageVars, procVars, httpVars>>

-----------------------------------------------------------------------------
(* Serve, over stdio.                                                      *)

NextLine == arrived[scanned + 1]

ScanLine == /\ proc = "serve" /\ transport = "stdio" /\ Idle
            /\ scanned < Len(arrived)
            /\ kind[NextLine] # "refused" /\ ~signalled
            /\ scanned' = scanned + 1
            /\ Dispatch(NextLine)
            /\ UNCHANGED <<transport, signalled, stdin, messageVars, procVars, httpVars>>

\* ctx is looked at only when a line has come.
LineAfterSignal == /\ proc = "serve" /\ transport = "stdio" /\ Idle
                   /\ scanned < Len(arrived)
                   /\ kind[NextLine] # "refused" /\ signalled
                   /\ Exit("ok")
                   /\ UNCHANGED <<transport, signalled, stdin, scanned, state, replies,
                                  messageVars, httpVars>>

LineTooLong == /\ proc = "serve" /\ transport = "stdio" /\ Idle
               /\ scanned < Len(arrived)
               /\ kind[NextLine] = "refused"
               /\ Exit("failed")
               /\ UNCHANGED <<transport, signalled, stdin, scanned, state, replies,
                              messageVars, httpVars>>

EndOfInput == /\ proc = "serve" /\ transport = "stdio" /\ Idle
              /\ scanned = Len(arrived) /\ ~stdin
              /\ Exit("ok")
              /\ UNCHANGED <<transport, signalled, stdin, scanned, state, replies,
                             messageVars, httpVars>>

Stdio == ScanLine \/ LineAfterSignal \/ LineTooLong \/ EndOfInput

-----------------------------------------------------------------------------
(* serveHTTP.                                                              *)

\* Shutdown was called: Serve accepts nothing more and returns ErrServerClosed.
Closing == proc \in {"shutdown", "drain"}

\* A faulty variant of the step below: Serve does not look for a Shutdown that
\* came before it.
AcceptAnyway == /\ transport = "http" /\ proc \in {"serve", "shutdown", "drain"}
                /\ serving = "unstarted"
                /\ serving' = "accepting"
                /\ UNCHANGED <<transport, signalled, stdin, scanned, state, replies,
                               messageVars, procVars, errCh>>

ServeStarts == /\ transport = "http" /\ proc \in {"serve", "shutdown", "drain"}
               /\ serving = "unstarted"
               /\ IF Closing THEN serving' = "ended" /\ errCh' = "nil"
                             ELSE serving' = "accepting" /\ UNCHANGED errCh
               /\ UNCHANGED <<transport, signalled, stdin, scanned, state, replies,
                              messageVars, procVars>>

\* handleHTTP: a goroutine per request; a refused one gets an HTTP status.
Accept(r) == /\ serving = "accepting" /\ proc = "serve"
             /\ state[r] = "sent"
             /\ Dispatch(r)
             /\ UNCHANGED <<transport, signalled, stdin, scanned, messageVars, procVars, httpVars>>

AcceptFails == /\ serving = "accepting" /\ proc = "serve"
               /\ serving' = "ended" /\ errCh' = "error"
               /\ UNCHANGED <<transport, signalled, stdin, scanned, state, replies,
                              messageVars, procVars>>

\* The select: when both are ready, either is taken.
ServeError == /\ transport = "http" /\ proc = "serve" /\ errCh # "empty"
              /\ Exit(IF errCh = "nil" THEN "ok" ELSE "failed")
              /\ UNCHANGED <<transport, signalled, stdin, scanned, state, replies,
                             messageVars, httpVars>>

\* Shutdown closes the listener, so an accepting Serve ends as well.
Shutdown == /\ transport = "http" /\ proc = "serve" /\ signalled
            /\ proc' = "shutdown"
            /\ IF serving = "accepting" THEN serving' = "ended" /\ errCh' = "nil"
                                        ELSE UNCHANGED httpVars
            /\ UNCHANGED <<transport, exitStatus, signalled, stdin, scanned, state, replies, messageVars>>

\* A faulty variant of the step below: Close instead of Shutdown.
CloseNow == /\ proc = "shutdown"
            /\ proc' = "drain"
            /\ UNCHANGED <<transport, exitStatus, signalled, stdin, scanned, state, replies,
                           messageVars, httpVars>>

InFlightDone == /\ proc = "shutdown" /\ Idle
                /\ proc' = "drain"
                /\ UNCHANGED <<transport, exitStatus, signalled, stdin, scanned, state, replies,
                               messageVars, httpVars>>

ShutdownTimeout == /\ proc = "shutdown" /\ ~Idle
                   /\ Exit("failed")
                   /\ UNCHANGED <<transport, signalled, stdin, scanned, state, replies,
                                  messageVars, httpVars>>

Drain == /\ proc = "drain" /\ errCh # "empty"
         /\ Exit(IF errCh = "nil" THEN "ok" ELSE "failed")
         /\ UNCHANGED <<transport, signalled, stdin, scanned, state, replies,
                        messageVars, httpVars>>

Http == \/ ServeStarts \/ ServeError \/ Shutdown
        \/ InFlightDone \/ ShutdownTimeout \/ Drain
        \/ \E r \in Requests : Accept(r)

-----------------------------------------------------------------------------
(* The clients, the parent and the kernel.                                 *)

Send(r) == /\ state[r] = "unsent" /\ proc # "exited"
           /\ IF transport = "stdio" THEN stdin ELSE proc = "serve"
           /\ state' = [state EXCEPT ![r] = "sent"]
           /\ \E k \in Kinds : kind' = [kind EXCEPT ![r] = k]
           /\ arrived' = Append(arrived, r)
           /\ UNCHANGED <<transport, signalled, stdin, scanned, replies, procVars, httpVars>>

CloseInput == /\ stdin /\ stdin' = FALSE
              /\ UNCHANGED <<transport, signalled, scanned, state, replies, messageVars,
                             procVars, httpVars>>

\* A parent that starts the process with a context kills it when that is done.
Kill == /\ proc # "exited" /\ Exit("killed")
        /\ UNCHANGED <<transport, signalled, stdin, scanned, state, replies, messageVars, httpVars>>

SignalServer ==
  /\ ~signalled /\ signalled' = TRUE
  /\ proc # "exited"
  /\ UNCHANGED <<transport, stdin, scanned, state, replies, messageVars,
                 procVars, httpVars>>

ServerNext ==
  \/ Start \/ Stdio \/ Http \/ AcceptFails
  \/ \E r \in Requests : ToolEnds(r) \/ Send(r)
  \/ CloseInput \/ SignalServer \/ Kill

ServerSpec == ServerInit /\ [][ServerNext]_processVars

(* The process runs on, and a tool ends: it works on bounded files under   *)
(* MaxDuration.  Clients, parent and signals owe nothing.                  *)
FairServerSpec ==
  /\ ServerSpec
  /\ WF_processVars(Start) /\ WF_processVars(Stdio)
  /\ WF_processVars(ServeStarts) /\ WF_processVars(ServeError) /\ WF_processVars(Shutdown)
  /\ WF_processVars(InFlightDone \/ ShutdownTimeout) /\ WF_processVars(Drain)
  /\ \A r \in Requests : WF_processVars(ToolEnds(r))

-----------------------------------------------------------------------------

(* A process that exits with success leaves no tool call behind that it    *)
(* had taken up, whatever the order of signal, listener and requests: the  *)
(* exit after a signal waits for the requests in flight or reports failure. *)
CleanExitLeavesNothing == proc = "exited" /\ exitStatus = "ok" => Idle

(* Over HTTP a signal ends the process, also when it comes before the      *)
(* goroutine calls Serve (cmd/coreutils-mcp/main.go:73-80) and while tools *)
(* run that take longer than the shutdown; over stdio the end of the input *)
(* does (internal/mcpserver/server.go:117-119).                            *)
Told == IF transport = "http" THEN signalled ELSE ~stdin
StopsWhenTold == Told ~> proc = "exited"
=============================================================================
