----------------------------- MODULE ToolSession -----------------------------
(***************************************************************************)
(* A client of internal/mcpclient (McpClient) and the child it has         *)
(* started: coreutils-mcp over stdio (ToolServer), joined to the client by *)
(* the pipes, or another program, of which nothing is known.               *)
(*                                                                         *)
(* The client's goroutines, channels and pipes are McpClient's; for        *)
(* coreutils-mcp its steps that stand for any server are replaced by those *)
(* of Serve.  The calls are numbered in the order in which they are made:  *)
(* initialize and tools/list come first, the others are tool calls.        *)
(***************************************************************************)
EXTENDS McpClient

CONSTANT Handshake   \* calls that start no tool: initialize, tools/list

ASSUME HandshakeAssumption == Handshake \in Nat
(* No more calls than lines that can be under way: agent.go:26 allows five *)
(* tool calls, and the channel alone holds eight lines.                    *)
ASSUME FewCalls == MaxCalls <= ChanCap + 2 * PipeCap + 2

VARIABLES
    server,   \* where coreutils-mcp is, or how it has ended; "other" for another program
    carried,  \* the tool calls it has carried out
    written,  \* the lines of its input, in order: calls, and 0 for the notification
    replied   \* the calls it has answered, in the order of its output

serverVars == <<server, carried, written, replied>>
sessionVars == <<vars, serverVars>>

ToolCalls == {i \in Call : i > Handshake}

SessionInit == Init /\ server \in {"start", "other"} /\ carried = {}
               /\ written = << >> /\ replied = << >>
-----------------------------------------------------------------------------
(* The client. *)
WriteLine ==
    /\ Write
    /\ written' = Append(written, IF notifying THEN 0 ELSE nextID)
    /\ UNCHANGED <<server, carried, replied>>

Kill ==
    /\ KillOnCancel \/ KillOnClose
    /\ server' = "killed" /\ UNCHANGED <<carried, written, replied>>

ReadLines == ReadLoop /\ UNCHANGED serverVars
EndCall == (WriteFails \/ Await) /\ UNCHANGED serverVars
ReapServer == Reap /\ UNCHANGED serverVars
CloseOutput == CloseReader /\ UNCHANGED serverVars
Ask ==
    /\ StartCall \/ StartNotify \/ Timeout \/ Cancel \/ BeginClose \/ Closed
    /\ UNCHANGED serverVars

Client == WriteLine \/ Kill \/ ReadLines \/ EndCall \/ ReapServer \/ CloseOutput \/ Ask
-----------------------------------------------------------------------------
(* The server.  It may refuse its workspace, ... *)
Exits(code) ==
    /\ proc' = "exited" /\ server' = code
    /\ UNCHANGED <<pc, callVars, ctxVars, stdin, stdinOpen, stdout, stdoutOpen, working, answered,
                   noise, readVars, carried, written, replied>>

StartServing == server = "start" /\ server' = "serve" /\ UNCHANGED <<vars, carried, written, replied>>
RefuseWorkspace == server = "start" /\ Exits("failed")

(* ... reads the next line once it is done with the last, ... *)
ReadLine == server = "serve" /\ ServerRead /\ UNCHANGED serverVars

(* ... carries out a tool call, whether or not anyone still waits for it, ... *)
CarryOut ==
    /\ server = "serve" /\ working \in ToolCalls \ carried
    /\ carried' = carried \cup {working}
    /\ UNCHANGED <<vars, server, written, replied>>

(* ... answers, also with the failure of a tool, once the pipe has room, ... *)
Answer ==
    /\ Emit([kind |-> "answer", id |-> working])
    /\ answered' = answered \cup {working} /\ working' = 0
    /\ replied' = Append(replied, working)
    /\ UNCHANGED <<noise, server, carried, written>>

\* Faulty variant: tool calls are answered as soon as they are read.
AnswerFirst == server = "serve" /\ working # 0 /\ Answer

\* Faulty variant: a line about the progress comes before the answer.
AnswerWithProgress ==
    /\ server = "serve" /\ working \notin (ToolCalls \ carried) \cup {0}
    /\ \/ Answer
       \/ /\ Emit(NoLine)
          /\ UNCHANGED <<working, answered, noise, serverVars>>

Reply == server = "serve" /\ working \notin (ToolCalls \ carried) \cup {0} /\ Answer

\* Faulty variant: what is still in the pipe is not looked at.
StopAtOnce == server = "serve" /\ working = 0 /\ ~stdinOpen /\ Exits("ok")

(* ... and ends when its input does. *)
StopServing == server = "serve" /\ working = 0 /\ stdin = << >> /\ ~stdinOpen /\ Exits("ok")

Serve == StartServing \/ ReadLine \/ CarryOut \/ Reply \/ StopServing

SessionNext ==
    \/ server # "other" /\ (Client \/ Serve \/ RefuseWorkspace)
    \/ server = "other" /\ Next /\ UNCHANGED serverVars
SessionSpec == SessionInit /\ [][SessionNext]_sessionVars

(* As in McpClient: nothing is assumed of the server, whichever it is. *)
FairSession == SessionSpec /\ Fairness
-----------------------------------------------------------------------------
(* When an answer has come back, that tool and every one asked for before  *)
(* it, also those whose calls had failed with their context, have been     *)
(* carried out: no straggler changes later what the model is shown now     *)
(* (Serve takes a line when it is done with the last; call drops answers   *)
(* that come late).                                                        *)
NoStraggler ==
    \A i \in Call : server # "other" /\ result[i].state = "returned" =>
        \A j \in ToolCalls : j <= i => j \in carried

(* The client does not wait for a pipe that the server would have to empty *)
(* while the server waits for one that the read loop would have to empty   *)
(* while that waits for the client: write looks at no context, so that     *)
(* nothing but the end of the command would resolve it (client.go:168).    *)
NotAllWaiting ==
    ~ /\ pc = "write" /\ server = "serve" /\ Len(stdin) = PipeCap
      /\ working # 0 /\ Len(stdout) = PipeCap
      /\ reader = "send" /\ Len(messages) = ChanCap

(* Once Close has reaped the child no tool takes effect any more, not even *)
(* one whose call was given up while it ran (Close waits for the process). *)
Reaped == pc \in {"closeReader", "closed"}
NothingAfterClose == [][Reaped => UNCHANGED <<carried, answered>>]_sessionVars

(* The server's half is ToolServer: the client sends it nothing, and kills *)
(* it at no time, that its own specification does not provide for.         *)
Lines == 0..MaxCalls
Sent(r) == \E k \in 1..Len(written) : written[k] = r
Waiting(r) == \E k \in 1..Len(stdin) : stdin[k] = r
IsTool(r) == r > Handshake
Progress(r) ==
    IF ~Sent(r) THEN "unsent"
    ELSE IF Waiting(r) \/ (r # 0 /\ working = r /\ ~IsTool(r)) THEN "sent"
    ELSE IF r # 0 /\ working = r THEN "running" ELSE "done"

Kind(r) ==
    IF ~Sent(r) \/ r \in 1..Handshake THEN "request" ELSE IF r = 0 THEN "notification" ELSE "call"
Process ==
    IF server = "other" THEN "start" ELSE IF server \in {"start", "serve"} THEN server ELSE "exited"
ExitStatus == IF server \in {"start", "serve", "other"} THEN "none" ELSE server
(* A request that is not a tool call is scanned and answered in one step. *)
Scanned ==
    IF server = "other" THEN 0
    ELSE Len(written) - Len(stdin) - (IF working # 0 /\ ~IsTool(working) THEN 1 ELSE 0)

TS == INSTANCE ToolServer WITH
    Requests <- Lines,
    transport <- "stdio", signalled <- FALSE, serving <- "unstarted", errCh <- "empty",
    proc <- Process, exitStatus <- ExitStatus, stdin <- stdinOpen,
    arrived <- written, scanned <- Scanned, replies <- replied,
    kind <- [r \in Lines |-> Kind(r)],
    state <- [r \in Lines |-> Progress(r)]
ServesAsToolServer == TS!ServerSpec
=============================================================================
