------------------------------ MODULE McpClient ------------------------------
(***************************************************************************)
(* The MCP client of internal/mcpclient: the goroutine that makes calls    *)
(* and closes the client, the goroutine of readLoop, the two channels      *)
(* between them, the child process with its pipes, and the contexts that   *)
(* end a call or the child.                                                *)
(*                                                                         *)
(* A line on a pipe is abstracted to what the client does with it: a       *)
(* response with the call it answers, anything else that parses, or        *)
(* something that does not (malformed JSON, a line beyond maxMessageBytes).*)
(* The server is external: it may answer late, never, with noise, or exit. *)
(***************************************************************************)
EXTENDS Integers, Sequences, FiniteSets

CONSTANTS
    MaxCalls,  \* bound: calls made through the client
    MaxNoise,  \* bound: lines of the server that answer nothing
    ChanCap,   \* capacity of the messages channel (8)
    PipeCap    \* lines a pipe holds before its writer blocks

ASSUME McpBounds == MaxCalls \in Nat /\ MaxNoise \in Nat /\ ChanCap \in Nat /\ PipeCap \in Nat

VARIABLES
    pc,        \* the calling goroutine
    nextID,    \* identifier of the last call
    result,    \* what each call returned
    notifying, \* the pending write is a notification, which expects no answer
    timedOut,  \* the context of the pending call has expired
    cancelled, \* the context the child was started with is done
    proc,      \* the child process
    stdin,     \* requests in the pipe to the child
    stdinOpen, \* the client has not closed its end
    stdout,    \* lines in the pipe from the child
    stdoutOpen,\* the client has not closed its end
    working,   \* the request the child has read, 0 when none
    answered,  \* requests the child has answered
    noise,     \* other lines it has written
    reader,    \* the goroutine of readLoop
    held,      \* the message it is passing on
    messages,  \* channel of messages
    closed,    \* that channel is closed
    readErr    \* channel of the transport error, capacity 1

callVars == <<nextID, result, notifying>>
procVars == <<proc, stdin, stdinOpen, stdout, stdoutOpen, working, answered, noise>>
readVars == <<reader, held, messages, closed, readErr>>
ctxVars == <<timedOut, cancelled>>
vars == <<pc, callVars, ctxVars, procVars, readVars>>

Call == 1..MaxCalls
Line == [kind : {"answer", "error"}, id : Call] \cup [kind : {"other", "malformed"}, id : {0}]
Parsed == {line \in Line : line.kind # "malformed"}
NoLine == [kind |-> "other", id |-> 0]

Outcome == [state : {"none", "pending", "failed", "returned"}, of : 0..MaxCalls]
Pending == [state |-> "pending", of |-> 0]
Failed == [state |-> "failed", of |-> 0]
Returned(i) == [state |-> "returned", of |-> i]
-----------------------------------------------------------------------------
(* StartProcess has started the child and New the read loop. *)
Init ==
    /\ pc = "idle" /\ nextID = 0 /\ notifying = FALSE
    /\ result = [i \in Call |-> [state |-> "none", of |-> 0]]
    /\ timedOut = FALSE /\ cancelled = FALSE
    /\ proc = "running" /\ stdin = << >> /\ stdinOpen = TRUE
    /\ stdout = << >> /\ stdoutOpen = TRUE
    /\ working = 0 /\ answered = {} /\ noise = 0
    /\ reader = "scan" /\ held = NoLine /\ messages = << >> /\ closed = FALSE /\ readErr = << >>

(* call takes the next identifier; the mutex is free, one goroutine calls. *)
StartCall ==
    /\ pc = "idle" /\ nextID < MaxCalls
    /\ nextID' = nextID + 1
    /\ result' = [result EXCEPT ![nextID + 1] = Pending]
    /\ pc' = "write" /\ notifying' = FALSE /\ timedOut' = FALSE
    /\ UNCHANGED <<cancelled, procVars, readVars>>

(* notify, which Initialize uses after the first answer. *)
StartNotify ==
    /\ pc = "idle" /\ nextID = 1 /\ result[1].state = "returned" /\ ~notifying
    /\ pc' = "write" /\ notifying' = TRUE
    /\ UNCHANGED <<nextID, result, ctxVars, procVars, readVars>>

(* The write blocks while the pipe is full and looks at no context. *)
Write ==
    /\ pc = "write" /\ proc = "running" /\ Len(stdin) < PipeCap
    /\ stdin' = Append(stdin, IF notifying THEN 0 ELSE nextID)
    /\ pc' = IF notifying THEN "idle" ELSE "wait"
    /\ UNCHANGED <<callVars, ctxVars, proc, stdinOpen, stdout, stdoutOpen, working, answered, noise, readVars>>

(* It fails once nobody can read the pipe any more. *)
WriteFails ==
    /\ pc = "write" /\ proc # "running"
    /\ pc' = "idle"
    /\ result' = IF notifying THEN result ELSE [result EXCEPT ![nextID] = Failed]
    /\ UNCHANGED <<nextID, notifying, ctxVars, procVars, readVars>>

(* The select of call: any ready case may be taken. *)
End(outcome) ==
    /\ pc' = "idle"
    /\ result' = [result EXCEPT ![nextID] = outcome]
    /\ UNCHANGED <<nextID, notifying, ctxVars, procVars, reader, held, closed>>

ContextDone ==
    /\ pc = "wait" /\ (timedOut \/ cancelled)
    /\ End(Failed) /\ UNCHANGED <<messages, readErr>>

TransportError ==
    /\ pc = "wait" /\ readErr # << >>
    /\ readErr' = Tail(readErr)
    /\ End(Failed) /\ UNCHANGED messages

ChannelClosed ==
    /\ pc = "wait" /\ messages = << >> /\ closed
    /\ End(Failed) /\ UNCHANGED <<messages, readErr>>

\* Faulty variant: any response is taken for the answer.
MatchesAnyResponse(line) == line.kind # "other"

Matches(line) == line.id = nextID

ReceiveAnswer ==
    /\ pc = "wait" /\ messages # << >> /\ Matches(Head(messages))
    /\ messages' = Tail(messages)
    /\ End(IF Head(messages).kind = "error" THEN Failed ELSE Returned(Head(messages).id))
    /\ UNCHANGED readErr

(* Notifications and unrelated responses are ignored. *)
ReceiveOther ==
    /\ pc = "wait" /\ messages # << >> /\ ~Matches(Head(messages))
    /\ messages' = Tail(messages)
    /\ UNCHANGED <<pc, callVars, ctxVars, procVars, reader, held, closed, readErr>>

Await == ContextDone \/ TransportError \/ ChannelClosed \/ ReceiveAnswer \/ ReceiveOther
-----------------------------------------------------------------------------
(* readLoop takes a line off the pipe ... *)
Scan ==
    /\ reader = "scan" /\ stdout # << >>
    /\ stdout' = Tail(stdout)
    /\ IF Head(stdout).kind = "malformed"
       THEN reader' = "fail" /\ UNCHANGED held
       ELSE reader' = "send" /\ held' = Head(stdout)
    /\ UNCHANGED <<pc, callVars, ctxVars, proc, stdin, stdinOpen, stdoutOpen, working, answered,
                   noise, messages, closed, readErr>>

(* ... or finds that there will be none: the child is gone, or the client  *)
(* has closed its end (buffered lines may or may not be read first).       *)
ScanEnds ==
    /\ reader = "scan"
    /\ ~stdoutOpen \/ (proc # "running" /\ stdout = << >>)
    /\ reader' = "fail"
    /\ UNCHANGED <<pc, callVars, ctxVars, procVars, held, messages, closed, readErr>>

\* Faulty variant: a message that does not fit is discarded.
DeliverOrDiscard ==
    /\ reader = "send"
    /\ messages' = IF Len(messages) < ChanCap THEN Append(messages, held) ELSE messages
    /\ reader' = "scan" /\ held' = NoLine
    /\ UNCHANGED <<pc, callVars, ctxVars, procVars, closed, readErr>>

(* Passing a message on blocks while the channel is full. *)
Deliver ==
    /\ reader = "send" /\ Len(messages) < ChanCap
    /\ messages' = Append(messages, held)
    /\ reader' = "scan" /\ held' = NoLine
    /\ UNCHANGED <<pc, callVars, ctxVars, procVars, closed, readErr>>

ReportError ==
    /\ reader = "fail" /\ readErr = << >>
    /\ readErr' = <<"transport">> /\ reader' = "close"
    /\ UNCHANGED <<pc, callVars, ctxVars, procVars, held, messages, closed>>

\* Faulty variant: the channel is left open when the read loop ends.
LeaveMessagesOpen ==
    /\ reader = "close"
    /\ reader' = "done"
    /\ UNCHANGED <<pc, callVars, ctxVars, procVars, held, messages, closed, readErr>>

CloseMessages ==
    /\ reader = "close"
    /\ closed' = TRUE /\ reader' = "done"
    /\ UNCHANGED <<pc, callVars, ctxVars, procVars, held, messages, readErr>>

ReadLoop == Scan \/ ScanEnds \/ Deliver \/ ReportError \/ CloseMessages
-----------------------------------------------------------------------------
(* The server reads one request at a time ... *)
ServerRead ==
    /\ proc = "running" /\ working = 0 /\ stdin # << >>
    /\ working' = Head(stdin) /\ stdin' = Tail(stdin)
    /\ UNCHANGED <<pc, callVars, ctxVars, proc, stdinOpen, stdout, stdoutOpen, answered, noise, readVars>>

Emit(line) ==
    /\ proc = "running" /\ Len(stdout) < PipeCap
    /\ stdout' = Append(stdout, line)
    /\ UNCHANGED <<pc, callVars, ctxVars, proc, stdin, stdinOpen, stdoutOpen, readVars>>

(* ... answers it, with a result or an error ... *)
ServerAnswer ==
    /\ working # 0
    /\ \E kind \in {"answer", "error"} : Emit([kind |-> kind, id |-> working])
    /\ answered' = answered \cup {working} /\ working' = 0
    /\ UNCHANGED noise

(* ... writes something else ... *)
ServerNoise ==
    /\ noise < MaxNoise
    /\ \E kind \in {"other", "malformed"} : Emit([kind |-> kind, id |-> 0])
    /\ noise' = noise + 1
    /\ UNCHANGED <<working, answered>>

(* ... and may exit at any moment. *)
ServerExit ==
    /\ proc = "running" /\ proc' = "exited"
    /\ UNCHANGED <<pc, callVars, ctxVars, stdin, stdinOpen, stdout, stdoutOpen, working, answered, noise, readVars>>
-----------------------------------------------------------------------------
Timeout ==
    /\ pc \in {"write", "wait"} /\ ~timedOut /\ timedOut' = TRUE
    /\ UNCHANGED <<pc, callVars, cancelled, procVars, readVars>>

Cancel ==
    /\ ~cancelled /\ cancelled' = TRUE
    /\ UNCHANGED <<pc, callVars, timedOut, procVars, readVars>>

\* Faulty variant: the child is not tied to the context.
OutliveContext == cancelled /\ UNCHANGED vars

(* exec.CommandContext kills the child when its context is done. *)
KillOnCancel ==
    /\ cancelled /\ proc = "running" /\ proc' = "exited"
    /\ UNCHANGED <<pc, callVars, ctxVars, stdin, stdinOpen, stdout, stdoutOpen, working, answered, noise, readVars>>
-----------------------------------------------------------------------------
(* Close: end the child's input, ... *)
BeginClose ==
    /\ pc = "idle" /\ pc' = "stop" /\ stdinOpen' = FALSE
    /\ UNCHANGED <<callVars, ctxVars, proc, stdin, stdout, stdoutOpen, working, answered, noise, readVars>>

\* Faulty variant: the child is waited for and never killed.
WaitPatiently == pc = "stop" /\ UNCHANGED vars

(* ... wait for it, killing it after three seconds (Wait also closes the   *)
(* client's end of its output), ...                                        *)
KillOnClose ==
    /\ pc = "stop" /\ proc = "running" /\ proc' = "exited"
    /\ UNCHANGED <<pc, callVars, ctxVars, stdin, stdinOpen, stdout, stdoutOpen, working, answered, noise, readVars>>

Reap ==
    /\ pc = "stop" /\ proc = "exited"
    /\ proc' = "reaped" /\ stdoutOpen' = FALSE /\ pc' = "closeReader"
    /\ UNCHANGED <<callVars, ctxVars, stdin, stdinOpen, stdout, working, answered, noise, readVars>>

(* ... and close the output once more. *)
CloseReader ==
    /\ pc = "closeReader" /\ pc' = "closed" /\ stdoutOpen' = FALSE
    /\ UNCHANGED <<callVars, ctxVars, proc, stdin, stdinOpen, stdout, working, answered, noise, readVars>>

Closed == pc = "closed" /\ UNCHANGED vars

Caller == StartCall \/ StartNotify \/ Write \/ WriteFails \/ Await
Server == ServerRead \/ ServerAnswer \/ ServerNoise \/ ServerExit
Contexts == Timeout \/ Cancel \/ KillOnCancel
Close == BeginClose \/ KillOnClose \/ Reap \/ CloseReader
Next == Caller \/ ReadLoop \/ Server \/ Contexts \/ Close \/ Closed

Spec == Init /\ [][Next]_vars
(* Goroutines that can go on do; timers expire.  Nothing is assumed of the *)
(* server, of further calls, of timeouts or of the cancellation itself.    *)
Fairness ==
    /\ WF_vars(Write) /\ WF_vars(WriteFails) /\ WF_vars(Await) /\ WF_vars(ReadLoop)
    /\ WF_vars(KillOnCancel) /\ WF_vars(KillOnClose \/ Reap) /\ WF_vars(CloseReader)
-----------------------------------------------------------------------------
(* Every variable has its type: the channels never exceed their capacity   *)
(* and nothing but a parsed line is passed on.                             *)
TypeOK ==
    /\ pc \in {"idle", "write", "wait", "stop", "closeReader", "closed"}
    /\ nextID \in 0..MaxCalls
    /\ result \in [Call -> Outcome]
    /\ notifying \in BOOLEAN /\ timedOut \in BOOLEAN /\ cancelled \in BOOLEAN
    /\ proc \in {"running", "exited", "reaped"}
    /\ stdin \in Seq(0..nextID) /\ Len(stdin) <= PipeCap
    /\ stdout \in Seq(Line) /\ Len(stdout) <= PipeCap
    /\ stdinOpen \in BOOLEAN /\ stdoutOpen \in BOOLEAN
    /\ working \in 0..nextID /\ answered \subseteq 1..nextID /\ noise \in 0..MaxNoise
    /\ reader \in {"scan", "send", "fail", "close", "done"}
    /\ held \in Parsed /\ messages \in Seq(Parsed) /\ Len(messages) <= ChanCap
    /\ closed \in BOOLEAN /\ readErr \in {<< >>, <<"transport">>}

(* An answer the server wrote to the pending call is never lost between    *)
(* the pipe, readLoop and the channel, whatever noise or stale answers     *)
(* fill them and whoever dies (call, readLoop).                            *)
AnswerInTransit ==
    pc = "wait" /\ nextID \in answered =>
        \/ \E k \in 1..Len(stdout) : stdout[k].id = nextID
        \/ reader = "send" /\ held.id = nextID
        \/ \E k \in 1..Len(messages) : messages[k].id = nextID

(* The client keeps the promise of RpcCall: a call returns the answer to   *)
(* that call, never a late one to an earlier call that had timed out       *)
(* (the comparison of identifiers in call).                                *)
Rpc == INSTANCE RpcCall WITH asked <- nextID
ImplementsRpc == Rpc!Spec

(* A call whose transport has ended returns, also when an earlier call     *)
(* took the one error readLoop reports (readLoop closes the channel).      *)
LossIsNoticed == (reader = "done" /\ pc = "wait") ~> pc # "wait"

(* Cancelling the context the child was started with ends a pending call,  *)
(* even one that is blocked writing to a child that does not read.         *)
CancelReturns == (cancelled /\ pc \in {"write", "wait"}) ~> pc \notin {"write", "wait"}

(* Close always ends, with the child gone and reaped, whatever the child   *)
(* does: client.go says it does not survive the agent.                     *)
CloseReaps == pc = "stop" ~> (pc = "closed" /\ proc = "reaped")
=============================================================================
