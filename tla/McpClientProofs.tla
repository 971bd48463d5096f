--------------------------- MODULE McpClientProofs ---------------------------
(***************************************************************************)
(* Proofs about McpClient, for every number of calls and every capacity of *)
(* the channel and the pipes: its types, that no answer is lost on its way *)
(* to the call that waits for it, and that the client implements RpcCall.  *)
(* A ToolSession is an McpClient and a certain server, so that this holds  *)
(* of it as well; what its server adds is proved on top of that, and that  *)
(* the server keeps to ToolServer.                                         *)
(***************************************************************************)
EXTENDS ToolSession, SequenceTheorems, TLAPS

(* What happens to the lines of a queue when one is taken or added. *)
LEMMA Dequeue ==
    ASSUME NEW S, NEW s \in Seq(S), s # << >>
    PROVE  /\ Head(s) \in S /\ Head(s) = s[1] /\ 1 \in 1..Len(s)
           /\ Tail(s) \in Seq(S) /\ Len(Tail(s)) = Len(s) - 1
           /\ \A k \in 1..Len(Tail(s)) : Tail(s)[k] = s[k + 1] /\ k + 1 \in 1..Len(s)
           /\ \A k \in 1..Len(s) : k # 1 => k - 1 \in 1..Len(Tail(s))
  <1>1. Len(s) \in Nat /\ Len(s) > 0
    BY EmptySeq, LenProperties
  <1> QED
    BY <1>1, HeadTailProperties

(* The identifiers of the lines of a queue are of answered calls, or 0. *)
AllAnswered(s, known) == \A k \in 1..Len(s) : s[k].id = 0 \/ s[k].id \in known
(* Some line of a queue carries the identifier. *)
Holds(s, id) == \E k \in 1..Len(s) : s[k].id = id

(* Taking a line keeps AllAnswered. *)
LEMMA AnsweredTail ==
    ASSUME NEW S, NEW s \in Seq(S), s # << >>, NEW known, AllAnswered(s, known)
    PROVE  AllAnswered(Tail(s), known) /\ (Head(s).id = 0 \/ Head(s).id \in known)
  BY Dequeue DEF AllAnswered

(* Adding an answer of a known call keeps it (readLoop, client.go:107). *)
LEMMA AnsweredAppend ==
    ASSUME NEW S, NEW s \in Seq(S), NEW line \in S, NEW known,
           AllAnswered(s, known), line.id = 0 \/ line.id \in known
    PROVE  AllAnswered(Append(s, line), known)
  <1>1. Len(s) \in Nat
    BY LenProperties
  <1>2. \A k \in 1..Len(Append(s, line)) : k \in 1..Len(s) \/ k = Len(s) + 1
    BY <1>1, AppendProperties
  <1> QED
    BY <1>2, AppendProperties DEF AllAnswered

(* So does learning of more answers. *)
LEMMA AnsweredMore ==
    ASSUME NEW s, NEW known, NEW more, known \subseteq more, AllAnswered(s, known)
    PROVE  AllAnswered(s, more)
  BY DEF AllAnswered

(* A queue that holds a line still does after its head is taken, unless    *)
(* the head was that line.                                                 *)
LEMMA HoldsTail ==
    ASSUME NEW S, NEW s \in Seq(S), s # << >>, NEW id, Holds(s, id)
    PROVE  Head(s).id = id \/ Holds(Tail(s), id)
  <1>1. PICK k \in 1..Len(s) : s[k].id = id
    BY DEF Holds
  <1>2. CASE k = 1
    BY <1>1, <1>2, Dequeue
  <1>3. CASE k # 1
    <2>1. k - 1 \in 1..Len(Tail(s))
      BY <1>3, Dequeue
    <2>2. Tail(s)[k - 1] = s[(k - 1) + 1] /\ (k - 1) + 1 = k
      BY <2>1, Dequeue
    <2> QED
      BY <1>1, <2>1, <2>2 DEF Holds
  <1> QED
    BY <1>2, <1>3

(* An addition keeps what a queue holds, and adds the new line to it. *)
LEMMA HoldsAppend ==
    ASSUME NEW S, NEW s \in Seq(S), NEW line \in S, NEW id, Holds(s, id) \/ line.id = id
    PROVE  Holds(Append(s, line), id)
  <1>1. Len(s) \in Nat /\ Len(Append(s, line)) = Len(s) + 1
    BY LenProperties, AppendProperties
  <1>2. CASE Holds(s, id)
    <2>1. PICK k \in 1..Len(s) : s[k].id = id
      BY <1>2 DEF Holds
    <2>2. k \in 1..Len(Append(s, line))
      BY <1>1
    <2> QED
      BY <2>1, <2>2, AppendProperties DEF Holds
  <1>3. CASE line.id = id
    <2>1. Len(s) + 1 \in 1..Len(Append(s, line))
      BY <1>1
    <2> QED
      BY <1>3, <2>1, AppendProperties DEF Holds
  <1> QED
    BY <1>2, <1>3

(* Line is what it says: a line with an identifier answers a call. *)
LEMMA LineIds ==
    /\ \A line \in Line : line.id \in 0..MaxCalls
    /\ \A line \in Line : line.kind = "malformed" => line.id = 0
    /\ Parsed \subseteq Line /\ NoLine \in Parsed /\ NoLine.id = 0
    /\ \A kind \in {"answer", "error"}, i \in Call : [kind |-> kind, id |-> i] \in Line
    /\ \A kind \in {"other", "malformed"} : [kind |-> kind, id |-> 0] \in Line
  BY McpBounds DEF Line, Parsed, NoLine, Call

(* What a call returns is an outcome, and so it stays in the table.        *)
LEMMA Outcomes ==
    /\ Pending \in Outcome /\ Failed \in Outcome /\ [state |-> "none", of |-> 0] \in Outcome
    /\ \A i \in 0..MaxCalls : Returned(i) \in Outcome
    /\ \A table \in [Call -> Outcome], i, o \in Outcome :
           [table EXCEPT ![i] = o] \in [Call -> Outcome]
  <1>1. 0 \in 0..MaxCalls
    BY McpBounds
  <1>2. \A state \in {"none", "pending", "failed", "returned"}, i \in 0..MaxCalls :
            [state |-> state, of |-> i] \in Outcome
    BY DEF Outcome
  <1>3. \A table \in [Call -> Outcome], i, o \in Outcome :
            [table EXCEPT ![i] = o] \in [Call -> Outcome]
    OBVIOUS
  <1> QED
    BY <1>1, <1>2, <1>3 DEF Pending, Failed, Returned
-----------------------------------------------------------------------------
(* Type correctness, one action at a time.                                 *)
LEMMA InitTypes == Init => TypeOK
  <1> SUFFICES ASSUME Init PROVE TypeOK
    OBVIOUS
  <1>1. result \in [Call -> Outcome]
    BY Outcomes DEF Init
  <1>2. held \in Parsed
    BY LineIds DEF Init
  <1>3. stdin \in Seq(0..nextID) /\ stdout \in Seq(Line) /\ messages \in Seq(Parsed)
    BY DEF Init
  <1>4. Len(stdin) <= PipeCap /\ Len(stdout) <= PipeCap /\ Len(messages) <= ChanCap
    BY McpBounds DEF Init
  <1>5. nextID \in 0..MaxCalls /\ working \in 0..nextID /\ answered \subseteq 1..nextID /\ noise \in 0..MaxNoise
    BY McpBounds DEF Init
  <1> QED
    BY <1>1, <1>2, <1>3, <1>4, <1>5 DEF Init, TypeOK

(* The calling goroutine. *)
LEMMA CallerTypes == TypeOK /\ Caller => TypeOK'
  <1> SUFFICES ASSUME TypeOK, Caller PROVE TypeOK'
    OBVIOUS
  <1> USE DEF TypeOK, callVars, ctxVars, procVars, readVars
  <1>1. CASE StartCall
    <2>1. nextID' = nextID + 1 /\ nextID' \in 0..MaxCalls
      BY <1>1, McpBounds DEF StartCall
    <2>2. 0..nextID \subseteq 0..nextID' /\ 1..nextID \subseteq 1..nextID'
      BY <2>1
    <2>3. stdin' \in Seq(0..nextID') /\ working' \in 0..nextID' /\ answered' \subseteq 1..nextID'
      BY <1>1, <2>2, SeqMonotonic DEF StartCall
    <2>4. result' \in [Call -> Outcome]
      BY <1>1, Outcomes DEF StartCall
    <2> QED
      BY <1>1, <2>1, <2>3, <2>4 DEF StartCall
  <1>2. CASE StartNotify
    BY <1>2 DEF StartNotify
  <1>3. CASE Write
    <2>1. (IF notifying THEN 0 ELSE nextID) \in 0..nextID
      BY DEF TypeOK
    <2>2. stdin' \in Seq(0..nextID) /\ Len(stdin') = Len(stdin) + 1
      BY <1>3, <2>1, AppendProperties DEF Write
    <2>3. Len(stdin') <= PipeCap
      BY <1>3, <2>2, McpBounds, LenProperties DEF Write
    <2> QED
      BY <1>3, <2>2, <2>3 DEF Write
  <1>4. CASE WriteFails
    <2>1. result' \in [Call -> Outcome]
      BY <1>4, Outcomes DEF WriteFails
    <2> QED
      BY <1>4, <2>1 DEF WriteFails
  <1>5. CASE ContextDone \/ TransportError \/ ChannelClosed
    <2>1. /\ End(Failed) /\ UNCHANGED messages
          /\ readErr' = readErr \/ (readErr' = Tail(readErr) /\ readErr # << >>)
      <3>1. CASE ContextDone
        BY <3>1 DEF ContextDone
      <3>2. CASE TransportError
        BY <3>2 DEF TransportError
      <3>3. CASE ChannelClosed
        BY <3>3 DEF ChannelClosed
      <3> QED
        BY <1>5, <3>1, <3>2, <3>3
    <2>2. result' \in [Call -> Outcome]
      BY <2>1, Outcomes DEF End
    <2>3. Tail(<<"transport">>) = << >>
      OBVIOUS
    <2>4. readErr' \in {<< >>, <<"transport">>}
      BY <2>1, <2>3
    <2> QED
      BY <2>1, <2>2, <2>4 DEF End
  <1>6. CASE ReceiveAnswer
    <2>1. Head(messages) \in Parsed
      BY <1>6, Dequeue DEF ReceiveAnswer
    <2>2. Head(messages).id \in 0..MaxCalls
      BY <2>1, LineIds
    <2>3. result' \in [Call -> Outcome]
      BY <1>6, <2>2, Outcomes DEF ReceiveAnswer, End
    <2>4. messages' \in Seq(Parsed) /\ Len(messages') = Len(messages) - 1
      BY <1>6, Dequeue DEF ReceiveAnswer
    <2>5. Len(messages') <= ChanCap
      BY <2>4, McpBounds, LenProperties
    <2> QED
      BY <1>6, <2>3, <2>4, <2>5 DEF ReceiveAnswer, End
  <1>7. CASE ReceiveOther
    <2>1. messages' \in Seq(Parsed) /\ Len(messages') = Len(messages) - 1
      BY <1>7, Dequeue DEF ReceiveOther
    <2>2. Len(messages') <= ChanCap
      BY <2>1, McpBounds, LenProperties
    <2> QED
      BY <1>7, <2>1, <2>2 DEF ReceiveOther
  <1> QED
    BY <1>1, <1>2, <1>3, <1>4, <1>5, <1>6, <1>7 DEF Caller, Await

(* The goroutine of readLoop. *)
LEMMA ReadLoopTypes == TypeOK /\ ReadLoop => TypeOK'
  <1> SUFFICES ASSUME TypeOK, ReadLoop PROVE TypeOK'
    OBVIOUS
  <1> USE DEF TypeOK, callVars, ctxVars, procVars, readVars
  <1>1. CASE Scan
    <2>1. stdout' \in Seq(Line) /\ Len(stdout') = Len(stdout) - 1 /\ Head(stdout) \in Line
      BY <1>1, Dequeue DEF Scan
    <2>2. Len(stdout') <= PipeCap
      BY <2>1, McpBounds, LenProperties
    <2>3. held' \in Parsed /\ reader' \in {"send", "fail"}
      BY <1>1, <2>1 DEF Scan, Parsed
    <2> QED
      BY <1>1, <2>1, <2>2, <2>3 DEF Scan
  <1>2. CASE ScanEnds
    BY <1>2 DEF ScanEnds
  <1>3. CASE Deliver
    <2>1. messages' \in Seq(Parsed) /\ Len(messages') = Len(messages) + 1
      BY <1>3, AppendProperties DEF Deliver
    <2>2. Len(messages') <= ChanCap
      BY <1>3, <2>1, McpBounds, LenProperties DEF Deliver
    <2> QED
      BY <1>3, <2>1, <2>2, LineIds DEF Deliver
  <1>4. CASE ReportError \/ CloseMessages
    BY <1>4, ZenonT(30) DEF ReportError, CloseMessages
  <1> QED
    BY <1>1, <1>2, <1>3, <1>4 DEF ReadLoop

(* The child process. *)
LEMMA ServerTypes == TypeOK /\ Server => TypeOK'
  <1> SUFFICES ASSUME TypeOK, Server PROVE TypeOK'
    OBVIOUS
  <1> USE DEF TypeOK, callVars, ctxVars, procVars, readVars
  <1>1. CASE ServerRead
    <2>1. stdin' \in Seq(0..nextID) /\ Len(stdin') = Len(stdin) - 1 /\ Head(stdin) \in 0..nextID
      BY <1>1, Dequeue DEF ServerRead
    <2>2. Len(stdin') <= PipeCap
      BY <2>1, McpBounds, LenProperties
    <2> QED
      BY <1>1, <2>1, <2>2 DEF ServerRead
  <1>2. ASSUME NEW line \in Line, Emit(line)
        PROVE  stdout' \in Seq(Line) /\ Len(stdout') <= PipeCap
    <2>1. stdout' \in Seq(Line) /\ Len(stdout') = Len(stdout) + 1
      BY <1>2, AppendProperties DEF Emit
    <2> QED
      BY <1>2, <2>1, McpBounds, LenProperties DEF Emit
  <1>3. CASE ServerAnswer
    <2>1. working \in 1..nextID /\ working \in Call
      BY <1>3, McpBounds DEF ServerAnswer, Call
    <2>2. PICK kind \in {"answer", "error"} : Emit([kind |-> kind, id |-> working])
      BY <1>3 DEF ServerAnswer
    <2>3. stdout' \in Seq(Line) /\ Len(stdout') <= PipeCap
      BY <1>2, <2>1, <2>2, LineIds
    <2>4. answered' \subseteq 1..nextID /\ working' \in 0..nextID
      BY <1>3, <2>1 DEF ServerAnswer
    <2> QED
      BY <1>3, <2>2, <2>3, <2>4 DEF ServerAnswer, Emit
  <1>4. CASE ServerNoise
    <2>1. PICK kind \in {"other", "malformed"} : Emit([kind |-> kind, id |-> 0])
      BY <1>4 DEF ServerNoise
    <2>2. stdout' \in Seq(Line) /\ Len(stdout') <= PipeCap
      BY <1>2, <2>1, LineIds
    <2>3. noise' \in 0..MaxNoise
      BY <1>4, McpBounds DEF ServerNoise
    <2> QED
      BY <1>4, <2>1, <2>2, <2>3 DEF ServerNoise, Emit
  <1>5. CASE ServerExit
    BY <1>5 DEF ServerExit
  <1> QED
    BY <1>1, <1>3, <1>4, <1>5 DEF Server

(* Every step. *)
LEMMA NextTypes == TypeOK /\ [Next]_vars => TypeOK'
  <1> SUFFICES ASSUME TypeOK, [Next]_vars PROVE TypeOK'
    OBVIOUS
  <1> USE DEF TypeOK, callVars, ctxVars, procVars, readVars
  <1>1. CASE Contexts \/ Close
    <2>1. CASE Timeout
      BY <2>1 DEF Timeout
    <2>2. CASE Cancel
      BY <2>2, ZenonT(90) DEF Cancel
    <2>3. CASE KillOnCancel \/ KillOnClose
      BY <2>3, ZenonT(30) DEF KillOnCancel, KillOnClose
    <2>4. CASE BeginClose
      BY <2>4, ZenonT(30) DEF BeginClose
    <2>5. CASE Reap
      BY <2>5, ZenonT(30) DEF Reap
    <2>6. CASE CloseReader
      BY <2>6, ZenonT(30) DEF CloseReader
    <2> QED
      BY <1>1, <2>1, <2>2, <2>3, <2>4, <2>5, <2>6 DEF Contexts, Close
  <1>2. CASE UNCHANGED vars
    BY <1>2 DEF vars
  <1> QED
    BY <1>1, <1>2, CallerTypes, ReadLoopTypes, ServerTypes DEF Next, Closed

(* The client of client.go keeps its types: the channels stay within their *)
(* capacities and identifiers are those of calls made.                     *)
THEOREM TypeCorrect == Spec => []TypeOK
  BY InitTypes, NextTypes, PTL DEF Spec
-----------------------------------------------------------------------------
(* Every identified line underway is of a call that the child answered.    *)
Origin ==
    /\ AllAnswered(stdout, answered) /\ AllAnswered(messages, answered)
    /\ held.id = 0 \/ held.id \in answered

(* A fresh client has no line yet (New, client.go:39-49). *)
LEMMA InitOrigin == Init => Origin
  BY LineIds DEF Init, Origin, AllAnswered

(* Only the server makes lines with an identifier, when it answers; the    *)
(* pipe, readLoop and the channel pass them on unchanged.                  *)
LEMMA NextOrigin == TypeOK /\ Origin /\ [Next]_vars => Origin'
  <1> SUFFICES ASSUME TypeOK, Origin, [Next]_vars PROVE Origin'
    OBVIOUS
  <1>t. stdout \in Seq(Line) /\ messages \in Seq(Parsed) /\ held \in Parsed
    BY DEF TypeOK
  <1>1. ASSUME UNCHANGED <<stdout, messages, held, answered>> PROVE Origin'
    BY <1>1 DEF Origin, AllAnswered
  <1>2. CASE ReceiveAnswer \/ ReceiveOther
    <2>1. messages # << >> /\ messages' = Tail(messages) /\ UNCHANGED <<stdout, held, answered>>
      BY <1>2 DEF ReceiveAnswer, ReceiveOther, End, procVars
    <2>2. AllAnswered(messages', answered)
      BY <1>t, <2>1, AnsweredTail DEF Origin
    <2> QED
      BY <2>1, <2>2 DEF Origin
  <1>3. CASE Scan
    <2>1. /\ stdout # << >> /\ stdout' = Tail(stdout) /\ UNCHANGED <<messages, answered>>
          /\ held' = held \/ held' = Head(stdout)
      BY <1>3 DEF Scan
    <2>2. AllAnswered(stdout', answered) /\ (Head(stdout).id = 0 \/ Head(stdout).id \in answered)
      BY <1>t, <2>1, AnsweredTail DEF Origin
    <2> QED
      BY <2>1, <2>2 DEF Origin
  <1>4. CASE Deliver
    <2>1. messages' = Append(messages, held) /\ held' = NoLine /\ UNCHANGED <<stdout, answered>>
      BY <1>4 DEF Deliver, procVars
    <2>2. AllAnswered(messages', answered)
      BY <1>t, <2>1, AnsweredAppend DEF Origin
    <2> QED
      BY <2>1, <2>2, LineIds DEF Origin
  <1>5. CASE ServerAnswer
    <2>1. PICK kind \in {"answer", "error"} : Emit([kind |-> kind, id |-> working])
      BY <1>5 DEF ServerAnswer
    <2>2. working \in Call /\ answered \subseteq answered' /\ working \in answered'
      BY <1>5, McpBounds DEF ServerAnswer, TypeOK, Call
    <2>3. [kind |-> kind, id |-> working] \in Line
      BY <2>2, LineIds
    <2>4. /\ stdout' = Append(stdout, [kind |-> kind, id |-> working])
          /\ UNCHANGED <<messages, held>>
      BY <2>1 DEF Emit, readVars
    <2>5. AllAnswered(stdout, answered') /\ AllAnswered(messages, answered')
      BY <2>2, AnsweredMore DEF Origin
    <2>6. AllAnswered(stdout', answered')
      BY <1>t, <2>2, <2>3, <2>4, <2>5, AnsweredAppend
    <2> QED
      BY <2>2, <2>4, <2>5, <2>6 DEF Origin
  <1>6. CASE ServerNoise
    <2>1. PICK kind \in {"other", "malformed"} : Emit([kind |-> kind, id |-> 0])
      BY <1>6 DEF ServerNoise
    <2>2. /\ stdout' = Append(stdout, [kind |-> kind, id |-> 0])
          /\ UNCHANGED <<messages, held, answered>>
      BY <1>6, <2>1 DEF ServerNoise, Emit, readVars
    <2>3. AllAnswered(stdout', answered)
      BY <1>t, <2>2, LineIds, AnsweredAppend DEF Origin
    <2> QED
      BY <2>2, <2>3 DEF Origin
  <1>7. CASE Contexts \/ Close \/ UNCHANGED vars
    BY <1>1, <1>7 DEF Contexts, Timeout, Cancel, KillOnCancel, Close, BeginClose, KillOnClose, Reap,
       CloseReader, vars, procVars, readVars
  <1>8. CASE StartCall \/ StartNotify \/ Write \/ WriteFails
    BY <1>1, <1>8 DEF StartCall, StartNotify, Write, WriteFails, procVars, readVars
  <1>9. CASE ContextDone \/ TransportError \/ ChannelClosed
    BY <1>1, <1>9 DEF ContextDone, TransportError, ChannelClosed, End, procVars
  <1>10. CASE ScanEnds \/ ReportError \/ CloseMessages \/ ServerRead \/ ServerExit
    BY <1>1, <1>10 DEF ScanEnds, ReportError, CloseMessages, ServerRead, ServerExit, procVars, readVars
  <1> QED
    BY <1>2, <1>3, <1>4, <1>5, <1>6, <1>7, <1>8, <1>9, <1>10
       DEF Next, Caller, Await, ReadLoop, Server, Closed
-----------------------------------------------------------------------------
(* The last call is pending exactly while the goroutine writes or waits    *)
(* for it.                                                                 *)
Calling == pc = "wait" \/ (pc = "write" /\ ~notifying)
Control ==
    /\ pc = "wait" => ~notifying
    /\ Calling => nextID > 0 /\ result[nextID].state = "pending"
    /\ nextID > 0 /\ result[nextID].state = "pending" => Calling

(* A fresh client has no call (New, client.go:39-49). *)
LEMMA InitControl == Init => Control
  BY DEF Init, Control, Calling

(* The pending entry of the table is that of the call being made (call).   *)
LEMMA NextControl == TypeOK /\ Control /\ [Next]_vars => Control'
  <1> SUFFICES ASSUME TypeOK, Control, [Next]_vars PROVE Control'
    OBVIOUS
  <1>1. ASSUME UNCHANGED <<pc, nextID, result, notifying>> PROVE Control'
    BY <1>1 DEF Control, Calling
  <1>t. nextID \in Nat /\ nextID <= MaxCalls /\ result \in [Call -> Outcome] /\ notifying \in BOOLEAN
    BY McpBounds DEF TypeOK
  <1>2. CASE StartCall
    <2>1. nextID' = nextID + 1 /\ nextID' \in Call
      BY <1>2, <1>t, McpBounds DEF StartCall, Call
    <2>2. result'[nextID'] = Pending /\ pc' = "write" /\ notifying' = FALSE
      BY <1>2, <1>t, <2>1 DEF StartCall
    <2> QED
      BY <1>t, <2>1, <2>2 DEF Control, Calling, Pending
  <1>3. CASE StartNotify
    BY <1>3 DEF StartNotify, Control, Calling
  <1>4. CASE Write
    BY <1>4 DEF Write, callVars, Control, Calling
  <1>5. ASSUME nextID > 0 PROVE nextID \in Call
    BY <1>5, <1>t DEF Call
  <1>6. CASE WriteFails
    <2>1. CASE notifying
      BY <1>6, <2>1 DEF WriteFails, Control, Calling
    <2>2. CASE ~notifying
      <3>1. nextID > 0 /\ nextID \in Call
        BY <1>5, <1>6, <2>2 DEF WriteFails, Control, Calling
      <3>2. result'[nextID'].state = "failed" /\ pc' = "idle" /\ UNCHANGED <<nextID, notifying>>
        BY <1>6, <1>t, <2>2, <3>1 DEF WriteFails, Failed
      <3> QED
        BY <3>2 DEF Control, Calling
    <2> QED
      BY <1>t, <2>1, <2>2
  <1>7. ASSUME NEW outcome \in Outcome, outcome.state # "pending", pc = "wait", End(outcome)
        PROVE  Control'
    <2>1. nextID > 0 /\ nextID \in Call
      BY <1>5, <1>7 DEF Control, Calling
    <2>2. result'[nextID'] = outcome /\ pc' = "idle" /\ UNCHANGED <<nextID, notifying>>
      BY <1>7, <1>t, <2>1 DEF End
    <2> QED
      BY <1>7, <2>2 DEF Control, Calling
  <1>8. CASE ContextDone \/ TransportError \/ ChannelClosed
    BY <1>7, <1>8, Outcomes DEF ContextDone, TransportError, ChannelClosed, Failed
  <1>9. CASE ReceiveAnswer
    <2>1. Head(messages).id = nextID /\ nextID \in 0..MaxCalls /\ pc = "wait"
      BY <1>9 DEF ReceiveAnswer, Matches, TypeOK
    <2>2. End(Failed) \/ End(Returned(nextID))
      BY <1>9, <2>1 DEF ReceiveAnswer
    <2>3. Failed.state # "pending" /\ Returned(nextID).state # "pending"
      BY DEF Failed, Returned
    <2> QED
      BY <1>7, <2>1, <2>2, <2>3, Outcomes
  <1>10. CASE ReceiveOther \/ ReadLoop \/ Contexts \/ UNCHANGED vars
    BY <1>1, <1>10 DEF ReceiveOther, ReadLoop, Scan, ScanEnds, Deliver, ReportError, CloseMessages,
       Contexts, Timeout, Cancel, KillOnCancel, vars, callVars
  <1>11. CASE Server
    BY <1>1, <1>11 DEF Server, ServerRead, ServerAnswer, ServerNoise, ServerExit, Emit, callVars
  <1>12. CASE Close
    BY <1>12 DEF Close, BeginClose, KillOnClose, Reap, CloseReader, callVars, Control, Calling
  <1> QED
    BY <1>2, <1>3, <1>4, <1>6, <1>8, <1>9, <1>10, <1>11, <1>12 DEF Next, Caller, Await, Closed
-----------------------------------------------------------------------------
(* A call that is still being written has been seen by nobody.             *)
Fresh ==
    pc = "write" /\ ~notifying =>
        /\ nextID \notin answered /\ working # nextID
        /\ \A k \in 1..Len(stdin) : stdin[k] # nextID

(* A call that is being written has a new identifier (client.go:121).      *)
LEMMA NextFresh == TypeOK /\ Fresh /\ [Next]_vars => Fresh'
  <1> SUFFICES ASSUME TypeOK, Fresh, [Next]_vars PROVE Fresh'
    OBVIOUS
  <1>t. /\ nextID \in Nat /\ stdin \in Seq(0..nextID) /\ working \in 0..nextID
        /\ answered \subseteq 1..nextID
    BY McpBounds DEF TypeOK
  <1>1. ASSUME UNCHANGED <<pc, nextID, notifying, answered, working, stdin>> PROVE Fresh'
    BY <1>1 DEF Fresh
  <1>2. ASSUME pc' # "write" \/ notifying' PROVE Fresh'
    BY <1>2 DEF Fresh
  <1>3. CASE StartCall
    <2>1. nextID' = nextID + 1 /\ UNCHANGED <<answered, working, stdin>>
      BY <1>3 DEF StartCall, procVars
    <2>2. nextID' \notin answered' /\ working' # nextID'
      BY <1>t, <2>1
    <2>3. \A k \in 1..Len(stdin) : stdin[k] \in 0..nextID
      BY <1>t, ElementOfSeq
    <2>4. \A k \in 1..Len(stdin) : stdin[k] # nextID'
      BY <1>t, <2>1, <2>3
    <2> QED
      BY <2>1, <2>2, <2>4 DEF Fresh
  <1>4. CASE ServerRead
    <2>1. /\ stdin # << >> /\ working' = Head(stdin) /\ stdin' = Tail(stdin)
          /\ UNCHANGED <<pc, nextID, notifying, answered>>
      BY <1>4 DEF ServerRead, callVars
    <2>2. ASSUME pc = "write", ~notifying
          PROVE  working' # nextID /\ \A k \in 1..Len(stdin') : stdin'[k] # nextID
      BY <1>t, <2>1, <2>2, Dequeue DEF Fresh
    <2> QED
      BY <2>1, <2>2 DEF Fresh
  <1>5. CASE ServerAnswer
    <2>1. working # 0 /\ answered' = answered \cup {working} /\ working' = 0
      BY <1>5 DEF ServerAnswer
    <2>2. UNCHANGED <<pc, nextID, notifying, stdin>>
      BY <1>5 DEF ServerAnswer, Emit, callVars
    <2>3. nextID # 0
      BY <1>t, <2>1
    <2> QED
      BY <2>1, <2>2, <2>3 DEF Fresh
  <1>6. CASE ServerNoise \/ ServerExit
    BY <1>1, <1>6 DEF ServerNoise, Emit, ServerExit, callVars
  <1>7. CASE StartNotify \/ Write \/ WriteFails
    BY <1>2, <1>7 DEF StartNotify, Write, WriteFails
  <1>8. CASE ContextDone \/ TransportError \/ ChannelClosed \/ ReceiveAnswer
    BY <1>2, <1>8 DEF ContextDone, TransportError, ChannelClosed, ReceiveAnswer, End
  <1>9. CASE ReceiveOther \/ ReadLoop \/ Contexts \/ UNCHANGED vars
    BY <1>1, <1>9 DEF ReceiveOther, ReadLoop, Scan, ScanEnds, Deliver, ReportError, CloseMessages,
       Contexts, Timeout, Cancel, KillOnCancel, vars, callVars, procVars
  <1>10. CASE Close
    BY <1>1, <1>2, <1>10 DEF Close, BeginClose, KillOnClose, Reap, CloseReader, callVars
  <1> QED
    BY <1>3, <1>4, <1>5, <1>6, <1>7, <1>8, <1>9, <1>10 DEF Next, Caller, Await, Server, Closed

(* AnswerInTransit, in terms of Holds. *)
InTransit ==
    pc = "wait" /\ nextID \in answered =>
        \/ Holds(stdout, nextID)
        \/ reader = "send" /\ held.id = nextID
        \/ Holds(messages, nextID)

(* A pending call's request is on its way, being worked on, or its answer  *)
(* is under way (readLoop and call).                                       *)
LEMMA NextTransit == TypeOK /\ Fresh /\ InTransit /\ [Next]_vars => InTransit'
  <1> SUFFICES ASSUME TypeOK, Fresh, InTransit, [Next]_vars, pc' = "wait", nextID' \in answered'
               PROVE  InTransit'
    BY DEF InTransit
  <1>t. /\ nextID \in Nat /\ nextID <= MaxCalls /\ working \in 0..nextID /\ answered \subseteq 1..nextID
        /\ stdout \in Seq(Line) /\ messages \in Seq(Parsed) /\ held \in Parsed
    BY McpBounds DEF TypeOK
  <1>1. ASSUME UNCHANGED <<pc, nextID, answered, stdout, messages, held>>,
               reader = "send" => reader' = "send"
        PROVE  InTransit'
    BY <1>1 DEF InTransit
  <1>2. CASE StartCall \/ StartNotify \/ WriteFails
    BY <1>2 DEF StartCall, StartNotify, WriteFails
  <1>3. CASE Write
    BY <1>3 DEF Write, callVars, Fresh
  <1>4. CASE ContextDone \/ TransportError \/ ChannelClosed \/ ReceiveAnswer
    BY <1>4 DEF ContextDone, TransportError, ChannelClosed, ReceiveAnswer, End
  <1>5. CASE ReceiveOther
    <2>1. /\ messages # << >> /\ messages' = Tail(messages) /\ Head(messages).id # nextID
          /\ UNCHANGED <<pc, nextID, answered, stdout, reader, held>>
      BY <1>5 DEF ReceiveOther, Matches, callVars, procVars
    <2>2. Holds(messages, nextID) => Holds(messages', nextID)
      BY <1>t, <2>1, HoldsTail
    <2> QED
      BY <2>1, <2>2 DEF InTransit
  <1>6. CASE Scan
    <2>1. /\ reader = "scan" /\ stdout # << >> /\ stdout' = Tail(stdout)
          /\ UNCHANGED <<pc, nextID, answered, messages>>
          /\ Head(stdout).kind = "malformed" \/ (reader' = "send" /\ held' = Head(stdout))
      BY <1>6 DEF Scan, callVars
    <2>2. Head(stdout).kind = "malformed" => Head(stdout).id # nextID
      BY <1>t, <2>1, LineIds, Dequeue
    <2>3. Holds(stdout, nextID) => Head(stdout).id = nextID \/ Holds(stdout', nextID)
      BY <1>t, <2>1, HoldsTail
    <2> QED
      BY <2>1, <2>2, <2>3 DEF InTransit
  <1>7. CASE Deliver
    <2>1. /\ reader = "send" /\ messages' = Append(messages, held)
          /\ UNCHANGED <<pc, nextID, answered, stdout>>
      BY <1>7 DEF Deliver, callVars, procVars
    <2>2. Holds(messages, nextID) \/ held.id = nextID => Holds(messages', nextID)
      BY <1>t, <2>1, HoldsAppend
    <2> QED
      BY <2>1, <2>2 DEF InTransit
  <1>8. CASE ScanEnds \/ ReportError \/ CloseMessages
    BY <1>1, <1>8 DEF ScanEnds, ReportError, CloseMessages, callVars, procVars
  <1>9. CASE ServerRead \/ ServerExit
    BY <1>1, <1>9 DEF ServerRead, ServerExit, callVars, readVars
  <1>10. ASSUME NEW line \in Line, Emit(line),
                nextID \in answered \/ line.id = nextID
         PROVE  InTransit'
    <2>1. stdout' = Append(stdout, line) /\ UNCHANGED <<pc, nextID, messages, held, reader>>
      BY <1>10 DEF Emit, callVars, readVars
    <2>2. Holds(stdout, nextID) \/ line.id = nextID => Holds(stdout', nextID)
      BY <1>t, <2>1, HoldsAppend
    <2> QED
      BY <1>10, <2>1, <2>2 DEF InTransit
  <1>11. CASE ServerAnswer
    <2>1. PICK kind \in {"answer", "error"} : Emit([kind |-> kind, id |-> working])
      BY <1>11 DEF ServerAnswer
    <2>2. [kind |-> kind, id |-> working] \in Line
      BY <1>11, <1>t, LineIds, McpBounds DEF ServerAnswer, Call
    <2>3. nextID' = nextID /\ answered' = answered \cup {working}
      BY <1>11, <2>1 DEF ServerAnswer, Emit, callVars
    <2> QED
      BY <1>10, <2>1, <2>2, <2>3
  <1>12. CASE ServerNoise
    <2>1. PICK kind \in {"other", "malformed"} : Emit([kind |-> kind, id |-> 0])
      BY <1>12 DEF ServerNoise
    <2>2. UNCHANGED <<nextID, answered>>
      BY <1>12, <2>1 DEF ServerNoise, Emit, callVars
    <2> QED
      BY <1>10, <2>1, <2>2, LineIds
  <1>13. CASE Contexts \/ UNCHANGED vars
    BY <1>1, <1>13 DEF Contexts, Timeout, Cancel, KillOnCancel, vars, callVars, procVars, readVars
  <1>14. CASE Close
    BY <1>14 DEF Close, BeginClose, KillOnClose, Reap, CloseReader
  <1> QED
    BY <1>2, <1>3, <1>4, <1>5, <1>6, <1>7, <1>8, <1>9, <1>11, <1>12, <1>13, <1>14
       DEF Next, Caller, Await, ReadLoop, Server, Closed

(* No answer is lost on its way to the pending call (call and readLoop):   *)
(* it waits in the pipe, with readLoop, or in the channel.                 *)
THEOREM AnswersReachTheCall == Spec => []AnswerInTransit
  <1>1. Init => Fresh /\ InTransit
    BY DEF Init, Fresh, InTransit
  <1>2. InTransit => AnswerInTransit
    BY DEF InTransit, AnswerInTransit, Holds
  <1> QED
    BY <1>1, <1>2, InitTypes, NextTypes, NextFresh, NextTransit, PTL DEF Spec
-----------------------------------------------------------------------------
(* Every step of the client is a step of RpcCall or changes nothing there. *)
LEMMA StepsAreRpcSteps ==
    TypeOK /\ Origin /\ Control /\ [Next]_vars => [Rpc!Next]_Rpc!vars
  <1> SUFFICES ASSUME TypeOK, Origin, Control, [Next]_vars PROVE [Rpc!Next]_Rpc!vars
    OBVIOUS
  <1>t. nextID \in Nat /\ nextID <= MaxCalls /\ working \in 0..nextID
    BY McpBounds DEF TypeOK
  <1>1. ASSUME UNCHANGED <<nextID, answered, result>> PROVE [Rpc!Next]_Rpc!vars
    BY <1>1 DEF Rpc!vars
  <1>2. CASE StartCall
    <2>1. Rpc!Ask
      BY <1>2, <1>t DEF StartCall, Rpc!Ask, Pending, Rpc!Pending, procVars, Control, Calling
    <2> QED
      BY <2>1 DEF Rpc!Next
  <1>3. ASSUME pc = "wait" \/ (pc = "write" /\ ~notifying), UNCHANGED <<nextID, answered>>,
               result' = [result EXCEPT ![nextID] = Failed]
        PROVE  [Rpc!Next]_Rpc!vars
    <2>1. Rpc!Fail
      BY <1>3 DEF Rpc!Fail, Failed, Rpc!Failed, Control, Calling
    <2> QED
      BY <2>1 DEF Rpc!Next
  <1>4. CASE WriteFails
    BY <1>1, <1>3, <1>4 DEF WriteFails, procVars
  <1>5. CASE ContextDone \/ TransportError \/ ChannelClosed
    BY <1>3, <1>5 DEF ContextDone, TransportError, ChannelClosed, End, procVars
  <1>6. CASE ReceiveAnswer
    <2>1. /\ pc = "wait" /\ Head(messages).id = nextID /\ messages # << >>
          /\ UNCHANGED <<nextID, answered>>
          /\ \/ result' = [result EXCEPT ![nextID] = Failed]
             \/ result' = [result EXCEPT ![nextID] = Returned(nextID)]
      BY <1>6 DEF ReceiveAnswer, Matches, End, procVars
    <2>2. nextID > 0 /\ result[nextID].state = "pending"
      BY <2>1 DEF Control, Calling
    <2>3. messages \in Seq(Parsed) /\ AllAnswered(messages, answered)
      BY DEF TypeOK, Origin
    <2>4. nextID \in answered
      BY <1>t, <2>1, <2>2, <2>3, AnsweredTail
    <2>5. CASE result' = [result EXCEPT ![nextID] = Returned(nextID)]
      <3>1. Rpc!Return
        BY <2>1, <2>2, <2>4, <2>5 DEF Rpc!Return, Returned, Rpc!Returned
      <3> QED
        BY <3>1 DEF Rpc!Next
    <2> QED
      BY <1>3, <2>1, <2>5
  <1>7. CASE ServerAnswer
    <2>1. working \in 1..MaxCalls /\ working <= nextID /\ answered' = answered \cup {working}
      BY <1>7, <1>t, McpBounds DEF ServerAnswer
    <2>2. UNCHANGED <<nextID, result>>
      BY <1>7 DEF ServerAnswer, Emit, callVars
    <2>3. CASE working \in answered
      BY <1>1, <2>1, <2>2, <2>3
    <2>4. CASE working \notin answered
      <3>1. Rpc!Serve(working)
        BY <2>1, <2>2, <2>4 DEF Rpc!Serve
      <3> QED
        BY <2>1, <3>1 DEF Rpc!Next, Rpc!Call
    <2> QED
      BY <2>3, <2>4
  <1>8. CASE StartNotify \/ Write \/ ReceiveOther
    BY <1>1, <1>8 DEF StartNotify, Write, ReceiveOther, callVars, procVars
  <1>9. CASE ReadLoop
    BY <1>1, <1>9 DEF ReadLoop, Scan, ScanEnds, Deliver, ReportError, CloseMessages, callVars, procVars
  <1>10. CASE ServerRead \/ ServerNoise \/ ServerExit
    BY <1>1, <1>10 DEF ServerRead, ServerNoise, ServerExit, Emit, callVars
  <1>11. CASE Contexts \/ Close \/ UNCHANGED vars
    BY <1>1, <1>11 DEF Contexts, Timeout, Cancel, KillOnCancel, Close, BeginClose, KillOnClose, Reap,
       CloseReader, vars, callVars, procVars
  <1> QED
    BY <1>2, <1>4, <1>5, <1>6, <1>7, <1>8, <1>9, <1>10, <1>11
       DEF Next, Caller, Await, Server, Closed

(* The client implements RpcCall: a call that returns, returns the answer  *)
(* the server gave to it (the identifier test in call).                    *)
THEOREM ClientImplementsRpc == Spec => ImplementsRpc
  <1>1. Init => Rpc!Init
    BY DEF Init, Rpc!Init, Call, Rpc!Call
  <1> QED
    BY <1>1, InitTypes, NextTypes, InitOrigin, NextOrigin, InitControl, NextControl,
       StepsAreRpcSteps, PTL DEF Spec, ImplementsRpc, Rpc!Spec
-----------------------------------------------------------------------------
(* coreutils-mcp has not ended while it starts or serves. *)
Alive == server \in {"start", "serve"} => proc = "running"

(* Another program is not replaced, and coreutils-mcp does not become one. *)
Another == server = "other"
LEMMA SameProgram == [SessionNext]_sessionVars => Another' = Another
  <1> SUFFICES ASSUME [SessionNext]_sessionVars PROVE Another' = Another
    OBVIOUS
  <1>1. CASE server # "other" /\ (Client \/ Serve \/ RefuseWorkspace)
    BY <1>1 DEF Another, Client, WriteLine, Kill, ReadLines, EndCall, ReapServer, CloseOutput, Ask,
       Serve, StartServing, ReadLine, CarryOut, Reply, Answer, StopServing, RefuseWorkspace, Exits,
       serverVars
  <1>2. CASE UNCHANGED serverVars
    BY <1>2 DEF Another, serverVars
  <1> QED
    BY <1>1, <1>2 DEF SessionNext, sessionVars

(* Whatever ends the process says so (Kill, Exits). *)
LEMMA NextAlive == Alive /\ [SessionNext]_sessionVars => Alive'
  <1> SUFFICES ASSUME Alive, [SessionNext]_sessionVars PROVE Alive'
    OBVIOUS
  <1>1. ASSUME UNCHANGED <<server, proc>> PROVE Alive'
    BY <1>1 DEF Alive
  <1>2. CASE WriteLine
    BY <1>1, <1>2 DEF WriteLine, Write
  <1>3. CASE ReadLines
    BY <1>1, <1>3 DEF ReadLines, ReadLoop, Scan, ScanEnds, Deliver, ReportError, CloseMessages,
       procVars, serverVars
  <1>4. CASE EndCall
    BY <1>1, <1>4 DEF EndCall, WriteFails, Await, ContextDone, TransportError, ChannelClosed,
       ReceiveAnswer, ReceiveOther, End, procVars, serverVars
  <1>5. CASE Kill
    BY <1>5 DEF Kill, Alive
  <1>6. CASE ReapServer
    BY <1>6 DEF ReapServer, Reap, serverVars, Alive
  <1>7. CASE CloseOutput \/ Ask
    BY <1>1, <1>7 DEF CloseOutput, CloseReader, Ask, StartCall, StartNotify, Timeout, Cancel,
       BeginClose, Closed, vars, procVars, serverVars
  <1>8. CASE StartServing
    BY <1>8 DEF StartServing, vars, procVars, Alive
  <1>9. CASE ReadLine \/ CarryOut \/ Reply \/ UNCHANGED sessionVars
    BY <1>1, <1>9 DEF ReadLine, ServerRead, CarryOut, Reply, Answer, Emit, sessionVars, vars,
       procVars, serverVars
  <1>o. CASE server = "other" /\ UNCHANGED serverVars
    BY <1>o DEF serverVars, Alive
  <1>10. CASE StopServing \/ RefuseWorkspace
    BY <1>10 DEF StopServing, RefuseWorkspace, Exits, Alive
  <1> QED
    BY <1>2, <1>3, <1>4, <1>5, <1>6, <1>7, <1>8, <1>9, <1>10, <1>o DEF SessionNext, Client, Serve

(* The steps of a ToolSession are steps of the client or of a server as    *)
(* McpClient allows it, or change nothing of what is McpClient's.          *)
LEMMA SessionStep == Alive /\ [SessionNext]_sessionVars => [Next]_vars
  <1> SUFFICES ASSUME Alive, [SessionNext]_sessionVars PROVE [Next]_vars
    OBVIOUS
  <1>1. CASE Client
    BY <1>1 DEF Client, WriteLine, Kill, ReadLines, EndCall, ReapServer, CloseOutput, Ask,
       Next, Caller, Contexts, Close
  <1>2. CASE StartServing \/ CarryOut \/ UNCHANGED sessionVars
    BY <1>2 DEF StartServing, CarryOut, sessionVars
  <1>3. CASE ReadLine
    BY <1>3 DEF ReadLine, Next, Server
  <1>4. CASE Reply
    <2>1. ServerAnswer
      BY <1>4 DEF Reply, Answer, ServerAnswer
    <2> QED
      BY <2>1 DEF Next, Server
  <1>5. CASE StopServing \/ RefuseWorkspace
    BY <1>5 DEF Alive, StopServing, RefuseWorkspace, Exits, ServerExit, Next, Server
  <1> QED
    BY <1>1, <1>2, <1>3, <1>4, <1>5 DEF SessionNext, Serve

(* A session is a run of the client, so that what is proved of the client  *)
(* with any server holds of it with this one.                              *)
LEMMA SessionIsClient == SessionSpec => Spec /\ []Alive
  <1>1. SessionInit => Init /\ Alive
    BY DEF SessionInit, Init, Alive
  <1> QED
    BY <1>1, NextAlive, SessionStep, PTL DEF SessionSpec, Spec

(* Together with coreutils-mcp the client still answers each call with     *)
(* what this very call was answered with, also after calls that were given *)
(* up and answered later (call, client.go:141).                            *)
THEOREM SessionImplementsRpc == SessionSpec => ImplementsRpc
  BY SessionIsClient, ClientImplementsRpc, PTL
-----------------------------------------------------------------------------
(* How many lines are under way, and the bound on them: one per call, but  *)
(* for the call that is being written; the notification takes the place of *)
(* the first call's line, whose answer has been read by then.              *)
InServer == IF working # 0 THEN 1 ELSE 0
InReader == IF reader = "send" THEN 1 ELSE 0
Underway == Len(stdin) + InServer + Len(stdout) + InReader + Len(messages)
Greeted == nextID = 1 /\ result[1].state = "returned"
OneLinePerCall ==
    /\ Underway <= nextID
    /\ pc = "write" /\ ~notifying => Underway <= nextID - 1
    /\ pc = "write" /\ notifying => Underway = 0 /\ nextID = 1
    /\ Greeted /\ ~notifying => Underway = 0

(* Nothing is under way in a fresh client (New, client.go:39-49). *)
LEMMA InitOneLine == Init => OneLinePerCall
  <1> SUFFICES ASSUME Init PROVE OneLinePerCall
    OBVIOUS
  <1>1. Len(stdin) = 0 /\ Len(stdout) = 0 /\ Len(messages) = 0
    BY EmptySeq DEF Init
  <1>2. InServer = 0 /\ InReader = 0
    BY DEF Init, InServer, InReader
  <1> QED
    BY <1>1, <1>2 DEF Init, OneLinePerCall, Underway, Greeted

(* Each line is made by one write and answered at most once; the read      *)
(* loop and call only pass lines on or drop them.                          *)
LEMMA NextOneLine ==
    TypeOK /\ Alive /\ Control /\ ~Another /\ OneLinePerCall /\ [SessionNext]_sessionVars
        => OneLinePerCall'
  <1> SUFFICES ASSUME TypeOK, Alive, Control, ~Another, OneLinePerCall, [SessionNext]_sessionVars
               PROVE  OneLinePerCall'
    OBVIOUS
  <1>t. /\ nextID \in Nat /\ notifying \in BOOLEAN
        /\ stdin \in Seq(0..nextID) /\ stdout \in Seq(Line) /\ messages \in Seq(Parsed)
        /\ held \in Parsed /\ working \in 0..nextID
    BY DEF TypeOK
  <1>m. Len(stdin) \in Nat /\ Len(stdout) \in Nat /\ Len(messages) \in Nat
    BY <1>t, LenProperties
  <1>k. InServer \in {0, 1} /\ InReader \in {0, 1} /\ InServer' \in {0, 1} /\ InReader' \in {0, 1}
    BY DEF InServer, InReader
  <1>n. Underway \in Nat
    BY <1>m, <1>k DEF Underway
  <1>1. ASSUME UNCHANGED <<pc, nextID, notifying, result>>,
               Underway' \in Nat, Underway' <= Underway
        PROVE  OneLinePerCall'
    BY <1>n, <1>t, <1>1 DEF OneLinePerCall, Greeted
  <1>2. ASSUME UNCHANGED <<stdin, working, stdout, reader, messages>> PROVE Underway' = Underway
    BY <1>2 DEF Underway, InServer, InReader
  <1>w. ASSUME pc \in {"write", "wait"}, ~notifying PROVE ~Greeted
    BY <1>w DEF Control, Calling, Greeted
  <1>3. CASE WriteLine
    <2>1. /\ pc = "write" /\ pc' \in {"idle", "wait"} /\ UNCHANGED <<nextID, notifying, result>>
          /\ stdin' = Append(stdin, IF notifying THEN 0 ELSE nextID)
          /\ UNCHANGED <<working, stdout, reader, messages>>
      BY <1>3 DEF WriteLine, Write, callVars, readVars
    <2>2. Len(stdin') = Len(stdin) + 1
      BY <1>t, <2>1, AppendProperties
    <2>3. InServer' = InServer /\ InReader' = InReader
      BY <2>1 DEF InServer, InReader
    <2>4. Underway' = Underway + 1
      BY <1>m, <1>k, <2>1, <2>2, <2>3 DEF Underway
    <2>5. ~notifying => ~Greeted
      BY <1>w, <2>1
    <2> QED
      BY <1>n, <1>t, <2>1, <2>4, <2>5 DEF OneLinePerCall, Greeted
  <1>4. CASE ReadLines
    <2>1. UNCHANGED <<pc, nextID, notifying, result, stdin, working>>
      BY <1>4 DEF ReadLines, ReadLoop, Scan, ScanEnds, Deliver, ReportError, CloseMessages,
         callVars, procVars
    <2>2. InServer' = InServer
      BY <2>1 DEF InServer
    <2>3. CASE Scan
      <3>1. stdout # << >> /\ stdout' = Tail(stdout) /\ reader = "scan" /\ UNCHANGED messages
        BY <2>3 DEF Scan
      <3>2. Len(stdout') = Len(stdout) - 1 /\ Len(stdout') \in Nat
        BY <1>t, <3>1, Dequeue, LenProperties
      <3>3. InReader = 0
        BY <3>1 DEF InReader
      <3> QED
        BY <1>1, <1>m, <1>k, <2>1, <2>2, <3>1, <3>2, <3>3 DEF Underway
    <2>4. CASE Deliver
      <3>1. messages' = Append(messages, held) /\ reader = "send" /\ reader' = "scan" /\ UNCHANGED stdout
        BY <2>4 DEF Deliver, procVars
      <3>2. Len(messages') = Len(messages) + 1
        BY <1>t, <3>1, AppendProperties
      <3>3. InReader = 1 /\ InReader' = 0
        BY <3>1 DEF InReader
      <3> QED
        BY <1>1, <1>m, <1>k, <2>1, <2>2, <3>1, <3>2, <3>3 DEF Underway
    <2>5. CASE ScanEnds \/ ReportError \/ CloseMessages
      <3>1. UNCHANGED <<messages, stdout>> /\ InReader' = 0
        BY <2>5 DEF ScanEnds, ReportError, CloseMessages, procVars, InReader
      <3> QED
        BY <1>1, <1>m, <1>k, <2>1, <2>2, <3>1 DEF Underway
    <2> QED
      BY <1>4, <2>3, <2>4, <2>5 DEF ReadLines, ReadLoop
  <1>5. CASE EndCall
    <2>1. UNCHANGED <<stdin, working, stdout, reader, nextID, notifying>>
      BY <1>5 DEF EndCall, WriteFails, Await, ContextDone, TransportError, ChannelClosed,
         ReceiveAnswer, ReceiveOther, End, procVars, readVars, callVars
    <2>2. InServer' = InServer /\ InReader' = InReader
      BY <2>1 DEF InServer, InReader
    <2>3. CASE WriteFails \/ ContextDone \/ TransportError \/ ChannelClosed
      <3>1. /\ pc' = "idle" /\ UNCHANGED messages
            /\ result' = result \/ result' = [result EXCEPT ![nextID] = Failed]
            /\ pc \in {"write", "wait"} /\ (notifying => result' = result)
        BY <2>3 DEF WriteFails, ContextDone, TransportError, ChannelClosed, End, readVars, Control
      <3>2. Underway' = Underway
        BY <1>2, <2>1, <3>1
      <3>3. Greeted' => Greeted
        <4>1. result \in [Call -> Outcome]
          BY DEF TypeOK
        <4> QED
          BY <2>1, <3>1, <4>1 DEF Greeted, Failed
      <3> QED
        BY <2>1, <3>1, <3>2, <3>3 DEF OneLinePerCall
    <2>4. CASE ReceiveAnswer
      <3>1. /\ pc' = "idle" /\ messages # << >> /\ messages' = Tail(messages) /\ pc = "wait"
        BY <2>4 DEF ReceiveAnswer, End
      <3>2. Len(messages') = Len(messages) - 1 /\ Len(messages') \in Nat
        BY <1>t, <3>1, Dequeue, LenProperties
      <3>3. Underway' = Underway - 1 /\ Underway' \in Nat
        BY <1>m, <1>k, <2>1, <2>2, <3>2 DEF Underway
      <3> QED
        BY <1>t, <1>n, <2>1, <3>1, <3>3 DEF OneLinePerCall, Greeted
    <2>5. CASE ReceiveOther
      <3>1. UNCHANGED <<pc, result>> /\ messages # << >> /\ messages' = Tail(messages)
        BY <2>5 DEF ReceiveOther, callVars
      <3>2. Len(messages') = Len(messages) - 1 /\ Len(messages') \in Nat
        BY <1>t, <3>1, Dequeue, LenProperties
      <3> QED
        BY <1>1, <1>m, <1>k, <2>1, <2>2, <3>1, <3>2 DEF Underway
    <2> QED
      BY <1>5, <2>3, <2>4, <2>5 DEF EndCall, Await
  <1>6. CASE Kill \/ ReapServer \/ CloseOutput \/ UNCHANGED sessionVars
    <2>1. /\ UNCHANGED <<nextID, notifying, result, stdin, working, stdout, reader, messages>>
          /\ pc' = pc \/ pc' \notin {"write", "wait"}
      BY <1>6 DEF Kill, KillOnCancel, KillOnClose, ReapServer, Reap, CloseOutput, CloseReader,
         sessionVars, vars, callVars, procVars, readVars
    <2> QED
      BY <1>2, <2>1 DEF OneLinePerCall, Greeted
  <1>7. CASE Ask
    <2>1. UNCHANGED <<stdin, working, stdout, reader, messages>>
      BY <1>7 DEF Ask, StartCall, StartNotify, Timeout, Cancel, BeginClose, Closed, vars,
         procVars, readVars
    <2>2. Underway' = Underway
      BY <1>2, <2>1
    <2>3. CASE StartCall
      <3>1. /\ nextID' = nextID + 1 /\ ~notifying' /\ nextID + 1 <= MaxCalls
            /\ result' = [result EXCEPT ![nextID + 1] = Pending]
        BY <1>t, <2>3, McpBounds DEF StartCall
      <3>2. nextID + 1 \in Call /\ result \in [Call -> Outcome]
        BY <1>t, <3>1, McpBounds DEF TypeOK, Call
      <3>3. ~Greeted'
        BY <1>t, <3>1, <3>2 DEF Greeted, Pending
      <3> QED
        BY <1>t, <1>n, <2>2, <3>1, <3>3 DEF OneLinePerCall
    <2>4. CASE StartNotify
      <3>1. Greeted /\ ~notifying /\ notifying' /\ nextID' = nextID /\ nextID = 1
        BY <2>4 DEF StartNotify, Greeted
      <3> QED
        BY <1>n, <2>2, <3>1 DEF OneLinePerCall
    <2>5. CASE Timeout \/ Cancel \/ BeginClose \/ Closed
      <3>1. UNCHANGED <<nextID, notifying, result>> /\ (pc' = pc \/ pc' \notin {"write", "wait"})
        BY <2>5 DEF Timeout, Cancel, BeginClose, Closed, vars, callVars
      <3> QED
        BY <2>2, <3>1 DEF OneLinePerCall, Greeted
    <2> QED
      BY <1>7, <2>3, <2>4, <2>5 DEF Ask
  <1>8. CASE StartServing \/ CarryOut \/ StopServing \/ RefuseWorkspace
    <2>1. UNCHANGED <<pc, nextID, notifying, result, stdin, working, stdout, reader, messages>>
      BY <1>8 DEF StartServing, CarryOut, StopServing, RefuseWorkspace, Exits, vars, callVars,
         procVars, readVars
    <2> QED
      BY <1>1, <1>2, <1>n, <2>1
  <1>9. CASE ReadLine
    <2>1. /\ UNCHANGED <<pc, nextID, notifying, result, stdout, reader, messages>>
          /\ working = 0 /\ stdin # << >> /\ stdin' = Tail(stdin)
      BY <1>9 DEF ReadLine, ServerRead, callVars, readVars
    <2>2. Len(stdin') = Len(stdin) - 1 /\ Len(stdin') \in Nat
      BY <1>t, <2>1, Dequeue, LenProperties
    <2>3. InServer = 0 /\ InReader' = InReader
      BY <2>1 DEF InServer, InReader
    <2> QED
      BY <1>1, <1>m, <1>k, <2>1, <2>2, <2>3 DEF Underway
  <1>10. CASE Reply
    <2>1. /\ UNCHANGED <<pc, nextID, notifying, result, stdin, reader, messages>>
          /\ working # 0 /\ working' = 0
          /\ stdout' = Append(stdout, [kind |-> "answer", id |-> working])
      BY <1>10 DEF Reply, Answer, Emit, callVars, readVars
    <2>2. [kind |-> "answer", id |-> working] \in Line
      <3>1. working \in Call
        BY <1>t, <2>1, McpBounds DEF TypeOK, Call
      <3> QED
        BY <3>1, LineIds
    <2>3. Len(stdout') = Len(stdout) + 1
      BY <1>t, <2>1, <2>2, AppendProperties
    <2>4. InServer = 1 /\ InServer' = 0 /\ InReader' = InReader
      BY <2>1 DEF InServer, InReader
    <2> QED
      BY <1>1, <1>m, <1>k, <2>1, <2>3, <2>4 DEF Underway
  <1> QED
    BY <1>3, <1>4, <1>5, <1>6, <1>7, <1>8, <1>9, <1>10 DEF SessionNext, Client, Serve, Another

(* However long the channel and the pipes and whichever calls are given    *)
(* up, client, server and read loop never all wait for each other while a  *)
(* call is written (client.go:107, 168; server.go:292): FewCalls calls do  *)
(* not make enough lines.                                                  *)
THEOREM NoCircularWait == SessionSpec => []NotAllWaiting
  <1> DEFINE Own == ~Another => OneLinePerCall
  <1>1. TypeOK /\ Own => NotAllWaiting
    <2> SUFFICES ASSUME TypeOK, Own, ~NotAllWaiting PROVE FALSE
      OBVIOUS
    <2>o. OneLinePerCall
      BY DEF NotAllWaiting, Another
    <2>1. /\ pc = "write" /\ Len(stdin) = PipeCap /\ Len(stdout) = PipeCap
          /\ Len(messages) = ChanCap
      BY DEF NotAllWaiting
    <2>2. InServer = 1 /\ InReader = 1
      BY DEF NotAllWaiting, InServer, InReader
    <2>3. Underway = ChanCap + 2 * PipeCap + 2
      BY <2>1, <2>2, McpBounds DEF Underway
    <2>4. nextID \in Nat /\ nextID <= MaxCalls /\ notifying \in BOOLEAN
      BY McpBounds DEF TypeOK
    <2> QED
      BY <2>o, <2>1, <2>3, <2>4, McpBounds, FewCalls DEF OneLinePerCall
  <1>2. SessionInit => Init
    BY DEF SessionInit
  <1> QED
    <2>1. Init => Own
      BY InitOneLine
    <2>2. TypeOK /\ Alive /\ Control /\ Own /\ [SessionNext]_sessionVars => Own'
      BY NextOneLine, SameProgram
    <2> QED
      BY <1>1, <1>2, <2>1, <2>2, SessionIsClient, TypeCorrect, InitControl, NextControl,
         SessionStep, PTL DEF SessionSpec
-----------------------------------------------------------------------------
(* Serve takes the lines in turn: what was asked for before is carried     *)
(* out, worked on, or ahead in the pipe.                                   *)
Ahead(j, k) == \E m \in 1..k : stdin[m] = j
Taken(j, k) == j \in carried \/ j = working \/ Ahead(j, k)
Writing(j) == pc = "write" /\ ~notifying /\ j = nextID

AllTaken == proc = "running" =>
    \A j \in ToolCalls : j <= nextID /\ ~Writing(j) => Taken(j, Len(stdin))
InTurn == \A k \in 1..Len(stdin) : \A j \in ToolCalls :
    stdin[k] # 0 /\ j < stdin[k] => Taken(j, k - 1)
WorkInTurn == \A j \in ToolCalls : j < working => j \in carried
AnsweredInTurn == \A i \in answered : \A j \in ToolCalls : j <= i => j \in carried
ReturnedIsAnswered == \A i \in Call : result[i].state = "returned" => i \in answered
TurnInv == AllTaken /\ InTurn /\ WorkInTurn /\ AnsweredInTurn /\ ReturnedIsAnswered

(* Nothing has been asked for at the start (New, client.go:39-49). *)
LEMMA InitTurn == SessionInit => TurnInv
  <1> SUFFICES ASSUME SessionInit PROVE TurnInv
    OBVIOUS
  <1>1. Len(stdin) = 0 /\ nextID = 0 /\ answered = {} /\ working = 0
    BY EmptySeq DEF SessionInit, Init
  <1>2. ToolCalls \subseteq Nat \ {0}
    BY McpBounds DEF ToolCalls, Call
  <1>3. \A i \in Call : result[i].state = "none"
    BY DEF SessionInit, Init
  <1> QED
    BY <1>1, <1>2, <1>3 DEF TurnInv, AllTaken, InTurn, WorkInTurn, AnsweredInTurn, ReturnedIsAnswered

(* The pipe is first in, first out, and Serve does one line at a time.     *)
LEMMA NextTurn ==
    ASSUME TypeOK, Origin, Control, Alive, ~Another, TurnInv, [SessionNext]_sessionVars
    PROVE  TurnInv'
  <1>t. /\ nextID \in 0..MaxCalls /\ notifying \in BOOLEAN /\ MaxCalls \in Nat
        /\ stdin \in Seq(0..nextID) /\ messages \in Seq(Parsed)
        /\ working \in 0..nextID /\ answered \subseteq 1..nextID /\ result \in [Call -> Outcome]
    BY McpBounds DEF TypeOK
  <1>l. Len(stdin) \in Nat /\ \A k \in 1..Len(stdin) : stdin[k] \in 0..nextID
    BY <1>t, LenProperties, ElementOfSeq
  <1>c. ToolCalls \subseteq 1..MaxCalls
    BY DEF ToolCalls, Call
  <1> USE DEF TurnInv
  (* Steps that leave the pipe and the server's work alone. *)
  <1>1. ASSUME UNCHANGED <<stdin, working, carried, answered>>,
               proc' = "running" => proc = "running",
               proc' = "running" => nextID' = nextID /\ \A j : Writing(j) => Writing(j)',
               \A i \in Call : result'[i].state = "returned" => result[i].state = "returned"
        PROVE  TurnInv'
    <2>1. AllTaken'
      BY <1>1 DEF AllTaken, Taken, Ahead
    <2>2. InTurn' /\ WorkInTurn' /\ AnsweredInTurn' /\ ReturnedIsAnswered'
      BY <1>1 DEF InTurn, Taken, Ahead, WorkInTurn, AnsweredInTurn, ReturnedIsAnswered
    <2> QED
      BY <2>1, <2>2
  <1>2. CASE WriteLine
    <2> DEFINE line == IF notifying THEN 0 ELSE nextID
    <2>1. /\ pc = "write" /\ pc' # "write" /\ UNCHANGED <<nextID, notifying, result, proc>>
          /\ stdin' = Append(stdin, line)
          /\ UNCHANGED <<working, carried, answered>>
      BY <1>2 DEF WriteLine, Write, callVars
    <2>2. line \in 0..nextID
      BY <1>t
    <2> HIDE DEF line
    <2>3. /\ Len(stdin') = Len(stdin) + 1 /\ stdin'[Len(stdin) + 1] = line
          /\ \A k \in 1..Len(stdin) : stdin'[k] = stdin[k]
      BY <1>t, <2>1, <2>2, AppendProperties
    <2>4. \A k \in 0..Len(stdin) : \A j : Taken(j, k) => Taken(j, k)'
      <3> SUFFICES ASSUME NEW k \in 0..Len(stdin), NEW j, Taken(j, k) PROVE Taken(j, k)'
        OBVIOUS
      <3>1. \A m \in 1..k : m \in 1..Len(stdin)
        BY <1>l
      <3> QED
        BY <2>1, <2>3, <3>1 DEF Taken, Ahead
    <2>5. \A j : Taken(j, Len(stdin)) => Taken(j, Len(stdin))'
      <3> SUFFICES ASSUME NEW j, Taken(j, Len(stdin)) PROVE Taken(j, Len(stdin))'
        OBVIOUS
      <3>1. \A m \in 1..Len(stdin) : m \in 1..Len(stdin')
        BY <1>l, <2>3
      <3> QED
        BY <2>1, <2>3, <3>1 DEF Taken, Ahead
    <2>6. AllTaken'
      <3> SUFFICES ASSUME proc = "running", NEW j \in ToolCalls, j <= nextID
                   PROVE  Taken(j, Len(stdin))'
        BY <2>1 DEF AllTaken
      <3>1. CASE Writing(j)
        <4>1. line = j
          BY <3>1 DEF Writing, line
        <4>2. Len(stdin) + 1 \in 1..Len(stdin')
          BY <1>l, <2>3
        <4> QED
          BY <2>3, <4>1, <4>2 DEF Taken, Ahead
      <3>2. CASE ~Writing(j)
        BY <2>5, <3>2 DEF AllTaken
      <3> QED
        BY <3>1, <3>2
    <2>7. InTurn'
      <3> SUFFICES ASSUME NEW k \in 1..Len(stdin'), NEW j \in ToolCalls, stdin'[k] # 0, j < stdin'[k]
                   PROVE  Taken(j, k - 1)'
        BY DEF InTurn
      <3>1. CASE k \in 1..Len(stdin)
        <4>1. Taken(j, k - 1)
          BY <2>3, <3>1 DEF InTurn
        <4>2. k - 1 \in 0..Len(stdin)
          BY <1>l, <3>1
        <4> QED
          BY <2>4, <4>1, <4>2
      <3>2. CASE k = Len(stdin) + 1
        <4>1. k - 1 = Len(stdin) /\ Len(stdin) \in 0..Len(stdin)
          BY <1>l, <3>2
        <4>2. line = nextID /\ j < nextID /\ proc = "running"
          BY <1>2, <2>3, <3>2 DEF line, WriteLine, Write
        <4>3. Taken(j, Len(stdin))
          BY <1>t, <1>c, <4>2 DEF AllTaken, Writing
        <4> QED
          BY <2>4, <4>1, <4>3
      <3> QED
        BY <1>l, <2>3, <3>1, <3>2
    <2>8. WorkInTurn' /\ AnsweredInTurn' /\ ReturnedIsAnswered'
      BY <2>1 DEF WorkInTurn, AnsweredInTurn, ReturnedIsAnswered
    <2> QED
      BY <2>6, <2>7, <2>8
  <1>3. CASE ReadLine
    <2>1. /\ UNCHANGED <<pc, nextID, notifying, result, proc, carried, answered>>
          /\ working = 0 /\ stdin # << >> /\ stdin' = Tail(stdin) /\ working' = Head(stdin)
      BY <1>3 DEF ReadLine, ServerRead, callVars, serverVars
    <2>2. /\ Head(stdin) = stdin[1] /\ 1 \in 1..Len(stdin) /\ Len(stdin') = Len(stdin) - 1
          /\ \A k \in 1..Len(stdin') : stdin'[k] = stdin[k + 1] /\ k + 1 \in 1..Len(stdin)
      BY <1>t, <2>1, Dequeue
    <2>3. \A j \in ToolCalls : \A k \in 1..Len(stdin) : Taken(j, k) => Taken(j, k - 1)'
      <3> SUFFICES ASSUME NEW j \in ToolCalls, NEW k \in 1..Len(stdin), Taken(j, k)
                   PROVE  Taken(j, k - 1)'
        OBVIOUS
      <3>1. CASE j \in carried
        BY <2>1, <3>1 DEF Taken
      <3>2. CASE Ahead(j, k)
        <4>1. PICK m \in 1..k : stdin[m] = j
          BY <3>2 DEF Ahead
        <4>2. CASE m = 1
          BY <2>1, <2>2, <4>1, <4>2 DEF Taken
        <4>3. CASE m # 1
          <5>1. m - 1 \in 1..(k - 1) /\ m - 1 \in 1..Len(stdin') /\ (m - 1) + 1 = m
            BY <1>l, <2>2, <4>1, <4>3
          <5>2. stdin'[m - 1] = j
            BY <2>2, <4>1, <5>1
          <5> QED
            BY <5>1, <5>2 DEF Taken, Ahead
        <4> QED
          BY <4>2, <4>3
      <3>3. j # working
        BY <1>c, <2>1
      <3> QED
        BY <3>1, <3>2, <3>3 DEF Taken
    <2>4. AllTaken'
      <3>1. Len(stdin) \in 1..Len(stdin) /\ Len(stdin) - 1 = Len(stdin')
        BY <1>l, <2>2
      <3>2. \A j \in ToolCalls : Taken(j, Len(stdin)) => Taken(j, Len(stdin))'
        BY <2>3, <3>1
      <3>3. \A j : Writing(j)' <=> Writing(j)
        BY <2>1 DEF Writing
      <3> QED
        BY <2>1, <3>2, <3>3 DEF AllTaken
    <2>5. InTurn'
      <3> SUFFICES ASSUME NEW k \in 1..Len(stdin'), NEW j \in ToolCalls, stdin'[k] # 0, j < stdin'[k]
                   PROVE  Taken(j, k - 1)'
        BY DEF InTurn
      <3>1. k + 1 \in 1..Len(stdin) /\ (k + 1) - 1 = k /\ k \in 1..Len(stdin)
        BY <1>l, <2>2
      <3>2. Taken(j, k)
        BY <2>2, <3>1 DEF InTurn
      <3> QED
        BY <2>3, <3>1, <3>2
    <2>6. WorkInTurn'
      <3> SUFFICES ASSUME NEW j \in ToolCalls, j < stdin[1] PROVE j \in carried
        BY <2>1, <2>2 DEF WorkInTurn
      <3>1. stdin[1] # 0
        BY <1>c
      <3>2. Taken(j, 1 - 1)
        BY <2>2, <3>1 DEF InTurn
      <3>3. ~Ahead(j, 1 - 1) /\ j # working
        BY <1>c, <2>1 DEF Ahead
      <3> QED
        BY <3>2, <3>3 DEF Taken
    <2>7. AnsweredInTurn' /\ ReturnedIsAnswered'
      BY <2>1 DEF AnsweredInTurn, ReturnedIsAnswered
    <2> QED
      BY <2>4, <2>5, <2>6, <2>7
  <1>4. CASE CarryOut
    <2>1. /\ UNCHANGED <<pc, nextID, notifying, result, proc, stdin, working, answered>>
          /\ carried \subseteq carried'
      BY <1>4 DEF CarryOut, vars, callVars, procVars
    <2>2. \A j, k : Taken(j, k) => Taken(j, k)'
      BY <2>1 DEF Taken, Ahead
    <2>3. \A j : Writing(j)' <=> Writing(j)
      BY <2>1 DEF Writing
    <2>4. AllTaken' /\ InTurn'
      BY <2>1, <2>2, <2>3 DEF AllTaken, InTurn
    <2> QED
      BY <2>1, <2>4 DEF WorkInTurn, AnsweredInTurn, ReturnedIsAnswered
  <1>5. CASE Reply
    <2>1. /\ UNCHANGED <<pc, nextID, notifying, result, proc, stdin, carried>>
          /\ working # 0 /\ working \notin ToolCalls \ carried
          /\ working' = 0 /\ answered' = answered \cup {working}
      BY <1>5 DEF Reply, Answer, Emit, callVars, serverVars
    <2>2. \A j \in ToolCalls : \A k : Taken(j, k) => Taken(j, k)'
      BY <2>1 DEF Taken, Ahead
    <2>3. \A j : Writing(j)' <=> Writing(j)
      BY <2>1 DEF Writing
    <2>4. AllTaken' /\ InTurn'
      BY <2>1, <2>2, <2>3 DEF AllTaken, InTurn
    <2>5. AnsweredInTurn'
      <3> SUFFICES ASSUME NEW j \in ToolCalls, j <= working PROVE j \in carried
        BY <2>1 DEF AnsweredInTurn
      <3> QED
        BY <1>t, <1>c, <2>1 DEF WorkInTurn
    <2>6. WorkInTurn'
      BY <1>c, <2>1 DEF WorkInTurn
    <2> QED
      BY <2>1, <2>4, <2>5, <2>6 DEF ReturnedIsAnswered
  <1>6. CASE EndCall
    <2>1. UNCHANGED <<stdin, working, carried, answered, nextID, notifying, proc>>
      BY <1>6 DEF EndCall, WriteFails, Await, ContextDone, TransportError, ChannelClosed,
         ReceiveAnswer, ReceiveOther, End, procVars, callVars, serverVars
    <2>2. CASE WriteFails
      <3>1. proc # "running" /\ (result' = result \/ result' = [result EXCEPT ![nextID] = Failed])
        BY <2>2 DEF WriteFails
      <3>2. \A i \in Call : result'[i].state = "returned" => result[i].state = "returned"
        BY <1>t, <3>1 DEF Failed
      <3> QED
        BY <1>1, <2>1, <3>1, <3>2
    <2>3. CASE ContextDone \/ TransportError \/ ChannelClosed
      <3>1. pc = "wait" /\ result' = [result EXCEPT ![nextID] = Failed]
        BY <2>3 DEF ContextDone, TransportError, ChannelClosed, End
      <3>2. \A i \in Call : result'[i].state = "returned" => result[i].state = "returned"
        BY <1>t, <3>1 DEF Failed
      <3>3. \A j : ~Writing(j)
        BY <3>1 DEF Writing
      <3> QED
        BY <1>1, <2>1, <3>2, <3>3
    <2>4. CASE ReceiveAnswer
      <3>1. /\ pc = "wait" /\ pc' = "idle" /\ messages # << >> /\ Head(messages).id = nextID
            /\ \A i \in Call : i # nextID => result'[i] = result[i]
        BY <1>t, <2>4 DEF ReceiveAnswer, End, Matches
      <3>2. nextID \in answered
        BY <1>t, <3>1, AnsweredTail DEF Origin, Control, Calling
      <3>3. ReturnedIsAnswered'
        BY <2>1, <3>1, <3>2 DEF ReturnedIsAnswered
      <3>4. \A j : ~Writing(j)
        BY <3>1 DEF Writing
      <3>5. AllTaken' /\ InTurn'
        BY <2>1, <3>4 DEF AllTaken, InTurn, Taken, Ahead
      <3> QED
        BY <2>1, <3>3, <3>5 DEF WorkInTurn, AnsweredInTurn
    <2>5. CASE ReceiveOther
      BY <1>1, <2>1, <2>5 DEF ReceiveOther, callVars, Writing
    <2> QED
      BY <1>6, <2>2, <2>3, <2>4, <2>5 DEF EndCall, Await
  <1>7. CASE Ask
    <2>1. UNCHANGED <<stdin, working, carried, answered, proc>>
      BY <1>7 DEF Ask, StartCall, StartNotify, Timeout, Cancel, BeginClose, Closed, vars,
         procVars, serverVars
    <2>2. CASE StartCall
      <3>1. /\ nextID' = nextID + 1 /\ pc = "idle" /\ pc' = "write" /\ ~notifying'
            /\ result' = [result EXCEPT ![nextID + 1] = Pending]
        BY <2>2 DEF StartCall
      <3>2. AllTaken'
        <4> SUFFICES ASSUME proc = "running", NEW j \in ToolCalls, j <= nextID + 1, j # nextID + 1
                     PROVE  Taken(j, Len(stdin))
          BY <2>1, <3>1 DEF AllTaken, Taken, Ahead, Writing
        <4>1. j <= nextID
          BY <1>t, <1>c
        <4> QED
          BY <3>1, <4>1 DEF AllTaken, Writing
      <3>3. \A i \in Call : result'[i].state = "returned" => result[i].state = "returned"
        BY <1>t, <3>1 DEF Pending
      <3> QED
        BY <2>1, <3>2, <3>3 DEF InTurn, Taken, Ahead, WorkInTurn, AnsweredInTurn, ReturnedIsAnswered
    <2>3. CASE StartNotify \/ Timeout \/ Cancel \/ BeginClose \/ Closed
      <3>1. /\ UNCHANGED <<nextID, result>>
            /\ \A j : Writing(j) => Writing(j)'
        BY <2>3 DEF StartNotify, Timeout, Cancel, BeginClose, Closed, vars, callVars, Writing
      <3> QED
        BY <1>1, <2>1, <3>1
    <2> QED
      BY <1>7, <2>2, <2>3 DEF Ask
  <1>8. CASE Kill \/ ReapServer \/ CloseOutput \/ StopServing \/ RefuseWorkspace
    <2>1. UNCHANGED <<stdin, working, carried, answered, nextID, notifying, result>>
      BY <1>8 DEF Kill, KillOnCancel, KillOnClose, ReapServer, Reap, CloseOutput, CloseReader,
         StopServing, RefuseWorkspace, Exits, vars, callVars, procVars, serverVars
    <2>2. /\ proc' = "running" => proc = "running"
          /\ proc' = "running" => \A j : ~Writing(j)
      BY <1>8 DEF Kill, KillOnCancel, KillOnClose, ReapServer, Reap, CloseOutput, CloseReader,
         StopServing, RefuseWorkspace, Exits, Writing
    <2> QED
      BY <1>1, <2>1, <2>2
  <1>9. CASE ReadLines \/ StartServing \/ UNCHANGED sessionVars
    <2>1. UNCHANGED <<pc, stdin, working, carried, answered, nextID, notifying, result, proc>>
      BY <1>9 DEF ReadLines, ReadLoop, Scan, ScanEnds, Deliver, ReportError, CloseMessages,
         StartServing, sessionVars, vars, callVars, procVars, serverVars
    <2>2. \A j : Writing(j) => Writing(j)'
      BY <2>1 DEF Writing
    <2> QED
      BY <1>1, <2>1, <2>2
  <1> QED
    BY <1>2, <1>3, <1>4, <1>5, <1>6, <1>7, <1>8, <1>9 DEF SessionNext, Client, Serve, Another

(* What the agent is told has happened is no longer disturbed by an        *)
(* earlier call, whichever contexts ended and whenever the child was       *)
(* killed (Serve, server.go:123-137; call, client.go:141).                 *)
THEOREM AnswersCloseThePast == SessionSpec => []NoStraggler
  <1> DEFINE Own == ~Another => TurnInv
  <1>1. Own => NoStraggler
    BY DEF Another, TurnInv, ReturnedIsAnswered, AnsweredInTurn, NoStraggler
  <1>2. SessionInit => Init
    BY DEF SessionInit
  <1> QED
    <2>1. SessionInit => Own
      BY InitTurn
    <2>2. TypeOK /\ Origin /\ Control /\ Alive /\ Own /\ [SessionNext]_sessionVars => Own'
      BY NextTurn, SameProgram
    <2> QED
      BY <1>1, <1>2, <2>1, <2>2, SessionIsClient, TypeCorrect, InitControl, NextControl, InitOrigin,
         NextOrigin, SessionStep, PTL DEF SessionSpec
-----------------------------------------------------------------------------
(* Close has reaped the child when it goes on (client.go:75-89). *)
ReapedIsGone == Reaped => proc = "reaped"

(* A process that was reaped stays so. *)
LEMMA NextReaped == Alive /\ ReapedIsGone /\ [SessionNext]_sessionVars => ReapedIsGone'
  <1> SUFFICES ASSUME Alive, ReapedIsGone, [SessionNext]_sessionVars PROVE ReapedIsGone'
    OBVIOUS
  <1>1. CASE WriteLine \/ Ask
    BY <1>1 DEF WriteLine, Write, Ask, StartCall, StartNotify, Timeout, Cancel, BeginClose, Closed,
       vars, procVars, ReapedIsGone, Reaped
  <1>2. CASE Kill
    BY <1>2 DEF Kill, KillOnCancel, KillOnClose, ReapedIsGone, Reaped
  <1>3. CASE ReadLines
    BY <1>3 DEF ReadLines, ReadLoop, Scan, ScanEnds, Deliver, ReportError, CloseMessages, procVars,
       ReapedIsGone, Reaped
  <1>4. CASE EndCall
    BY <1>4 DEF EndCall, WriteFails, Await, ContextDone, TransportError, ChannelClosed, ReceiveAnswer,
       ReceiveOther, End, procVars, ReapedIsGone, Reaped
  <1>5. CASE ReapServer \/ CloseOutput
    BY <1>5 DEF ReapServer, Reap, CloseOutput, CloseReader, ReapedIsGone, Reaped
  <1>6. CASE Serve \/ RefuseWorkspace
    BY <1>6 DEF Serve, RefuseWorkspace, StartServing, ReadLine, ServerRead, CarryOut, Reply, Answer,
       Emit, StopServing, Exits, vars, procVars, Alive, ReapedIsGone, Reaped
  <1>7. CASE UNCHANGED sessionVars
    BY <1>7 DEF sessionVars, vars, procVars, ReapedIsGone, Reaped
  <1>8. CASE Next /\ UNCHANGED serverVars
    <2>1. CASE Caller \/ ReadLoop
      BY <2>1 DEF Caller, StartCall, StartNotify, Write, WriteFails, Await, ContextDone, TransportError,
         ChannelClosed, ReceiveAnswer, ReceiveOther, End, ReadLoop, Scan, ScanEnds, Deliver,
         ReportError, CloseMessages, procVars, ReapedIsGone, Reaped
    <2>2. CASE Server
      BY <2>2 DEF Server, ServerRead, ServerAnswer, ServerNoise, ServerExit, Emit, ReapedIsGone, Reaped
    <2>3. CASE Contexts \/ Close \/ Closed
      BY <2>3 DEF Contexts, Timeout, Cancel, KillOnCancel, Close, BeginClose, KillOnClose, Reap,
         CloseReader, Closed, vars, procVars, ReapedIsGone, Reaped
    <2> QED
      BY <1>8, <2>1, <2>2, <2>3 DEF Next
  <1> QED
    BY <1>1, <1>2, <1>3, <1>4, <1>5, <1>6, <1>7, <1>8 DEF SessionNext, Client

(* A tool whose call was given up takes no effect once Close has returned  *)
(* (client.go:246-256): Close ends the process and waits for it.           *)
THEOREM CloseEndsEffects == SessionSpec => NothingAfterClose
  <1>1. SessionInit => ReapedIsGone
    BY DEF SessionInit, Init, ReapedIsGone, Reaped
  <1>2. ASSUME Alive, ReapedIsGone, [SessionNext]_sessionVars, Reaped
        PROVE  UNCHANGED <<carried, answered>>
    <2>1. proc = "reaped" /\ server \notin {"start", "serve"}
      BY <1>2 DEF ReapedIsGone, Alive
    <2>2. CASE Next /\ UNCHANGED serverVars
      BY <2>1, <2>2 DEF Next, Caller, StartCall, StartNotify, Write, WriteFails, Await, ContextDone,
         TransportError, ChannelClosed, ReceiveAnswer, ReceiveOther, End, ReadLoop, Scan, ScanEnds,
         Deliver, ReportError, CloseMessages, Server, ServerRead, ServerAnswer, ServerNoise,
         ServerExit, Emit, Contexts, Timeout, Cancel, KillOnCancel, Close, BeginClose, KillOnClose,
         Reap, CloseReader, Closed, vars, procVars, serverVars
    <2> QED
      BY <1>2, <2>1, <2>2 DEF Reaped, SessionNext, Client, WriteLine, Write, Kill, KillOnCancel, KillOnClose,
         ReadLines, ReadLoop, Scan, ScanEnds, Deliver, ReportError, CloseMessages, EndCall, WriteFails,
         Await, ContextDone, TransportError, ChannelClosed, ReceiveAnswer, ReceiveOther, End, ReapServer,
         Reap, CloseOutput, CloseReader, Ask, StartCall, StartNotify, Timeout, Cancel, BeginClose,
         Closed, Serve, RefuseWorkspace, StartServing, ReadLine, CarryOut, Reply, StopServing,
         sessionVars, vars, procVars, serverVars
  <1> QED
    BY <1>1, <1>2, NextReaped, SessionIsClient, PTL DEF SessionSpec, NothingAfterClose
-----------------------------------------------------------------------------
(* The notification stands between the first call and the second, and the  *)
(* input is open while calls are made (Initialize, client.go:91-99; Close).*)
InputInv ==
    /\ notifying => nextID = 1
    /\ pc \in {"idle", "write", "wait"} => stdinOpen

LEMMA NextInput == TypeOK /\ InputInv /\ [Next]_vars => InputInv'
  <1> SUFFICES ASSUME TypeOK, InputInv, [Next]_vars PROVE InputInv'
    OBVIOUS
  <1> USE DEF InputInv
  <1>1. CASE StartCall \/ StartNotify
    BY <1>1 DEF StartCall, StartNotify, procVars, ctxVars
  <1>2. CASE Write \/ WriteFails
    BY <1>2 DEF Write, WriteFails, callVars, procVars
  <1>3. CASE Await
    BY <1>3 DEF Await, ContextDone, TransportError, ChannelClosed, ReceiveAnswer, ReceiveOther, End,
       callVars, procVars
  <1>4. CASE ReadLoop
    BY <1>4 DEF ReadLoop, Scan, ScanEnds, Deliver, ReportError, CloseMessages, callVars, procVars
  <1>5. CASE Server
    BY <1>5 DEF Server, ServerRead, ServerAnswer, ServerNoise, ServerExit, Emit, callVars
  <1>6. CASE Contexts \/ Close
    BY <1>6 DEF Contexts, Timeout, Cancel, KillOnCancel, Close, BeginClose, KillOnClose, Reap,
       CloseReader, callVars, procVars
  <1>7. CASE UNCHANGED vars
    BY <1>7 DEF vars, callVars, procVars
  <1> QED
    BY <1>1, <1>2, <1>3, <1>4, <1>5, <1>6, <1>7 DEF Next, Caller, Closed

(* The lines of the server's input.  Each call is written at most once and *)
(* the notification too; what is in the pipe is what was written last, and *)
(* what the server works on is the line it has taken last.                 *)
NewLine == IF notifying THEN 0 ELSE nextID
WrittenOnce ==
    /\ written \in Seq(0..nextID)
    /\ \A k, l \in 1..Len(written) : written[k] = written[l] => k = l
    /\ Sent(0) => nextID > 1 \/ notifying
    /\ pc = "write" => nextID > 0 /\ ~Sent(NewLine)
Processed == Len(written) - Len(stdin)
LastWritten ==
    /\ Len(stdin) <= Len(written)
    /\ \A k \in 1..Len(stdin) : stdin[k] = written[Processed + k]
    /\ working # 0 => Processed > 0 /\ written[Processed] = working
LinesInv ==
    /\ WrittenOnce /\ LastWritten
    /\ proc = "running" => server \in {"start", "serve"}

(* Nothing is written before the first call (New, client.go:39-49). *)
LEMMA InitLines == SessionInit => LinesInv \/ Another
  <1> SUFFICES ASSUME SessionInit, ~Another PROVE LinesInv
    OBVIOUS
  <1>1. Len(stdin) = 0 /\ Len(written) = 0 /\ nextID = 0 /\ working = 0 /\ written = << >>
        /\ pc = "idle" /\ server = "start"
    BY EmptySeq DEF SessionInit, Init, Another
  <1>2. written \in Seq(0..nextID)
    BY <1>1
  <1>3. WrittenOnce
    BY <1>1, <1>2 DEF WrittenOnce, Sent
  <1>4. LastWritten
    BY <1>1 DEF LastWritten
  <1> QED
    BY <1>1, <1>3, <1>4 DEF LinesInv

(* A line that is written is new, as the numbers of the calls only grow    *)
(* and there is one notification; and the server takes the lines in order  *)
(* (call, notify; server.go:123-137).                                      *)
LEMMA NextLines ==
    ASSUME TypeOK, InputInv, LinesInv, Alive, ~Another, [SessionNext]_sessionVars
    PROVE  LinesInv'
  <1>t. /\ nextID \in 0..MaxCalls /\ notifying \in BOOLEAN /\ MaxCalls \in Nat
        /\ written \in Seq(0..nextID) /\ stdin \in Seq(0..nextID) /\ working \in 0..nextID
    BY McpBounds DEF TypeOK, LinesInv, WrittenOnce
  <1>l. /\ Len(written) \in Nat /\ \A k \in 1..Len(written) : written[k] \in 0..nextID
        /\ Len(stdin) \in Nat /\ Processed \in Nat
    BY <1>t, LenProperties, ElementOfSeq DEF LinesInv, LastWritten, Processed
  <1>u. ASSUME UNCHANGED <<written, stdin, working>> PROVE LastWritten'
    BY <1>u DEF LinesInv, LastWritten, Processed
  <1>w. ASSUME UNCHANGED <<written, nextID, notifying>>, pc' # "write" \/ pc' = pc PROVE WrittenOnce'
    BY <1>w DEF LinesInv, WrittenOnce, Sent, NewLine
  <1>v. ASSUME UNCHANGED <<server, proc>> PROVE (proc = "running" => server \in {"start", "serve"})'
    BY <1>v DEF LinesInv
  <1>1. CASE WriteLine
    <2>1. /\ pc = "write" /\ pc' # "write" /\ UNCHANGED <<nextID, notifying, proc, server, working>>
          /\ stdin' = Append(stdin, NewLine) /\ written' = Append(written, NewLine)
      BY <1>1 DEF WriteLine, Write, callVars, NewLine
    <2>2. NewLine \in 0..nextID /\ ~Sent(NewLine)
      BY <1>t, <2>1 DEF NewLine, LinesInv, WrittenOnce
    <2>3. /\ Len(stdin') = Len(stdin) + 1 /\ stdin'[Len(stdin) + 1] = NewLine
          /\ \A k \in 1..Len(stdin) : stdin'[k] = stdin[k]
      BY <1>t, <2>1, <2>2, AppendProperties
    <2>4. /\ written' \in Seq(0..nextID)
          /\ Len(written') = Len(written) + 1 /\ written'[Len(written) + 1] = NewLine
          /\ \A k \in 1..Len(written) : written'[k] = written[k]
      BY <1>t, <2>1, <2>2, AppendProperties
    <2>5. ASSUME NEW k \in 1..Len(written'), NEW m \in 1..Len(written'), written'[k] = written'[m]
          PROVE  k = m
      <3>1. \A i \in 1..Len(written) : written[i] # NewLine
        BY <2>2 DEF Sent
      <3>2. k \in 1..Len(written) \/ k = Len(written) + 1
        BY <1>l, <2>4
      <3>3. m \in 1..Len(written) \/ m = Len(written) + 1
        BY <1>l, <2>4
      <3> QED
        BY <2>4, <2>5, <3>1, <3>2, <3>3 DEF LinesInv, WrittenOnce
    <2>6. Sent(0)' => nextID > 1 \/ notifying
      <3> SUFFICES ASSUME Sent(0)', ~notifying PROVE nextID > 1
        OBVIOUS
      <3>1. PICK k \in 1..Len(written') : written'[k] = 0
        BY DEF Sent
      <3>2. CASE k \in 1..Len(written)
        BY <2>4, <3>1, <3>2 DEF Sent, LinesInv, WrittenOnce
      <3>3. CASE k = Len(written) + 1
        <4>1. nextID = 0
          BY <2>4, <3>1, <3>3 DEF NewLine
        <4> QED
          BY <2>1, <4>1 DEF LinesInv, WrittenOnce
      <3> QED
        BY <1>l, <2>4, <3>2, <3>3
    <2>7. WrittenOnce'
      BY <2>1, <2>4, <2>5, <2>6 DEF WrittenOnce
    <2>8. Processed' = Processed
      BY <1>l, <2>3, <2>4 DEF Processed
    <2>9. LastWritten'
      <3>1. Len(stdin') <= Len(written')
        BY <1>l, <2>3, <2>4 DEF LinesInv, LastWritten
      <3>2. ASSUME NEW k \in 1..Len(stdin') PROVE stdin'[k] = written'[Processed + k]
        <4>1. CASE k \in 1..Len(stdin)
          <5>1. Processed + k \in 1..Len(written)
            BY <1>l, <4>1 DEF Processed
          <5> QED
            BY <2>3, <2>4, <4>1, <5>1 DEF LinesInv, LastWritten
        <4>2. CASE k = Len(stdin) + 1
          <5>1. Processed + k = Len(written) + 1
            BY <1>l, <4>2 DEF Processed
          <5> QED
            BY <2>3, <2>4, <4>2, <5>1
        <4> QED
          BY <1>l, <2>3, <4>1, <4>2
      <3>3. ASSUME working # 0 PROVE Processed > 0 /\ written'[Processed] = working
        <4>1. Processed > 0 /\ written[Processed] = working
          BY <3>3 DEF LinesInv, LastWritten
        <4>2. Processed \in 1..Len(written)
          BY <1>l, <4>1 DEF Processed
        <4> QED
          BY <2>4, <4>1, <4>2
      <3> QED
        BY <2>1, <2>8, <3>1, <3>2, <3>3 DEF LastWritten
    <2> QED
      BY <1>v, <2>1, <2>7, <2>9 DEF LinesInv
  <1>2. CASE StartCall /\ UNCHANGED serverVars
    <2>1. /\ nextID' = nextID + 1 /\ notifying' = FALSE
          /\ UNCHANGED <<written, stdin, working, server, proc>>
      BY <1>2 DEF StartCall, procVars, serverVars
    <2>2. written' \in Seq(0..nextID')
      <3>1. 0..nextID \subseteq 0..nextID'
        BY <1>t, <2>1
      <3> QED
        BY <1>t, <2>1, <3>1, SeqMonotonic
    <2>3. Sent(0)' => nextID' > 1
      <3>1. Sent(0) => nextID >= 1
        BY <1>t DEF LinesInv, WrittenOnce, InputInv
      <3> QED
        BY <1>t, <2>1, <3>1 DEF Sent
    <2>4. ~Sent(NewLine)'
      BY <1>t, <1>l, <2>1 DEF NewLine, Sent
    <2>5. WrittenOnce'
      <3>1. nextID' > 0
        BY <1>t, <2>1
      <3>2. \A k, l \in 1..Len(written') : written'[k] = written'[l] => k = l
        BY <2>1 DEF WrittenOnce, LinesInv
      <3> QED
        BY <2>2, <2>3, <2>4, <3>1, <3>2 DEF WrittenOnce
    <2> QED
      BY <1>u, <1>v, <2>1, <2>5 DEF LinesInv
  <1>3. CASE StartNotify /\ UNCHANGED serverVars
    <2>1. /\ nextID' = nextID /\ nextID = 1 /\ ~notifying /\ notifying' = TRUE
          /\ UNCHANGED <<written, stdin, working, server, proc>>
      BY <1>3 DEF StartNotify, procVars, serverVars
    <2>2. ~Sent(0)
      BY <2>1 DEF LinesInv, WrittenOnce
    <2>3. WrittenOnce'
      BY <2>1, <2>2 DEF WrittenOnce, LinesInv, NewLine, Sent
    <2> QED
      BY <1>u, <1>v, <2>1, <2>3 DEF LinesInv
  <1>4. CASE ReadLine
    <2>1. /\ working = 0 /\ stdin # << >> /\ working' = Head(stdin) /\ stdin' = Tail(stdin)
          /\ UNCHANGED <<written, nextID, notifying, pc, server, proc>>
      BY <1>4 DEF ReadLine, ServerRead, callVars, serverVars
    <2>2. /\ Head(stdin) = stdin[1] /\ 1 \in 1..Len(stdin) /\ Len(stdin') = Len(stdin) - 1
          /\ \A k \in 1..Len(stdin') : stdin'[k] = stdin[k + 1] /\ k + 1 \in 1..Len(stdin)
      BY <1>t, <2>1, Dequeue
    <2>3. Processed' = Processed + 1
      BY <1>l, <2>1, <2>2 DEF Processed
    <2>4. written[Processed + 1] = working'
      BY <2>1, <2>2 DEF LinesInv, LastWritten
    <2>5. ASSUME NEW k \in 1..Len(stdin') PROVE stdin'[k] = written[(Processed + 1) + k]
      <3>1. Processed + (k + 1) = (Processed + 1) + k
        BY <1>l
      <3>2. stdin'[k] = stdin[k + 1] /\ stdin[k + 1] = written[Processed + (k + 1)]
        BY <2>2 DEF LinesInv, LastWritten
      <3> QED
        BY <3>1, <3>2
    <2>6. LastWritten'
      <3>1. Len(stdin') <= Len(written) /\ Processed + 1 > 0
        BY <1>l, <2>2 DEF LinesInv, LastWritten
      <3> QED
        BY <2>1, <2>3, <2>4, <2>5, <3>1 DEF LastWritten
    <2> QED
      BY <1>v, <1>w, <2>1, <2>6 DEF LinesInv
  <1>5. CASE Reply
    <2>1. /\ UNCHANGED <<written, stdin, nextID, notifying, pc, server, proc>> /\ working' = 0
      BY <1>5 DEF Reply, Answer, Emit, callVars
    <2>2. LastWritten'
      BY <2>1 DEF LinesInv, LastWritten, Processed
    <2> QED
      BY <1>v, <1>w, <2>1, <2>2 DEF LinesInv
  <1>6. CASE Kill \/ StopServing \/ RefuseWorkspace \/ StartServing
    <2>1. /\ UNCHANGED <<written, stdin, working, nextID, notifying, pc>>
          /\ (proc = "running" => server \in {"start", "serve"})'
      BY <1>6 DEF Kill, KillOnCancel, KillOnClose, StopServing, RefuseWorkspace, Exits, StartServing,
         vars, callVars, procVars
    <2> QED
      BY <1>u, <1>w, <2>1 DEF LinesInv
  <1>7. CASE ReadLines \/ EndCall \/ CarryOut \/ UNCHANGED sessionVars
    <2>1. /\ UNCHANGED <<written, stdin, working, nextID, notifying, server, proc>>
          /\ pc' # "write" \/ pc' = pc
      BY <1>7 DEF ReadLines, ReadLoop, Scan, ScanEnds, Deliver, ReportError, CloseMessages, EndCall,
         WriteFails, Await, ContextDone, TransportError, ChannelClosed, ReceiveAnswer, ReceiveOther, End,
         CarryOut, sessionVars, serverVars, vars, callVars, procVars
    <2> QED
      BY <1>u, <1>v, <1>w, <2>1 DEF LinesInv
  <1>8. CASE (Timeout \/ Cancel \/ BeginClose \/ Closed) /\ UNCHANGED serverVars
    <2>1. /\ UNCHANGED <<written, stdin, working, nextID, notifying, server, proc>>
          /\ pc' # "write" \/ pc' = pc
      BY <1>8 DEF Timeout, Cancel, BeginClose, Closed, serverVars, vars, callVars, procVars
    <2> QED
      BY <1>u, <1>v, <1>w, <2>1 DEF LinesInv
  <1>9. CASE ReapServer \/ CloseOutput
    <2>1. /\ UNCHANGED <<written, stdin, working, nextID, notifying, server>>
          /\ pc' # "write" /\ (proc' = "reaped" \/ proc' = proc)
      BY <1>9 DEF ReapServer, Reap, CloseOutput, CloseReader, serverVars, callVars
    <2> QED
      BY <1>u, <1>w, <2>1 DEF LinesInv
  <1> QED
    BY <1>1, <1>2, <1>3, <1>4, <1>5, <1>6, <1>7, <1>8, <1>9
       DEF SessionNext, Client, Serve, Ask, Another

-----------------------------------------------------------------------------
(* What the mapping makes of the lines: those that are not in the pipe and *)
(* not worked on are done with.                                            *)
LEMMA ProgressCases ==
    ASSUME TypeOK, LinesInv, NEW k \in 1..Len(written)
    PROVE  /\ written[k] \in Lines /\ Sent(written[k])
           /\ Waiting(written[k]) <=> k > Processed
           /\ working # 0 => (working = written[k] <=> k = Processed)
           /\ Len(written) \in Nat /\ Len(stdin) \in Nat /\ Processed \in Nat
  <1>t. /\ nextID \in 0..MaxCalls /\ MaxCalls \in Nat
        /\ written \in Seq(0..nextID) /\ stdin \in Seq(0..nextID)
    BY McpBounds DEF TypeOK, LinesInv, WrittenOnce
  <1>l. /\ Len(written) \in Nat /\ Len(stdin) \in Nat /\ Processed \in Nat
        /\ Len(stdin) <= Len(written) /\ Len(stdin) = Len(written) - Processed
    BY <1>t, LenProperties DEF LinesInv, LastWritten, Processed
  <1>1. written[k] \in Lines /\ Sent(written[k])
    <2>1. written[k] \in 0..nextID
      BY <1>t, ElementOfSeq
    <2> QED
      BY <1>t, <2>1 DEF Lines, Sent
  <1>2. ASSUME Waiting(written[k]) PROVE k > Processed
    <2>1. PICK m \in 1..Len(stdin) : stdin[m] = written[k]
      BY <1>2 DEF Waiting
    <2>2. Processed + m \in 1..Len(written) /\ Processed + m > Processed
      BY <1>l
    <2>3. written[Processed + m] = written[k]
      BY <2>1 DEF LinesInv, LastWritten
    <2> QED
      BY <2>2, <2>3 DEF LinesInv, WrittenOnce
  <1>3. ASSUME k > Processed PROVE Waiting(written[k])
    <2>1. k - Processed \in 1..Len(stdin) /\ Processed + (k - Processed) = k
      BY <1>l, <1>3
    <2> QED
      BY <2>1 DEF LinesInv, LastWritten, Waiting
  <1>4. ASSUME working # 0 PROVE working = written[k] <=> k = Processed
    <2>1. Processed \in 1..Len(written) /\ written[Processed] = working
      BY <1>l, <1>4 DEF LinesInv, LastWritten
    <2> QED
      BY <2>1 DEF LinesInv, WrittenOnce
  <1> QED
    BY <1>l, <1>1, <1>2, <1>3, <1>4

(* A line written is a message sent (send, client.go:160-172). *)
LEMMA WriteIsSend ==
    ASSUME TypeOK, InputInv, LinesInv, Alive, ~Another, WriteLine
    PROVE  TS!ServerNext
  <1>t. /\ nextID \in 0..MaxCalls /\ notifying \in BOOLEAN /\ MaxCalls \in Nat
        /\ written \in Seq(0..nextID) /\ stdin \in Seq(0..nextID) /\ working \in 0..nextID
        /\ Len(written) \in Nat /\ Len(stdin) \in Nat
    BY McpBounds, LenProperties DEF TypeOK, LinesInv, WrittenOnce
  <1>1. /\ pc = "write" /\ proc = "running" /\ UNCHANGED <<server, working, stdinOpen, replied>>
        /\ stdin' = Append(stdin, NewLine) /\ written' = Append(written, NewLine)
    BY DEF WriteLine, Write, NewLine
  <1>p. PICK line : line = NewLine
    OBVIOUS
  <1>2. line \in Lines /\ line \in 0..nextID /\ ~Sent(line) /\ stdinOpen
    BY <1>t, <1>1, <1>p DEF NewLine, Lines, LinesInv, WrittenOnce, InputInv
  <1>3. /\ Len(stdin') = Len(stdin) + 1 /\ stdin'[Len(stdin) + 1] = line
        /\ \A k \in 1..Len(stdin) : stdin'[k] = stdin[k]
    BY <1>t, <1>1, <1>2, <1>p, AppendProperties
  <1>4. /\ Len(written') = Len(written) + 1 /\ written'[Len(written) + 1] = line
        /\ \A k \in 1..Len(written) : written'[k] = written[k]
    BY <1>t, <1>1, <1>2, <1>p, AppendProperties
  <1>5. ASSUME NEW r
        PROVE  /\ Sent(r)' <=> Sent(r) \/ r = line
               /\ Waiting(r)' <=> Waiting(r) \/ r = line
    <2>1. \A k : k \in 1..Len(written') <=> k \in 1..Len(written) \/ k = Len(written) + 1
      BY <1>t, <1>4
    <2>2. \A k : k \in 1..Len(stdin') <=> k \in 1..Len(stdin) \/ k = Len(stdin) + 1
      BY <1>t, <1>3
    <2> QED
      BY <1>3, <1>4, <2>1, <2>2 DEF Sent, Waiting
  <1>6. working # line \/ working = 0
    <2> SUFFICES ASSUME working # 0 PROVE Sent(working)
      BY <1>2
    <2>1. Processed \in 1..Len(written) /\ written[Processed] = working
      BY <1>t DEF LinesInv, LastWritten, Processed
    <2> QED
      BY <2>1 DEF Sent
  <1>7. \A r \in Lines : Progress(r)' = IF r = line THEN "sent" ELSE Progress(r)
    BY <1>1, <1>2, <1>5 DEF Progress, IsTool
  <1>8. Progress(line) = "unsent"
    BY <1>2 DEF Progress
  <1>9. /\ \A r \in Lines : r # line => Kind(r)' = Kind(r)
        /\ Kind(line)' \in TS!Kinds
    BY <1>5 DEF Kind, TS!Kinds
  <1>10. Scanned' = Scanned /\ Process' = Process /\ ExitStatus' = ExitStatus
    BY <1>t, <1>1, <1>3, <1>4 DEF Scanned, Process, ExitStatus, IsTool
  <1>11. Process # "exited"
    BY <1>1 DEF LinesInv, Process
  <1>12. [r \in Lines |-> Progress(r)]' = [[r \in Lines |-> Progress(r)] EXCEPT ![line] = "sent"]
    BY <1>2, <1>7
  <1>13. [r \in Lines |-> Kind(r)]' = [[r \in Lines |-> Kind(r)] EXCEPT ![line] = Kind(line)']
    BY <1>2, <1>9
  <1>14. TS!Send(line)
    BY <1>1, <1>2, <1>p, <1>8, <1>9, <1>10, <1>11, <1>12, <1>13
       DEF TS!Send, TS!procVars, TS!httpVars
  <1> QED
    BY <1>2, <1>14 DEF TS!ServerNext

(* No tool runs while the server can take a line (Serve does one at a time,*)
(* server.go:123-137).                                                     *)
LEMMA IdleServer ==
    working = 0 \/ ~IsTool(working) => TS!Idle
  BY DEF TS!Idle, TS!ToolRunning, Progress

(* The line the server takes is the one its scanner returns next; a tool   *)
(* call is left running, the notification is done with, another request    *)
(* will be scanned when it is answered (Serve, server.go:117-137).         *)
LEMMA ReadIsScan ==
    ASSUME TypeOK, LinesInv, ~Another, ReadLine
    PROVE  TS!ServerNext \/ UNCHANGED TS!processVars
  <1>t. /\ stdin \in Seq(0..nextID) /\ Handshake \in Nat /\ MaxCalls \in Nat
    BY McpBounds, HandshakeAssumption DEF TypeOK
  <1>1. /\ server = "serve" /\ working = 0 /\ stdin # << >>
        /\ working' = Head(stdin) /\ stdin' = Tail(stdin)
        /\ UNCHANGED <<server, written, replied, stdinOpen>>
    BY DEF ReadLine, ServerRead, serverVars
  <1>2. /\ Head(stdin) = stdin[1] /\ 1 \in 1..Len(stdin) /\ Len(stdin') = Len(stdin) - 1
        /\ Len(stdin) \in Nat
        /\ \A k \in 1..Len(stdin') : stdin'[k] = stdin[k + 1] /\ k + 1 \in 1..Len(stdin)
        /\ \A k \in 1..Len(stdin) : k # 1 => k - 1 \in 1..Len(stdin')
    BY <1>t, <1>1, Dequeue, LenProperties
  <1>p. PICK line : line = stdin[1]
    OBVIOUS
  <1>3. /\ Processed + 1 \in 1..Len(written) /\ written[Processed + 1] = line
        /\ Len(written) \in Nat /\ Processed = Len(written) - Len(stdin)
    <2>1. Len(written) \in Nat
      BY LenProperties DEF LinesInv, WrittenOnce
    <2> QED
      BY <1>2, <1>p, <2>1 DEF LinesInv, LastWritten, Processed
  <1>4. line \in Lines /\ Sent(line) /\ Waiting(line)
    <2>1. line \in Lines /\ Sent(line)
      BY <1>3, ProgressCases
    <2> QED
      BY <1>2, <1>p, <2>1 DEF Waiting
  <1>5. ASSUME NEW r \in Lines
        PROVE  Sent(r)' = Sent(r) /\ (Waiting(r)' <=> Waiting(r) /\ r # line)
    <2>1. Sent(r)' = Sent(r)
      BY <1>1 DEF Sent
    <2>2. ASSUME Waiting(r)' PROVE Waiting(r) /\ r # line
      <3>1. PICK k \in 1..Len(stdin') : stdin'[k] = r
        BY <2>2 DEF Waiting
      <3>2. stdin[k + 1] = r /\ k + 1 \in 1..Len(stdin)
        BY <1>2, <3>1
      <3>3. /\ Processed + (k + 1) \in 1..Len(written) /\ Processed + (k + 1) # Processed + 1
            /\ written[Processed + (k + 1)] = r
        BY <1>2, <1>3, <3>2 DEF LinesInv, LastWritten
      <3>4. r # line
        BY <1>3, <3>3 DEF LinesInv, WrittenOnce
      <3> QED
        BY <3>2, <3>4 DEF Waiting
    <2>3. ASSUME Waiting(r), r # line PROVE Waiting(r)'
      <3>1. PICK k \in 1..Len(stdin) : stdin[k] = r
        BY <2>3 DEF Waiting
      <3>2. k # 1 /\ k - 1 \in 1..Len(stdin') /\ (k - 1) + 1 = k
        BY <1>2, <1>p, <2>3, <3>1
      <3>3. stdin'[k - 1] = r
        BY <1>2, <3>1, <3>2
      <3> QED
        BY <3>2, <3>3 DEF Waiting
    <2> QED
      BY <2>1, <2>2, <2>3
  <1>6. /\ [r \in Lines |-> Kind(r)]' = [r \in Lines |-> Kind(r)]
        /\ Process' = Process /\ ExitStatus' = ExitStatus /\ Process = "serve"
    BY <1>1, <1>5 DEF Kind, Process, ExitStatus
  <1>7. Scanned = Processed
    BY <1>1, <1>3 DEF Scanned, Another
  <1>8. \A r \in Lines : r # line => Progress(r)' = Progress(r)
    BY <1>1, <1>2, <1>5, <1>p DEF Progress, IsTool
  <1>9. working' = line
    BY <1>1, <1>2, <1>p
  <1>10. TS!Idle
    BY <1>1, IdleServer
  <1>11. CASE line # 0 /\ ~IsTool(line)
    <2>1. Progress(line)' = "sent" /\ Progress(line) = "sent"
      BY <1>4, <1>5, <1>9, <1>11 DEF Progress, IsTool
    <2>2. [r \in Lines |-> Progress(r)]' = [r \in Lines |-> Progress(r)]
      BY <1>8, <2>1
    <2>3. Scanned' = Scanned
      BY <1>1, <1>2, <1>3, <1>7, <1>9, <1>11 DEF Scanned, Another, IsTool
    <2> QED
      BY <1>1, <1>6, <2>2, <2>3 DEF TS!processVars, TS!messageVars, TS!procVars, TS!httpVars
  <1>12. CASE line = 0 \/ IsTool(line)
    <2>1. Scanned' = Scanned + 1 /\ Scanned < Len(written) /\ Scanned + 1 = Processed + 1
      BY <1>1, <1>2, <1>3, <1>7, <1>9, <1>12 DEF Scanned, Another, IsTool
    <2>2. Kind(line) = IF line = 0 THEN "notification" ELSE "call"
      BY <1>t, <1>4, <1>12 DEF Kind, IsTool
    <2>3. Progress(line)' = IF line = 0 THEN "done" ELSE "running"
      BY <1>4, <1>5, <1>9, <1>12 DEF Progress, IsTool
    <2>4. [r \in Lines |-> Progress(r)]'
          = [[r \in Lines |-> Progress(r)] EXCEPT ![line] = IF line = 0 THEN "done" ELSE "running"]
      BY <1>4, <1>8, <2>3
    <2>5. TS!NextLine = line
      BY <1>3, <2>1 DEF TS!NextLine
    <2>6. TS!Dispatch(line)
      BY <1>1, <1>4, <2>2, <2>4 DEF TS!Dispatch, TS!HasReply
    <2>7. TS!ScanLine
      BY <1>1, <1>4, <1>6, <1>10, <2>1, <2>2, <2>5, <2>6
         DEF TS!ScanLine, TS!messageVars, TS!procVars, TS!httpVars
    <2> QED
      BY <2>7 DEF TS!ServerNext, TS!Stdio
  <1> QED
    BY <1>11, <1>12

(* An answer ends a tool call, or is that of the request scanned with it   *)
(* (dispatch, callTool; server.go:139-176).                                *)
LEMMA ReplyIsAnswer ==
    ASSUME TypeOK, LinesInv, ~Another, Reply
    PROVE  TS!ServerNext
  <1>t. stdin \in Seq(0..nextID) /\ Handshake \in Nat /\ MaxCalls \in Nat /\ working \in 0..MaxCalls
    BY McpBounds, HandshakeAssumption DEF TypeOK
  <1>1. /\ server = "serve" /\ working # 0 /\ working' = 0 /\ replied' = Append(replied, working)
        /\ UNCHANGED <<server, written, stdin, stdinOpen>>
    BY DEF Reply, Answer, Emit
  <1>p. PICK w : w = working
    OBVIOUS
  <1>2. /\ Processed \in 1..Len(written) /\ written[Processed] = w
        /\ Len(written) \in Nat /\ Len(stdin) \in Nat /\ Processed = Len(written) - Len(stdin)
    <2>1. Len(written) \in Nat /\ Len(stdin) \in Nat
      BY <1>t, LenProperties DEF LinesInv, WrittenOnce
    <2> QED
      BY <1>1, <1>p, <2>1 DEF LinesInv, LastWritten, Processed
  <1>3. w \in Lines /\ Sent(w) /\ ~Waiting(w)
    BY <1>2, ProgressCases
  <1>4. \A r \in Lines : Sent(r)' = Sent(r) /\ Waiting(r)' = Waiting(r) /\ Kind(r)' = Kind(r)
    BY <1>1 DEF Sent, Waiting, Kind
  <1>5. /\ [r \in Lines |-> Kind(r)]' = [r \in Lines |-> Kind(r)]
        /\ Process' = Process /\ ExitStatus' = ExitStatus /\ Process = "serve"
    BY <1>1, <1>4 DEF Process, ExitStatus
  <1>6. Progress(w)' = "done"
    BY <1>1, <1>3, <1>4 DEF Progress
  <1>7. \A r \in Lines : r # w => Progress(r)' = Progress(r)
    BY <1>1, <1>4, <1>p DEF Progress
  <1>8. [r \in Lines |-> Progress(r)]' = [[r \in Lines |-> Progress(r)] EXCEPT ![w] = "done"]
    BY <1>3, <1>6, <1>7
  <1>9. Scanned' = Processed
    BY <1>1, <1>2 DEF Scanned, Another
  <1>10. CASE IsTool(w)
    <2>1. Progress(w) = "running"
      BY <1>1, <1>3, <1>p, <1>10 DEF Progress
    <2>2. Scanned' = Scanned
      BY <1>2, <1>9, <1>p, <1>10 DEF Scanned, Another
    <2>3. TS!ToolEnds(w)
      BY <1>1, <1>3, <1>5, <1>8, <1>p, <2>1, <2>2
         DEF TS!ToolEnds, TS!ToolRunning, TS!messageVars, TS!procVars, TS!httpVars
    <2> QED
      BY <1>3, <2>3 DEF TS!ServerNext
  <1>11. CASE ~IsTool(w)
    <2>1. Scanned' = Scanned + 1 /\ Scanned < Len(written) /\ Scanned + 1 = Processed
      BY <1>1, <1>2, <1>9, <1>p, <1>11 DEF Scanned, Another
    <2>2. Kind(w) = "request"
      BY <1>t, <1>1, <1>3, <1>p, <1>11 DEF Kind, IsTool
    <2>3. TS!NextLine = w
      BY <1>2, <2>1 DEF TS!NextLine
    <2>4. TS!Dispatch(w)
      BY <1>1, <1>3, <1>8, <1>p, <2>2 DEF TS!Dispatch, TS!HasReply
    <2>5. TS!Idle
      BY <1>p, <1>11, IdleServer
    <2>6. TS!ScanLine
      BY <1>1, <1>3, <1>5, <2>1, <2>2, <2>3, <2>4, <2>5
         DEF TS!ScanLine, TS!messageVars, TS!procVars, TS!httpVars
    <2> QED
      BY <2>6 DEF TS!ServerNext, TS!Stdio
  <1> QED
    BY <1>10, <1>11

(* The process starts, refuses its workspace, ends with its input or is    *)
(* killed; the client closes its input.                                    *)
LEMMA ProcessSteps ==
    ASSUME TypeOK, LinesInv, Alive, ~Another, Kill \/ StartServing \/ RefuseWorkspace \/ StopServing
    PROVE  TS!ServerNext
  <1>1. /\ UNCHANGED <<stdinOpen, written, stdin, working, replied>>
        /\ server' \in {"serve", "failed", "ok", "killed"}
    BY DEF Kill, KillOnCancel, KillOnClose, StartServing, RefuseWorkspace, StopServing, Exits, vars, procVars
  <1>2. /\ [r \in Lines |-> Progress(r)]' = [r \in Lines |-> Progress(r)]
        /\ [r \in Lines |-> Kind(r)]' = [r \in Lines |-> Kind(r)]
        /\ Scanned' = Scanned
    BY <1>1 DEF Progress, Kind, Sent, Waiting, IsTool, Scanned, Another
  <1>3. CASE Kill
    <2>1. Process # "exited" /\ Process' = "exited" /\ ExitStatus' = "killed"
      BY <1>3 DEF Kill, KillOnCancel, KillOnClose, LinesInv, Process, ExitStatus
    <2>2. TS!Kill
      BY <1>1, <1>2, <2>1 DEF TS!Kill, TS!Exit, TS!messageVars, TS!httpVars
    <2> QED
      BY <2>2 DEF TS!ServerNext
  <1>4. CASE StartServing \/ RefuseWorkspace
    <2>1. /\ Process = "start" /\ ExitStatus = "none"
          /\ \/ Process' = "serve" /\ ExitStatus' = "none"
             \/ Process' = "exited" /\ ExitStatus' = "failed"
      BY <1>4 DEF StartServing, RefuseWorkspace, Exits, Process, ExitStatus
    <2>2. TS!Start
      BY <1>1, <1>2, <2>1 DEF TS!Start, TS!Exit, TS!messageVars, TS!httpVars
    <2> QED
      BY <2>2 DEF TS!ServerNext
  <1>5. CASE StopServing
    <2>1. /\ Process = "serve" /\ Process' = "exited" /\ ExitStatus' = "ok"
          /\ working = 0 /\ stdin = << >> /\ ~stdinOpen
      BY <1>5 DEF StopServing, Exits, Process, ExitStatus
    <2>2. Scanned = Len(written)
      BY <2>1, LenProperties, EmptySeq DEF Scanned, Another, LinesInv, WrittenOnce
    <2>3. TS!EndOfInput
      BY <1>1, <1>2, <2>1, <2>2, IdleServer DEF TS!EndOfInput, TS!Exit, TS!messageVars, TS!httpVars
    <2> QED
      BY <2>3 DEF TS!ServerNext, TS!Stdio
  <1> QED
    BY <1>3, <1>4, <1>5

LEMMA InputCloses ==
    ASSUME TypeOK, UNCHANGED <<server, written, replied>>,
           stdinOpen' = stdinOpen \/ stdinOpen' = FALSE,
           UNCHANGED <<stdin, working>> \/ (Another /\ written = << >>)
    PROVE  TS!ServerNext \/ UNCHANGED TS!processVars
  <1>1. /\ \A r \in Lines : Progress(r)' = Progress(r) /\ Kind(r)' = Kind(r)
        /\ Scanned' = Scanned /\ Process' = Process /\ ExitStatus' = ExitStatus
    <2>1. CASE UNCHANGED <<stdin, working>>
      BY <2>1 DEF Progress, Kind, Sent, Waiting, IsTool, Scanned, Process, ExitStatus
    <2>2. CASE Another /\ written = << >>
      BY <2>2 DEF Another, Progress, Kind, Sent, Scanned, Process, ExitStatus
    <2> QED
      BY <2>1, <2>2
  <1>2. CASE stdinOpen' = stdinOpen
    BY <1>1, <1>2 DEF TS!processVars, TS!messageVars, TS!procVars, TS!httpVars
  <1>3. CASE stdinOpen /\ stdinOpen' = FALSE
    <2>1. TS!CloseInput
      BY <1>1, <1>3 DEF TS!CloseInput, TS!messageVars, TS!procVars, TS!httpVars
    <2> QED
      BY <2>1 DEF TS!ServerNext
  <1> QED
    BY <1>2, <1>3 DEF TypeOK

(* Every step of the session: the client's other steps do not concern the  *)
(* server, and of another program nothing is claimed.                      *)
LEMMA StepsAreServerSteps ==
    ASSUME TypeOK, InputInv, Alive, ~Another => LinesInv, Another => written = << >>,
           [SessionNext]_sessionVars
    PROVE  [TS!ServerNext]_TS!processVars
  <1>1. CASE server # "other" /\ Client
    <2>1. CASE WriteLine
      BY <1>1, <2>1, WriteIsSend DEF Another
    <2>2. CASE Kill
      BY <1>1, <2>2, ProcessSteps DEF Another
    <2>3. CASE ReadLines \/ EndCall \/ ReapServer \/ CloseOutput \/ Ask
      <3>1. /\ UNCHANGED <<server, written, replied, stdin, working>>
            /\ stdinOpen' = stdinOpen \/ stdinOpen' = FALSE
        BY <2>3 DEF ReadLines, ReadLoop, Scan, ScanEnds, Deliver, ReportError, CloseMessages, EndCall,
           WriteFails, Await, ContextDone, TransportError, ChannelClosed, ReceiveAnswer, ReceiveOther,
           End, ReapServer, Reap, CloseOutput, CloseReader, Ask, StartCall, StartNotify, Timeout, Cancel,
           BeginClose, Closed, serverVars, vars, procVars
      <3> QED
        BY <3>1, InputCloses
    <2> QED
      BY <1>1, <2>1, <2>2, <2>3 DEF Client
  <1>2. CASE server # "other" /\ (Serve \/ RefuseWorkspace)
    <2>1. CASE ReadLine
      BY <1>2, <2>1, ReadIsScan DEF Another
    <2>2. CASE Reply
      BY <1>2, <2>2, ReplyIsAnswer DEF Another
    <2>3. CASE StartServing \/ RefuseWorkspace \/ StopServing
      BY <1>2, <2>3, ProcessSteps DEF Another
    <2>4. CASE CarryOut
      <3>1. UNCHANGED <<server, written, replied, stdinOpen, stdin, working>>
        BY <2>4 DEF CarryOut, vars, procVars
      <3> QED
        BY <3>1, InputCloses
    <2> QED
      BY <1>2, <2>1, <2>2, <2>3, <2>4 DEF Serve
  <1>3. CASE server = "other" /\ Next /\ UNCHANGED serverVars
    <2>1. stdinOpen' = stdinOpen \/ stdinOpen' = FALSE
      <3>1. CASE Caller \/ ReadLoop
        BY <3>1 DEF Caller, StartCall, StartNotify, Write, WriteFails, Await, ContextDone, TransportError,
           ChannelClosed, ReceiveAnswer, ReceiveOther, End, ReadLoop, Scan, ScanEnds, Deliver,
           ReportError, CloseMessages, procVars
      <3>2. CASE Server
        BY <3>2 DEF Server, ServerRead, ServerAnswer, ServerNoise, ServerExit, Emit
      <3>3. CASE Contexts \/ Close \/ Closed
        BY <3>3 DEF Contexts, Timeout, Cancel, KillOnCancel, Close, BeginClose, KillOnClose, Reap,
           CloseReader, Closed, vars, procVars
      <3> QED
        BY <1>3, <3>1, <3>2, <3>3 DEF Next
    <2> QED
      BY <1>3, <2>1, InputCloses DEF Another, serverVars
  <1>4. CASE UNCHANGED sessionVars
    <2>1. UNCHANGED <<server, written, replied, stdinOpen, stdin, working>>
      BY <1>4 DEF sessionVars, serverVars, vars, procVars
    <2> QED
      BY <2>1, InputCloses
  <1> QED
    BY <1>1, <1>2, <1>3, <1>4 DEF SessionNext

(* Joined to this client, coreutils-mcp only ever does what its own        *)
(* specification allows: the client sends it no message, closes no input   *)
(* and kills it at no time that ToolServer does not provide for, and it    *)
(* answers the lines in the order in which they were written.              *)
THEOREM ServerKeepsItsSpecification == SessionSpec => ServesAsToolServer
  <1> DEFINE Own == ~Another => LinesInv
             Silent == Another => written = << >>
  <1>1. SessionInit => TS!ServerInit
    <2> SUFFICES ASSUME SessionInit PROVE TS!ServerInit
      OBVIOUS
    <2>1. /\ server \in {"start", "other"} /\ written = << >> /\ stdin = << >> /\ working = 0
          /\ replied = << >> /\ stdinOpen = TRUE
      BY DEF SessionInit, Init
    <2>2. \A r \in Lines : Progress(r) = "unsent" /\ Kind(r) = "request"
      BY <2>1, EmptySeq DEF Progress, Kind, Sent
    <2>3. Scanned = 0 /\ Process = "start" /\ ExitStatus = "none"
      BY <2>1, EmptySeq DEF Scanned, Process, ExitStatus
    <2> QED
      BY <2>1, <2>2, <2>3 DEF TS!ServerInit
  <1>2. SessionInit => Own /\ Silent /\ InputInv
    BY InitLines DEF SessionInit, Init, InputInv
  <1>3. TypeOK /\ InputInv /\ Alive /\ Own /\ [SessionNext]_sessionVars => Own'
    BY NextLines, SameProgram
  <1>4. Silent /\ [SessionNext]_sessionVars => Silent'
    <2> SUFFICES ASSUME Silent, [SessionNext]_sessionVars, Another' PROVE written' = << >>
      OBVIOUS
    <2>1. Another /\ written = << >>
      BY SameProgram
    <2> QED
      BY <2>1 DEF Another, SessionNext, sessionVars, serverVars
  <1>5. TypeOK /\ InputInv /\ Alive /\ Own /\ Silent /\ [SessionNext]_sessionVars
          => [TS!ServerNext]_TS!processVars
    BY StepsAreServerSteps
  <1>6. SessionInit => Init
    BY DEF SessionInit
  <1> QED
    BY <1>1, <1>2, <1>3, <1>4, <1>5, <1>6, SessionIsClient, TypeCorrect, NextInput, SessionStep, PTL
       DEF SessionSpec, ServesAsToolServer, TS!ServerSpec
=============================================================================
