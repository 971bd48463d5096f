--------------------------- MODULE AgentLoopProofs ---------------------------
(***************************************************************************)
(* Proofs about AgentLoop, for every value of its constants.               *)
(***************************************************************************)
EXTENDS AgentLoop, FiniteSetTheorems, SequenceTheorems, WellFoundedInduction, TLAPS

(* t is s without its first d messages, up to the lengths of contents. *)
Shifted(s, t, d) ==
    /\ Len(s) = Len(t) + d
    /\ \A i \in 1..Len(t) : /\ t[i].role = s[i + d].role
                            /\ t[i].calls = s[i + d].calls
                            /\ t[i].id = s[i + d].id

Whole(s) == ResultsFollowCalls(s) /\ CallsAnswered(s)

(* The calls of a message are a sequence (llm.go:24-30). *)
LEMMA CallsLength ==
    ASSUME NEW s \in Seq(Message), NEW i \in 1..Len(s)
    PROVE  s[i].calls \in Seq(Call) /\ Len(s[i].calls) \in Nat
<1>1. s[i] \in Message
  OBVIOUS
<1> QED BY <1>1 DEF Message

(* Cutting whole exchanges in front of a message that is not a result      *)
(* leaves whole exchanges (pruneMessages, context.go:63-90).               *)
LEMMA CutWhole ==
    ASSUME NEW s \in Seq(Message), NEW t \in Seq(Message), NEW d \in Nat,
           Shifted(s, t, d), Whole(s),
           Len(t) > 0 => s[d + 1].role # "tool"
    PROVE  Whole(t)
<1>1. ResultsFollowCalls(t)
  <2> SUFFICES ASSUME NEW i \in 1..Len(t), t[i].role = "tool"
               PROVE \E j \in 1..i-1 :
                        /\ t[j].role = "assistant"
                        /\ i - j <= Len(t[j].calls)
                        /\ \A k \in j+1..i : t[k].role = "tool"
                        /\ t[j].calls[i - j].id # NoId => t[i].id = t[j].calls[i - j].id
    BY DEF ResultsFollowCalls
  <2>1. /\ i + d \in 1..Len(s)
        /\ s[i + d].role = "tool"
    BY DEF Shifted
  <2>2. PICK j \in 1..(i + d) - 1 :
            /\ s[j].role = "assistant"
            /\ (i + d) - j <= Len(s[j].calls)
            /\ \A k \in j+1..i+d : s[k].role = "tool"
            /\ s[j].calls[(i + d) - j].id # NoId => s[i + d].id = s[j].calls[(i + d) - j].id
    BY <2>1 DEF Whole, ResultsFollowCalls
  <2>3. j > d
    <3> SUFFICES ASSUME j <= d PROVE FALSE
      OBVIOUS
    <3>1. d + 1 \in j+1..i+d
      OBVIOUS
    <3>2. s[d + 1].role = "tool"
      BY <2>2, <3>1
    <3> QED BY <3>2
  <2>4. j - d \in 1..i-1
    BY <2>2, <2>3
  <2>5. /\ t[j - d].role = "assistant"
        /\ t[j - d].calls = s[j].calls
        /\ t[i].id = s[i + d].id
    <3>1. j - d \in 1..Len(t) /\ (j - d) + d = j
      BY <2>4
    <3> QED BY <3>1, <2>2 DEF Shifted
  <2>6. \A k \in (j - d)+1..i : t[k].role = "tool"
    <3> SUFFICES ASSUME NEW k \in (j - d)+1..i PROVE t[k].role = "tool"
      OBVIOUS
    <3>1. k \in 1..Len(t)
      BY <2>4
    <3>2. k + d \in j+1..i+d
      OBVIOUS
    <3> QED BY <3>1, <3>2, <2>2 DEF Shifted
  <2>7. i - (j - d) = (i + d) - j
    OBVIOUS
  <2> QED BY <2>2, <2>4, <2>5, <2>6, <2>7
<1>2. CallsAnswered(t)
  <2> SUFFICES ASSUME NEW j \in 1..Len(t), t[j].role = "assistant"
               PROVE /\ j + Len(t[j].calls) <= Len(t)
                     /\ \A k \in j+1..j+Len(t[j].calls) : t[k].role = "tool"
    BY DEF CallsAnswered
  <2>1. PICK n \in Nat : n = Len(t[j].calls)
    BY CallsLength
  <2>2. /\ j + d \in 1..Len(s)
        /\ s[j + d].role = "assistant"
        /\ s[j + d].calls = t[j].calls
    BY DEF Shifted
  <2>3. /\ (j + d) + n <= Len(s)
        /\ \A k \in (j+d)+1..(j+d)+n : s[k].role = "tool"
    BY <2>1, <2>2 DEF Whole, CallsAnswered
  <2>4. j + n <= Len(t)
    BY <2>3 DEF Shifted
  <2>5. \A k \in j+1..j+n : t[k].role = "tool"
    <3> SUFFICES ASSUME NEW k \in j+1..j+n PROVE t[k].role = "tool"
      OBVIOUS
    <3>1. k \in 1..Len(t) /\ k + d \in (j+d)+1..(j+d)+n
      BY <2>4
    <3> QED BY <3>1, <2>3 DEF Shifted
  <2> QED BY <2>1, <2>4, <2>5
<1> QED BY <1>1, <1>2 DEF Whole

(* Putting messages that neither call nor answer in front of whole         *)
(* exchanges leaves whole exchanges (context.go:92-94).                    *)
LEMMA PrependWhole ==
    ASSUME NEW s \in Seq(Message), NEW t \in Seq(Message), NEW d \in Nat,
           Shifted(s, t, d), Whole(t),
           \A i \in 1..d : s[i].role \notin {"assistant", "tool"}
    PROVE  Whole(s)
<1>1. ResultsFollowCalls(s)
  <2> SUFFICES ASSUME NEW i \in 1..Len(s), s[i].role = "tool"
               PROVE \E j \in 1..i-1 :
                        /\ s[j].role = "assistant"
                        /\ i - j <= Len(s[j].calls)
                        /\ \A k \in j+1..i : s[k].role = "tool"
                        /\ s[j].calls[i - j].id # NoId => s[i].id = s[j].calls[i - j].id
    BY DEF ResultsFollowCalls
  <2>1. /\ i - d \in 1..Len(t)
        /\ t[i - d].role = "tool"
        /\ t[i - d].id = s[i].id
    <3>1. i > d
      OBVIOUS
    <3>2. i - d \in 1..Len(t) /\ (i - d) + d = i
      BY <3>1 DEF Shifted
    <3> QED BY <3>2 DEF Shifted
  <2>2. PICK j \in 1..(i - d) - 1 :
            /\ t[j].role = "assistant"
            /\ (i - d) - j <= Len(t[j].calls)
            /\ \A k \in j+1..i-d : t[k].role = "tool"
            /\ t[j].calls[(i - d) - j].id # NoId => t[i - d].id = t[j].calls[(i - d) - j].id
    BY <2>1 DEF Whole, ResultsFollowCalls
  <2>3. /\ j + d \in 1..i-1
        /\ s[j + d].role = "assistant"
        /\ s[j + d].calls = t[j].calls
    BY <2>1, <2>2 DEF Shifted
  <2>4. \A k \in j+d+1..i : s[k].role = "tool"
    <3> SUFFICES ASSUME NEW k \in j+d+1..i PROVE s[k].role = "tool"
      OBVIOUS
    <3>1. k - d \in 1..Len(t) /\ k - d \in j+1..i-d /\ (k - d) + d = k
      BY <2>1, <2>2
    <3> QED BY <3>1, <2>2 DEF Shifted
  <2>5. i - (j + d) = (i - d) - j
    OBVIOUS
  <2> QED BY <2>1, <2>2, <2>3, <2>4, <2>5
<1>2. CallsAnswered(s)
  <2> SUFFICES ASSUME NEW j \in 1..Len(s), s[j].role = "assistant"
               PROVE /\ j + Len(s[j].calls) <= Len(s)
                     /\ \A k \in j+1..j+Len(s[j].calls) : s[k].role = "tool"
    BY DEF CallsAnswered
  <2>1. PICK n \in Nat : n = Len(s[j].calls)
    BY CallsLength
  <2>2. /\ j - d \in 1..Len(t)
        /\ t[j - d].role = "assistant"
        /\ t[j - d].calls = s[j].calls
    <3>1. j - d \in 1..Len(t) /\ (j - d) + d = j
      BY DEF Shifted
    <3> QED BY <3>1 DEF Shifted
  <2>3. /\ (j - d) + n <= Len(t)
        /\ \A k \in (j-d)+1..(j-d)+n : t[k].role = "tool"
    BY <2>1, <2>2 DEF Whole, CallsAnswered
  <2>4. j + n <= Len(s)
    BY <2>3 DEF Shifted
  <2>5. \A k \in j+1..j+n : s[k].role = "tool"
    <3> SUFFICES ASSUME NEW k \in j+1..j+n PROVE s[k].role = "tool"
      OBVIOUS
    <3>1. k - d \in (j-d)+1..(j-d)+n /\ (k - d) + d = k
      OBVIOUS
    <3>2. (j - d) + n <= Len(t) /\ j - d >= 1
      BY <2>2, <2>3
    <3>3. k - d \in 1..Len(t)
      BY <3>1, <3>2
    <3> QED BY <3>1, <3>3, <2>3 DEF Shifted
  <2> QED BY <2>1, <2>4, <2>5
<1> QED BY <1>1, <1>2 DEF Whole
-----------------------------------------------------------------------------
(* The kinds of message the loop builds. *)
LEMMA MessageTypes ==
    /\ SystemMessage \in Message
    /\ UserMessage \in Message
    /\ \A requested \in Seq(Call), bytes \in Nat : Reply(requested, bytes) \in Message
    /\ \A id \in Ids, bytes \in Nat : ToolMessage(id, bytes) \in Message
BY DEF SystemMessage, UserMessage, Plain, Reply, ToolMessage, Message, Ids

(* Cutting a message's content changes neither its type nor who wrote it,  *)
(* its calls or its identifier (context.go:62-69, 111-116).                *)
LEMMA ClampKeeps ==
    ASSUME NEW m \in Message
    PROVE  /\ Clamp(m) \in Message
           /\ Clamp(m).role = m.role /\ Clamp(m).calls = m.calls /\ Clamp(m).id = m.id
<1>1. ClampText(m.bytes) \in Nat
  BY LimitsAssumption DEF ClampText, Message
<1> QED BY <1>1 DEF Clamp, Message

(* The tool message of a result has a length (toolcall.go:70-76). *)
LEMMA ResultLength ==
    ASSUME NEW bytes \in ResultBytes, NEW structured, NEW isError
    PROVE  ResultMessageBytes(bytes, structured, isError) \in Nat
<1>1. bytes \in Nat /\ ErrorBytes \in Nat /\ WrapBytes \in Nat
  BY LimitsAssumption, InputsAssumption
<1>2. NormalizeResult(bytes, structured, isError) \in Nat
  BY <1>1 DEF NormalizeResult
<1> QED BY <1>1, <1>2 DEF ResultMessageBytes

InProfile(name) == \E k \in 1..Len(Profile) : Profile[k] = name

(* exposeProfile shows only discovered tools of the profile                *)
(* (agent.go:295-316).                                                     *)
LEMMA ExposedAreTools ==
    ASSUME NEW found
    PROVE  /\ ExposeProfile(found) \subseteq Tools
           /\ \A name \in ExposeProfile(found) : name \in found /\ InProfile(name)
<1> SUFFICES ASSUME NEW name \in ExposeProfile(found)
             PROVE  name \in Tools /\ name \in found /\ InProfile(name)
  OBVIOUS
<1>1. PICK i \in 1..Len(Profile) : Profile[i] \in found /\ name = Profile[i]
  BY DEF ExposeProfile
<1> QED BY <1>1, InputsAssumption DEF InProfile

(* A conversation as Loop builds it: the system prompt, the request, and   *)
(* activity (agent.go:260-288).                                            *)
Conversation(s) ==
    /\ s \in Seq(Message) /\ Len(s) >= 2
    /\ s[1] = SystemMessage /\ s[2] = UserMessage
    /\ \A i \in 3..Len(s) : s[i].role \in {"assistant", "tool"}

(* pruneMessages finds the request in the second place (context.go:47-58). *)
LEMMA UserIndexIsTwo ==
    ASSUME NEW s, Conversation(s)
    PROVE  UserIndex(s) = 2
<1> DEFINE P(i) == /\ s[i].role = "user"
                   /\ \A j \in i+1..Len(s) : s[j].role # "user"
<1>1. 2 \in 1..Len(s) /\ P(2)
  BY DEF Conversation, UserMessage, Plain
<1>2. ASSUME NEW i \in 1..Len(s), P(i) PROVE i = 2
  BY <1>2 DEF Conversation, SystemMessage, Plain
<1> QED BY <1>1, <1>2 DEF UserIndex

(* A call of the current reply is answered under an identifier             *)
(* (toolcall.go:42-47).                                                    *)
LEMMA AnswerIdType ==
    ASSUME TypeOK, next \in 1..Len(calls)
    PROVE  AnswerId(calls[next]) \in Ids
<1>1. calls[next] \in Call /\ round \in Nat /\ next \in Nat
  BY LimitsAssumption DEF TypeOK
<1> QED BY <1>1 DEF AnswerId, Ids, Call

(* The activity is the conversation after the request, with long results   *)
(* cut.                                                                    *)
LEMMA ActivityIsTheRest ==
    ASSUME NEW s, Conversation(s)
    PROVE  /\ Activity(s) \in Seq(Message)
           /\ Shifted(s, Activity(s), 2)
           /\ \A i \in 1..Len(Activity(s)) : Activity(s)[i].role \in {"assistant", "tool"}
<1>1. Activity(s) = [i \in 1..(Len(s) - 2) |-> Clamp(s[2 + i])]
  BY UserIndexIsTwo DEF Activity
<1>2. \A i \in 1..(Len(s) - 2) : s[2 + i] \in Message /\ s[2 + i].role \in {"assistant", "tool"}
  BY DEF Conversation
<1>3. \A i \in 1..(Len(s) - 2) :
         /\ Clamp(s[2 + i]) \in Message
         /\ Clamp(s[2 + i]).role = s[2 + i].role
         /\ Clamp(s[2 + i]).calls = s[2 + i].calls
         /\ Clamp(s[2 + i]).id = s[2 + i].id
  BY <1>2, ClampKeeps
<1>4. PICK l \in Nat : l = Len(s) - 2 /\ Len(s) = l + 2
  BY DEF Conversation
<1>5. Activity(s) \in Seq(Message) /\ Len(Activity(s)) = l
  <2>1. Activity(s) = [i \in 1..l |-> Clamp(s[2 + i])]
    BY <1>1, <1>4
  <2>2. \A i \in 1..l : Clamp(s[2 + i]) \in Message
    BY <1>3, <1>4
  <2> QED BY <2>1, <2>2
<1>6. \A i \in 1..Len(Activity(s)) : i + 2 = 2 + i /\ Activity(s)[i] = Clamp(s[2 + i])
  <2> SUFFICES ASSUME NEW i \in 1..Len(Activity(s))
               PROVE  i + 2 = 2 + i /\ Activity(s)[i] = Clamp(s[2 + i])
    OBVIOUS
  <2>1. i \in 1..(Len(s) - 2)
    BY <1>4, <1>5
  <2> QED BY <1>1, <2>1
<1>7. ASSUME NEW i \in 1..Len(Activity(s))
      PROVE  /\ Activity(s)[i].role = s[i + 2].role
             /\ Activity(s)[i].calls = s[i + 2].calls
             /\ Activity(s)[i].id = s[i + 2].id
             /\ Activity(s)[i].role \in {"assistant", "tool"}
  <2>1. i \in 1..(Len(s) - 2)
    BY <1>4, <1>5
  <2> QED BY <1>2, <1>3, <1>6, <2>1
<1>8. Len(s) = Len(Activity(s)) + 2
  BY <1>4, <1>5
<1> QED BY <1>5, <1>7, <1>8 DEF Shifted

(* What pruning drops is a number of messages (context.go:100-109). *)
LEMMA DropType ==
    ASSUME NEW s \in Seq(Message)
    PROVE  /\ Cardinality(OldestExchange(s)) \in Nat
           /\ DropOldestExchange(s) \in Seq(Message)
<1>1. IsFiniteSet(1..Len(s))
  BY FS_Interval
<1>2. Cardinality(OldestExchange(s)) \in Nat
  BY <1>1, FS_Subset, FS_CardinalityType DEF OldestExchange
<1> QED BY <1>2 DEF DropOldestExchange

(* Appending one message of activity keeps a conversation one. *)
LEMMA AppendActivity ==
    ASSUME NEW s, Conversation(s), NEW m \in Message, m.role \in {"assistant", "tool"}
    PROVE  Conversation(Append(s, m))
BY DEF Conversation
-----------------------------------------------------------------------------
(* Types alone are not preserved: the round counter is bounded because a   *)
(* round begins only below the limit, and the request is found because the *)
(* conversation keeps its shape.                                           *)
Shape ==
    /\ pc \notin {"start", "failed"} => Conversation(messages)
    /\ pc \in {"prune", "model", "calls", "tool"} => round <= MaxModelRounds
    /\ pc = "calls" => next >= 1
    /\ pc = "tool" => next \in 1..Len(calls)
Policy ==
    /\ Len(sent) = toolCalls
    /\ \A i \in 1..Len(sent) : sent[i] \in discovered /\ InProfile(sent[i])
    /\ \A name \in exposed : name \in discovered /\ InProfile(name)
TypeInv == TypeOK /\ Shape

(* A session starts well typed (agent.go:104-113, 251-263). *)
LEMMA InitTypes == Init => TypeInv
<1> SUFFICES ASSUME Init PROVE TypeInv
  OBVIOUS
<1>1. overhead \in Nat /\ discovered \subseteq Tools
  BY InputsAssumption DEF Init
<1>2. 0 \in 0..MaxTotalToolCalls /\ 0 \in 0..MaxModelRounds + 1
  BY LimitsAssumption
<1>3. TypeOK
  <2>1. /\ messages \in Seq(Message) /\ tail \in Seq(Message) /\ prompt \in Seq(Message)
        /\ calls \in Seq(Call) /\ sent \in Seq(Tools) /\ out \in Seq({"answer", "roundLimit"})
    BY DEF Init
  <2>2. exposed \subseteq Tools /\ cancelled \in BOOLEAN /\ next \in Nat
    BY DEF Init
  <2>3. toolCalls \in 0..MaxTotalToolCalls /\ round \in 0..MaxModelRounds + 1
    BY <1>2 DEF Init
  <2>4. pc = "start" /\ err = "none"
    BY DEF Init
  <2> QED BY <1>1, <2>1, <2>2, <2>3, <2>4 DEF TypeOK
<1>4. Shape
  BY DEF Init, Shape
<1> QED BY <1>3, <1>4 DEF TypeInv

(* No step of the loop, the model, a server or a signal breaks a type or   *)
(* the shape of the conversation (agent.go:251-293).                       *)
LEMMA NextTypes == TypeInv /\ [Next]_vars => TypeInv'
<1> SUFFICES ASSUME TypeInv, [Next]_vars PROVE TypeInv'
  OBVIOUS
<1> USE DEF TypeInv, TypeOK
<1>1. CASE Start
  <2>1. exposed' \subseteq Tools
    BY <1>1, ExposedAreTools DEF Start
  <2>2. CASE exposed' = {}
    BY <1>1, <2>1, <2>2 DEF Start, Shape, Fail, Keep
  <2>3. CASE exposed' # {}
    <3>1. messages' = <<SystemMessage, UserMessage>> /\ pc' = "round" /\ round' = 1
      BY <1>1, <2>3 DEF Start
    <3>2. Conversation(messages)'
      BY <3>1, MessageTypes DEF Conversation
    <3>3. 1 \in 0..MaxModelRounds + 1
      BY LimitsAssumption
    <3> QED BY <1>1, <2>1, <2>3, <3>1, <3>2, <3>3 DEF Start, Shape, Fail, Keep, Conversation
  <2> QED BY <2>2, <2>3
<1>2. CASE BeginRound
  <2>1. tail' \in Seq(Message)
    BY <1>2, ActivityIsTheRest DEF BeginRound, Shape
  <2> QED BY <1>2, <2>1 DEF BeginRound, Shape, Fail, Keep, Conversation
<1>3. CASE RoundLimit
  BY <1>3 DEF RoundLimit, Shape, Keep, Conversation
<1>4. CASE DropOldest
  <2>1. tail' \in Seq(Message)
    BY <1>4, DropType DEF DropOldest
  <2> QED BY <1>4, <2>1 DEF DropOldest, Shape, Keep, Conversation
<1>5. CASE Complete
  <2>1. prompt' \in Seq(Message)
    <3>1. CASE cancelled
      BY <1>5, <3>1 DEF Complete
    <3>2. CASE ~cancelled
      <4>1. prompt' = <<messages[1], messages[2]>> \o tail
        BY <1>5, <3>2, UserIndexIsTwo DEF Complete, Shape
      <4>2. messages[1] \in Message /\ messages[2] \in Message
        BY <1>5 DEF Complete, Shape, Conversation
      <4>3. <<messages[1], messages[2]>> \in Seq(Message)
        BY <4>2
      <4> QED BY <4>1, <4>3
    <3> QED BY <3>1, <3>2
  <2> QED BY <1>5, <2>1 DEF Complete, Shape, Fail, Keep, Conversation
<1>6. CASE Answer
  <2>1. PICK bytes \in ReplyBytes : messages' = Append(messages, Reply(<< >>, bytes))
    BY <1>6 DEF Answer
  <2>2. Reply(<< >>, bytes) \in Message /\ Reply(<< >>, bytes).role = "assistant"
    <3>1. << >> \in Seq(Call) /\ bytes \in Nat
      BY InputsAssumption
    <3> QED BY <3>1, MessageTypes DEF Reply
  <2>3. Conversation(messages)'
    BY <1>6, <2>1, <2>2, AppendActivity DEF Answer, Shape
  <2> QED BY <1>6, <2>3 DEF Answer, Shape, Keep, Conversation
<1>7. CASE AskForTools
  <2>1. PICK n \in 1..MaxReplyCalls, bytes \in ReplyBytes :
           \E requested \in [1..n -> Requests] :
              calls' = requested /\ messages' = Append(messages, Reply(requested, bytes))
    BY <1>7 DEF AskForTools
  <2>2. PICK requested \in [1..n -> Requests] :
           calls' = requested /\ messages' = Append(messages, Reply(requested, bytes))
    BY <2>1
  <2>3. requested \in Seq(Call)
    BY LimitsAssumption, InputsAssumption
  <2>4. Reply(requested, bytes) \in Message /\ Reply(requested, bytes).role = "assistant"
    BY <2>3, MessageTypes, InputsAssumption DEF Reply
  <2>5. Conversation(messages)'
    BY <1>7, <2>2, <2>4, AppendActivity DEF AskForTools, Shape
  <2> QED BY <1>7, <2>2, <2>3, <2>5 DEF AskForTools, Shape, Keep, Conversation
<1>8. CASE ModelFails
  BY <1>8 DEF ModelFails, Shape, Fail, Keep
<1>9. CASE RejectCall
  <2>1. AnswerId(calls[next]) \in Ids
    <3>1. next \in 1..Len(calls)
      BY <1>9 DEF RejectCall, Shape
    <3> QED BY <3>1, AnswerIdType
  <2>2. /\ ToolMessage(AnswerId(calls[next]), ErrorBytes) \in Message
        /\ ToolMessage(AnswerId(calls[next]), ErrorBytes).role = "tool"
    BY <2>1, MessageTypes, LimitsAssumption DEF ToolMessage
  <2>3. Conversation(messages)'
    BY <1>9, <2>2, AppendActivity DEF RejectCall, Shape
  <2>4. next' \in Nat /\ next' >= 1
    BY <1>9 DEF RejectCall, Shape
  <2>5. TypeOK'
    BY <1>9, <2>3, <2>4 DEF RejectCall, Keep, Conversation
  <2>6. Shape'
    BY <1>9, <2>3, <2>4 DEF RejectCall, Shape
  <2> QED BY <2>5, <2>6
<1>10. CASE SendCall
  <2>1. toolCalls + 1 \in 0..MaxTotalToolCalls
    BY <1>10, LimitsAssumption DEF SendCall, Valid
  <2>2. calls[next].tool \in Tools
    <3>1. calls[next] \in Call
      BY <1>10 DEF SendCall, Shape
    <3> QED BY <3>1 DEF Call
  <2> QED BY <1>10, <2>1, <2>2 DEF SendCall, Shape, Keep, Conversation
<1>11. CASE ToolReturns
  <2>1. PICK bytes \in ResultBytes, structured \in BOOLEAN, isError \in BOOLEAN :
           messages' = Append(messages, ToolMessage(AnswerId(calls[next]),
                                  ResultMessageBytes(bytes, structured, isError)))
    BY <1>11 DEF ToolReturns
  <2>2. AnswerId(calls[next]) \in Ids
    BY <1>11, AnswerIdType DEF ToolReturns, Shape
  <2> DEFINE m == ToolMessage(AnswerId(calls[next]), ResultMessageBytes(bytes, structured, isError))
  <2>3. m \in Message /\ m.role = "tool"
    BY <2>2, MessageTypes, ResultLength DEF ToolMessage
  <2>4. Conversation(messages)'
    BY <1>11, <2>1, <2>3, AppendActivity DEF ToolReturns, Shape
  <2> QED BY <1>11, <2>4 DEF ToolReturns, Shape, Keep, Conversation
<1>12. CASE ToolFails
  BY <1>12 DEF ToolFails, Shape, Fail, Keep
<1>13. CASE EndRound
  <2>1. round + 1 \in 0..MaxModelRounds + 1
    BY <1>13, LimitsAssumption DEF EndRound, Shape
  <2> QED BY <1>13, <2>1 DEF EndRound, Shape, Keep, Conversation
<1>14. CASE Cancel
  BY <1>14 DEF Cancel, Shape, Keep, Conversation
<1>15. CASE UNCHANGED vars
  BY <1>15 DEF vars, Shape, Conversation
<1> QED
  BY <1>1, <1>2, <1>3, <1>4, <1>5, <1>6, <1>7, <1>8, <1>9, <1>10, <1>11, <1>12, <1>13, <1>14, <1>15
  DEF Next, Local, Model, Server, Terminated

(* Every variable keeps its type, and the loop counts no more than         *)
(* MaxModelRounds + 1 rounds, whatever the model and the servers answer.   *)
THEOREM TypeCorrect == Spec => []TypeOK
<1>1. Init => TypeInv
  BY InitTypes
<1>2. TypeInv /\ [Next]_vars => TypeInv'
  BY NextTypes
<1>3. TypeInv => TypeOK
  BY DEF TypeInv
<1> QED BY <1>1, <1>2, <1>3, PTL DEF Spec
-----------------------------------------------------------------------------
(* What was asked of the servers stays within the budget, and every tool   *)
(* asked for was discovered and is part of the profile (toolcall.go:55,    *)
(* 84-90): the counter counts the requests, across all rounds.             *)
LEMMA NextPolicy == TypeInv /\ Policy /\ [Next]_vars => Policy'
<1> SUFFICES ASSUME TypeInv, Policy, [Next]_vars PROVE Policy'
  OBVIOUS
<1> USE DEF Policy
<1>1. CASE Start
  BY <1>1, ExposedAreTools DEF Start, Keep
<1>2. CASE SendCall
  <2>1. /\ sent' = Append(sent, calls[next].tool) /\ toolCalls' = toolCalls + 1
        /\ calls[next].tool \in exposed
        /\ exposed' = exposed /\ discovered' = discovered
    BY <1>2 DEF SendCall, Valid, Keep
  <2>2. sent \in Seq(Tools) /\ calls[next].tool \in Tools
    BY <2>1 DEF TypeInv, TypeOK
  <2>3. /\ Len(sent') = Len(sent) + 1
        /\ sent'[Len(sent) + 1] = calls[next].tool
        /\ \A i \in 1..Len(sent) : sent'[i] = sent[i]
    BY <2>1, <2>2
  <2> QED BY <2>1, <2>2, <2>3
<1>3. CASE UNCHANGED <<sent, toolCalls, exposed, discovered>>
  BY <1>3
<1> QED
  BY <1>1, <1>2, <1>3 DEF Next, Local, Model, Server, Terminated, vars, Keep, BeginRound, RoundLimit,
     DropOldest, Complete, Answer, AskForTools, ModelFails, RejectCall, ToolReturns, ToolFails,
     EndRound, Cancel

(* No session asks the servers for more than MaxTotalToolCalls tools, nor  *)
(* for one that was not discovered and is not in its profile.              *)
THEOREM ExecutionWithinPolicy == Spec => []ExecutionPolicy
<1>1. Init => TypeInv /\ Policy
  BY InitTypes DEF Init, Policy
<1>2. (TypeInv /\ Policy) /\ [Next]_vars => (TypeInv /\ Policy)'
  BY NextTypes, NextPolicy
<1>3. TypeInv /\ Policy => ExecutionPolicy
  BY LimitsAssumption DEF TypeInv, TypeOK, Policy, ExecutionPolicy, InProfile
<1> QED BY <1>1, <1>2, <1>3, PTL DEF Spec
-----------------------------------------------------------------------------
(* The exchange under way: the last assistant message asked for the calls  *)
(* c, of which n - 1 have been answered, in order; all before it is whole. *)
Underway(s, c, n) ==
    \E a \in 3..Len(s) :
        /\ a = Len(s) - n + 1
        /\ s[a].role = "assistant" /\ s[a].calls = c
        /\ \A k \in a+1..Len(s) : s[k].role = "tool"
        /\ \A j \in 1..a-1 : s[j].role = "assistant" =>
              /\ j + Len(s[j].calls) < a
              /\ \A k \in j+1..j+Len(s[j].calls) : s[k].role = "tool"

(* A reply opens an exchange (agent.go:275). *)
LEMMA OpenExchange ==
    ASSUME NEW s \in Seq(Message), Whole(s), Len(s) >= 2,
           NEW m \in Message, m.role = "assistant"
    PROVE  ResultsFollowCalls(Append(s, m)) /\ Underway(Append(s, m), m.calls, 1)
<1> DEFINE t == Append(s, m)
<1>1. /\ Len(s) \in Nat /\ Len(t) = Len(s) + 1 /\ t[Len(s) + 1] = m
      /\ \A i \in 1..Len(s) : t[i] = s[i]
  OBVIOUS
<1> HIDE DEF t
<1>2. ResultsFollowCalls(t)
  <2> SUFFICES ASSUME NEW i \in 1..Len(t), t[i].role = "tool"
               PROVE \E j \in 1..i-1 :
                        /\ t[j].role = "assistant"
                        /\ i - j <= Len(t[j].calls)
                        /\ \A k \in j+1..i : t[k].role = "tool"
                        /\ t[j].calls[i - j].id # NoId => t[i].id = t[j].calls[i - j].id
    BY DEF ResultsFollowCalls
  <2>1. i \in 1..Len(s) /\ s[i].role = "tool"
    BY <1>1
  <2>2. PICK j \in 1..i-1 :
            /\ s[j].role = "assistant"
            /\ i - j <= Len(s[j].calls)
            /\ \A k \in j+1..i : s[k].role = "tool"
            /\ s[j].calls[i - j].id # NoId => s[i].id = s[j].calls[i - j].id
    BY <2>1 DEF Whole, ResultsFollowCalls
  <2>3. \A k \in j..i : k \in 1..Len(s)
    BY <2>1
  <2>4. \A k \in j..i : t[k] = s[k]
    BY <1>1, <2>3
  <2>5. t[j] = s[j] /\ t[i] = s[i]
    BY <2>2, <2>4
  <2>6. \A k \in j+1..i : t[k].role = "tool"
    BY <2>2, <2>4
  <2> QED BY <2>2, <2>5, <2>6
<1>3. Underway(t, m.calls, 1)
  <2> DEFINE a == Len(s) + 1
  <2>1. a \in 3..Len(t) /\ a = Len(t) - 1 + 1 /\ t[a].role = "assistant" /\ t[a].calls = m.calls
    BY <1>1
  <2>2. \A k \in a+1..Len(t) : t[k].role = "tool"
    BY <1>1
  <2>3. ASSUME NEW j \in 1..a-1, t[j].role = "assistant"
        PROVE  /\ j + Len(t[j].calls) < a
               /\ \A k \in j+1..j+Len(t[j].calls) : t[k].role = "tool"
    <3>1. j \in 1..Len(s) /\ t[j] = s[j]
      BY <1>1
    <3>2. PICK n \in Nat : n = Len(s[j].calls)
      BY <3>1, CallsLength
    <3>3. j + n <= Len(s) /\ \A k \in j+1..j+n : s[k].role = "tool"
      BY <2>3, <3>1, <3>2 DEF Whole, CallsAnswered
    <3>4. \A k \in j+1..j+n : k \in 1..Len(s)
      BY <3>3
    <3> QED BY <1>1, <3>1, <3>2, <3>3, <3>4
  <2> QED BY <2>1, <2>2, <2>3 DEF Underway
<1> QED BY <1>2, <1>3 DEF t

(* An answer to the next call continues it (agent.go:282-288). *)
LEMMA AddAnswer ==
    ASSUME NEW s \in Seq(Message), ResultsFollowCalls(s),
           NEW c \in Seq(Call), NEW n \in 1..Len(c), Underway(s, c, n),
           NEW m \in Message, m.role = "tool", c[n].id # NoId => m.id = c[n].id
    PROVE  ResultsFollowCalls(Append(s, m)) /\ Underway(Append(s, m), c, n + 1)
<1> DEFINE t == Append(s, m)
<1>1. /\ Len(s) \in Nat /\ Len(t) = Len(s) + 1 /\ t[Len(s) + 1] = m
      /\ \A i \in 1..Len(s) : t[i] = s[i]
  OBVIOUS
<1> HIDE DEF t
<1>2. PICK a \in 3..Len(s) :
        /\ a = Len(s) - n + 1
        /\ s[a].role = "assistant" /\ s[a].calls = c
        /\ \A k \in a+1..Len(s) : s[k].role = "tool"
        /\ \A j \in 1..a-1 : s[j].role = "assistant" =>
              /\ j + Len(s[j].calls) < a
              /\ \A k \in j+1..j+Len(s[j].calls) : s[k].role = "tool"
  BY DEF Underway
<1>3. ResultsFollowCalls(t)
  <2> SUFFICES ASSUME NEW i \in 1..Len(t), t[i].role = "tool"
               PROVE \E j \in 1..i-1 :
                        /\ t[j].role = "assistant"
                        /\ i - j <= Len(t[j].calls)
                        /\ \A k \in j+1..i : t[k].role = "tool"
                        /\ t[j].calls[i - j].id # NoId => t[i].id = t[j].calls[i - j].id
    BY DEF ResultsFollowCalls
  <2>1. CASE i <= Len(s)
    <3>1. i \in 1..Len(s) /\ s[i].role = "tool"
      BY <1>1, <2>1
    <3>2. PICK j \in 1..i-1 :
            /\ s[j].role = "assistant"
            /\ i - j <= Len(s[j].calls)
            /\ \A k \in j+1..i : s[k].role = "tool"
            /\ s[j].calls[i - j].id # NoId => s[i].id = s[j].calls[i - j].id
      BY <3>1 DEF ResultsFollowCalls
    <3>3. \A k \in j..i : k \in 1..Len(s)
      BY <3>1
    <3>4. \A k \in j..i : t[k] = s[k]
      BY <1>1, <3>3
    <3>5. t[j] = s[j] /\ t[i] = s[i]
      BY <3>2, <3>4
    <3>6. \A k \in j+1..i : t[k].role = "tool"
      BY <3>2, <3>4
    <3> QED BY <3>2, <3>5, <3>6
  <2>2. CASE i = Len(s) + 1
    <3>0. PICK l \in Nat : l = Len(s) /\ a = l - n + 1 /\ i = l + 1
      BY <1>1, <1>2, <2>2
    <3>1. a \in 1..i-1 /\ i - a = n /\ t[a] = s[a] /\ t[i] = m
      <4>1. a \in 1..i-1 /\ i - a = n
        BY <3>0
      <4>2. t[a] = s[a] /\ t[i] = m
        BY <1>1, <2>2
      <4> QED BY <4>1, <4>2
    <3>2. ASSUME NEW k \in a+1..i PROVE t[k].role = "tool"
      <4>1. CASE k = i
        BY <3>1, <4>1
      <4>2. CASE k < i
        <5>1. k \in a+1..Len(s) /\ k \in 1..Len(s)
          BY <2>2, <4>2
        <5> QED BY <1>1, <1>2, <5>1
      <4> QED BY <4>1, <4>2
    <3>3. t[a].calls = c /\ t[a].role = "assistant"
      BY <1>2, <3>1
    <3>4. i - a <= Len(t[a].calls) /\ (t[a].calls[i - a].id # NoId => t[i].id = t[a].calls[i - a].id)
      BY <3>1, <3>3
    <3> QED BY <3>1, <3>2, <3>3, <3>4
  <2>3. i <= Len(s) \/ i = Len(s) + 1
    <3>1. PICK l \in Nat : l = Len(s) /\ i \in 1..l + 1
      BY <1>1
    <3>2. i <= l \/ i = l + 1
      BY <3>1
    <3> QED BY <3>1, <3>2
  <2> QED BY <2>1, <2>2, <2>3
<1>4. Underway(t, c, n + 1)
  <2>1. a \in 3..Len(t) /\ a = Len(t) - (n + 1) + 1
    BY <1>1, <1>2
  <2>2. t[a].role = "assistant" /\ t[a].calls = c
    <3>1. a \in 1..Len(s)
      OBVIOUS
    <3>2. t[a] = s[a]
      BY <1>1, <3>1
    <3> QED BY <1>2, <3>2
  <2>3. ASSUME NEW k \in a+1..Len(t) PROVE t[k].role = "tool"
    <3>1. CASE k = Len(s) + 1
      BY <1>1, <3>1
    <3>2. CASE k # Len(s) + 1
      <4>1. k \in a+1..Len(s) + 1
        BY <1>1
      <4>2. PICK l \in Nat : l = Len(s)
        BY <1>1
      <4>3. k \in 1..Len(s) /\ k \in a+1..Len(s)
        BY <3>2, <4>1, <4>2
      <4>4. t[k] = s[k] /\ s[k].role = "tool"
        BY <1>1, <1>2, <4>3
      <4> QED BY <4>4
    <3> QED BY <3>1, <3>2
  <2>4. ASSUME NEW j \in 1..a-1, t[j].role = "assistant"
        PROVE  /\ j + Len(t[j].calls) < a
               /\ \A k \in j+1..j+Len(t[j].calls) : t[k].role = "tool"
    <3>1. j \in 1..Len(s) /\ t[j] = s[j]
      BY <1>1
    <3>2. PICK l \in Nat : l = Len(s[j].calls)
      BY <3>1, CallsLength
    <3>3. j + l < a /\ \A k \in j+1..j+l : s[k].role = "tool"
      BY <1>2, <2>4, <3>1, <3>2
    <3>4. \A k \in j+1..j+l : k \in 1..Len(s)
      BY <3>3
    <3> QED BY <1>1, <3>1, <3>2, <3>3, <3>4
  <2> QED BY <2>1, <2>2, <2>3, <2>4 DEF Underway
<1> QED BY <1>3, <1>4 DEF t

(* With the last answer the exchange is whole (agent.go:289). *)
LEMMA CloseExchange ==
    ASSUME NEW s \in Seq(Message), ResultsFollowCalls(s),
           NEW c \in Seq(Call), NEW n \in Nat, n = Len(c) + 1, Underway(s, c, n)
    PROVE  Whole(s)
<1>1. PICK a \in 3..Len(s) :
        /\ a = Len(s) - n + 1
        /\ s[a].role = "assistant" /\ s[a].calls = c
        /\ \A k \in a+1..Len(s) : s[k].role = "tool"
        /\ \A j \in 1..a-1 : s[j].role = "assistant" =>
              /\ j + Len(s[j].calls) < a
              /\ \A k \in j+1..j+Len(s[j].calls) : s[k].role = "tool"
  BY DEF Underway
<1>2. ASSUME NEW j \in 1..Len(s), s[j].role = "assistant"
      PROVE  /\ j + Len(s[j].calls) <= Len(s)
             /\ \A k \in j+1..j+Len(s[j].calls) : s[k].role = "tool"
  <2>1. PICK l \in Nat : l = Len(s[j].calls)
    BY CallsLength
  <2>2. CASE j < a
    <3>1. j \in 1..a-1
      BY <2>2
    <3>2. j + l < a /\ \A k \in j+1..j+l : s[k].role = "tool"
      BY <1>1, <1>2, <2>1, <3>1
    <3>3. j + l <= Len(s)
      BY <3>2
    <3> QED BY <2>1, <3>2, <3>3
  <2>3. CASE j = a
    BY <1>1, <2>1, <2>3
  <2>4. CASE j > a
    <3>1. j \in a+1..Len(s)
      BY <2>4
    <3>2. s[j].role = "tool"
      BY <1>1, <3>1
    <3> QED BY <1>2, <3>2
  <2> QED BY <2>2, <2>3, <2>4
<1> QED BY <1>2 DEF Whole, CallsAnswered

(* Pruning drops one whole exchange (context.go:98-109). *)
LEMMA DropWhole ==
    ASSUME NEW s \in Seq(Message), Whole(s),
           \A i \in 1..Len(s) : s[i].role \in {"assistant", "tool"}
    PROVE  /\ Whole(DropOldestExchange(s))
           /\ \A i \in 1..Len(DropOldestExchange(s)) :
                 DropOldestExchange(s)[i].role \in {"assistant", "tool"}
<1> DEFINE t == DropOldestExchange(s)
<1>0. t \in Seq(Message)
  BY DropType
<1>1. CASE Len(s) = 0
  <2>1. Len(t) = 0
    <3>1. PICK d \in Nat : d = Cardinality(OldestExchange(s))
      BY DropType
    <3>2. t = SubSeq(s, d + 1, 0)
      BY <1>1, <3>1 DEF DropOldestExchange
    <3> QED BY <3>2
  <2> QED BY <1>0, <2>1 DEF Whole, ResultsFollowCalls, CallsAnswered
<1>2. CASE Len(s) > 0
  <2>1. s[1].role = "assistant"
    <3>1. s[1].role # "tool"
      BY <1>2 DEF Whole, ResultsFollowCalls
    <3> QED BY <1>2, <3>1
  <2>2. PICK n \in Nat : n = Len(s[1].calls)
    BY <1>2, CallsLength
  <2>3. 1 + n <= Len(s) /\ \A k \in 2..1+n : s[k].role = "tool"
    BY <1>2, <2>1, <2>2 DEF Whole, CallsAnswered
  <2>4. n + 2 <= Len(s) => s[n + 2].role # "tool"
    <3> SUFFICES ASSUME n + 2 <= Len(s), s[n + 2].role = "tool" PROVE FALSE
      OBVIOUS
    <3>1. PICK j \in 1..(n + 2) - 1 :
             /\ s[j].role = "assistant"
             /\ (n + 2) - j <= Len(s[j].calls)
      BY DEF Whole, ResultsFollowCalls
    <3>2. CASE j = 1
      BY <2>2, <3>1, <3>2
    <3>3. CASE j > 1
      BY <2>3, <3>1, <3>3
    <3> QED BY <3>2, <3>3
  <2>5. OldestExchange(s) = 1..n+1
    <3>1. ASSUME NEW k \in 1..Len(s), \A j \in 2..k : s[j].role = "tool" PROVE k <= n + 1
      BY <2>4, <3>1
    <3>2. ASSUME NEW k \in 1..n+1 PROVE k \in 1..Len(s) /\ \A j \in 2..k : s[j].role = "tool"
      BY <2>3
    <3> QED BY <3>1, <3>2 DEF OldestExchange
  <2>6. Cardinality(OldestExchange(s)) = n + 1
    BY <2>5, FS_Interval
  <2>7. /\ Len(t) = Len(s) - (n + 1)
        /\ \A i \in 1..Len(t) : t[i] = s[i + (n + 1)]
    BY <2>3, <2>6 DEF DropOldestExchange
  <2> HIDE DEF t
  <2>8. Shifted(s, t, n + 1)
    BY <2>7 DEF Shifted
  <2>9. Whole(t)
    BY <1>0, <2>4, <2>7, <2>8, CutWhole
  <2>10. \A i \in 1..Len(t) : t[i].role \in {"assistant", "tool"}
    BY <1>0, <2>7
  <2> QED BY <2>9, <2>10 DEF t
<1> QED BY <1>1, <1>2
-----------------------------------------------------------------------------
(* The conversation is a run of whole exchanges whenever a prompt is made  *)
(* from it; while calls are run, its last exchange is under way.  What is  *)
(* cut from it, and what was sent, are whole exchanges too.                *)
WholeInv ==
    /\ ResultsFollowCalls(messages)
    /\ pc \in {"round", "prune", "model"} => CallsAnswered(messages)
    /\ pc \in {"calls", "tool"} => Underway(messages, calls, next)
    /\ pc \in {"calls", "tool"} => next \in 1..Len(calls) + 1
    /\ pc = "prune" => /\ Whole(tail)
                       /\ \A i \in 1..Len(tail) : tail[i].role \in {"assistant", "tool"}
    /\ Whole(prompt)

(* A conversation without messages has whole exchanges. *)
LEMMA EmptyWhole ==
    ASSUME NEW s, Len(s) = 0
    PROVE  Whole(s)
BY DEF Whole, ResultsFollowCalls, CallsAnswered

(* So a session starts with whole exchanges (agent.go:251-263). *)
LEMMA InitWhole == Init => WholeInv
<1> SUFFICES ASSUME Init PROVE WholeInv
  OBVIOUS
<1>1. Whole(messages) /\ Whole(prompt)
  BY EmptyWhole DEF Init
<1> QED BY <1>1 DEF Init, WholeInv, Whole

(* One step per action that touches the conversation, the tail or the      *)
(* prompt; the others keep all three.                                      *)
LEMMA NextWhole == TypeInv /\ TypeInv' /\ WholeInv /\ [Next]_vars => WholeInv'
<1> SUFFICES ASSUME TypeInv, TypeInv', WholeInv, [Next]_vars PROVE WholeInv'
  OBVIOUS
<1>1. CASE Start
  <2>1. CASE pc' = "failed"
    BY <1>1, <2>1 DEF Start, Fail, WholeInv, Whole
  <2>2. CASE pc' = "round"
    <3>1. messages' = <<SystemMessage, UserMessage>>
      BY <1>1, <2>2 DEF Start, Fail
    <3>2. Whole(messages')
      <4>1. /\ Len(messages') = 2
            /\ \A i \in 1..2 : messages'[i].role \notin {"assistant", "tool"}
        BY <3>1 DEF SystemMessage, UserMessage, Plain
      <4> QED BY <4>1 DEF Whole, ResultsFollowCalls, CallsAnswered
    <3> QED BY <1>1, <2>2, <3>2 DEF Start, WholeInv, Whole
  <2> QED BY <1>1, <2>1, <2>2 DEF Start, Fail
<1>2. CASE BeginRound
  <2>1. Conversation(messages) /\ Whole(messages)
    BY <1>2 DEF BeginRound, TypeInv, Shape, WholeInv, Whole
  <2>2. messages \in Seq(Message) /\ tail' \in Seq(Message)
    BY <2>1, <1>2, ActivityIsTheRest DEF Conversation, BeginRound
  <2>3. /\ Shifted(messages, tail', 2)
        /\ \A i \in 1..Len(tail') : tail'[i].role \in {"assistant", "tool"}
    BY <1>2, <2>1, ActivityIsTheRest DEF BeginRound
  <2>4. Len(tail') > 0 => messages[3].role # "tool"
    <3> SUFFICES ASSUME Len(tail') > 0, messages[3].role = "tool" PROVE FALSE
      OBVIOUS
    <3>1. 3 \in 1..Len(messages)
      BY <2>2, <2>3 DEF Shifted
    <3>2. PICK j \in 1..3-1 : messages[j].role = "assistant"
      BY <3>1, <2>1 DEF Whole, ResultsFollowCalls
    <3> QED BY <3>2, <2>1 DEF Conversation, SystemMessage, UserMessage, Plain
  <2>5. Whole(tail')
    <3>1. 2 \in Nat /\ 2 + 1 = 3
      OBVIOUS
    <3> QED BY <2>1, <2>2, <2>3, <2>4, <3>1, CutWhole
  <2> QED BY <1>2, <2>3, <2>5 DEF BeginRound, Fail, WholeInv, Whole
<1>3. CASE DropOldest
  <2>1. tail \in Seq(Message)
    BY DEF TypeInv, TypeOK
  <2>2. /\ Whole(tail')
        /\ \A i \in 1..Len(tail') : tail'[i].role \in {"assistant", "tool"}
    BY <1>3, <2>1, DropWhole DEF DropOldest, WholeInv
  <2> QED BY <1>3, <2>2 DEF DropOldest, WholeInv, Whole
<1>4. CASE Complete
  <2>1. Whole(prompt')
    <3>1. CASE cancelled
      BY <1>4, <3>1 DEF Complete, WholeInv
    <3>2. CASE ~cancelled
      <4>1. Conversation(messages) /\ tail \in Seq(Message) /\ Whole(tail)
        BY <1>4 DEF Complete, TypeInv, TypeOK, Shape, WholeInv
      <4>2. prompt' = <<SystemMessage, UserMessage>> \o tail
        BY <1>4, <3>2, <4>1, UserIndexIsTwo DEF Complete, Conversation
      <4>3. prompt' \in Seq(Message)
        BY DEF TypeInv, TypeOK
      <4>4. Len(prompt') = Len(tail) + 2 /\ \A i \in 1..Len(tail) : prompt'[i + 2] = tail[i]
        BY <4>1, <4>2
      <4>5. Shifted(prompt', tail, 2)
        BY <4>4 DEF Shifted
      <4>6. \A i \in 1..2 : prompt'[i].role \notin {"assistant", "tool"}
        <5>1. prompt'[1] = SystemMessage /\ prompt'[2] = UserMessage
          BY <4>1, <4>2
        <5> QED BY <5>1 DEF SystemMessage, UserMessage, Plain
      <4> QED BY <4>1, <4>3, <4>5, <4>6, PrependWhole
    <3> QED BY <3>1, <3>2
  <2> QED BY <1>4, <2>1 DEF Complete, Fail, WholeInv, Whole
<1>5. CASE Answer
  <2>1. PICK bytes \in ReplyBytes : messages' = Append(messages, Reply(<< >>, bytes))
    BY <1>5 DEF Answer
  <2>2. Reply(<< >>, bytes) \in Message /\ Reply(<< >>, bytes).role = "assistant"
    <3>1. << >> \in Seq(Call) /\ bytes \in Nat
      BY InputsAssumption
    <3> QED BY <3>1, MessageTypes DEF Reply
  <2>3. messages \in Seq(Message) /\ Len(messages) >= 2 /\ Whole(messages)
    BY <1>5 DEF Answer, TypeInv, Shape, Conversation, WholeInv, Whole
  <2>4. ResultsFollowCalls(messages')
    BY <2>1, <2>2, <2>3, OpenExchange
  <2> QED BY <1>5, <2>4 DEF Answer, WholeInv, Whole
<1>6. CASE AskForTools
  <2>1. PICK n \in 1..MaxReplyCalls, bytes \in ReplyBytes :
           \E requested \in [1..n -> Requests] :
              calls' = requested /\ messages' = Append(messages, Reply(requested, bytes))
    BY <1>6 DEF AskForTools
  <2>2. calls' \in Seq(Call) /\ messages' = Append(messages, Reply(calls', bytes))
    BY <2>1 DEF TypeInv, TypeOK
  <2>3. /\ Reply(calls', bytes) \in Message
        /\ Reply(calls', bytes).role = "assistant" /\ Reply(calls', bytes).calls = calls'
    BY <2>2, MessageTypes, InputsAssumption DEF Reply
  <2>4. messages \in Seq(Message) /\ Len(messages) >= 2 /\ Whole(messages)
    BY <1>6 DEF AskForTools, TypeInv, Shape, Conversation, WholeInv, Whole
  <2>5. ResultsFollowCalls(messages') /\ Underway(messages', calls', 1)
    BY <2>2, <2>3, <2>4, OpenExchange
  <2>6. 1 \in 1..Len(calls') + 1
    BY <2>2
  <2> QED BY <1>6, <2>5, <2>6 DEF AskForTools, WholeInv, Whole
<1>7. CASE RejectCall
  <2> DEFINE m == ToolMessage(AnswerId(calls[next]), ErrorBytes)
  <2>1. messages \in Seq(Message) /\ calls \in Seq(Call) /\ next \in 1..Len(calls)
    BY <1>7 DEF RejectCall, TypeInv, TypeOK, Shape
  <2>2. m \in Message /\ m.role = "tool"
    BY <2>1, AnswerIdType, MessageTypes, LimitsAssumption DEF ToolMessage, TypeInv
  <2>3. calls[next].id # NoId => m.id = calls[next].id
    BY DEF ToolMessage, AnswerId
  <2>4. ResultsFollowCalls(messages) /\ Underway(messages, calls, next)
    BY <1>7 DEF RejectCall, WholeInv
  <2>5. messages' = Append(messages, m) /\ next' = next + 1 /\ calls' = calls
    BY <1>7 DEF RejectCall
  <2>6. ResultsFollowCalls(messages') /\ Underway(messages', calls, next + 1)
    BY <2>1, <2>2, <2>3, <2>4, <2>5, AddAnswer
  <2>7. next' \in 1..Len(calls') + 1
    BY <2>1, <2>5
  <2> QED BY <1>7, <2>5, <2>6, <2>7 DEF RejectCall, WholeInv, Whole
<1>8. CASE SendCall
  BY <1>8 DEF SendCall, WholeInv, Whole
<1>9. CASE ToolReturns
  <2>1. PICK bytes \in ResultBytes, structured \in BOOLEAN, isError \in BOOLEAN :
           messages' = Append(messages, ToolMessage(AnswerId(calls[next]),
                                  ResultMessageBytes(bytes, structured, isError)))
    BY <1>9 DEF ToolReturns
  <2> DEFINE m == ToolMessage(AnswerId(calls[next]), ResultMessageBytes(bytes, structured, isError))
  <2>2. messages \in Seq(Message) /\ calls \in Seq(Call) /\ next \in 1..Len(calls)
    BY <1>9 DEF ToolReturns, TypeInv, TypeOK, Shape
  <2>3. m \in Message /\ m.role = "tool"
    BY <2>2, AnswerIdType, MessageTypes, ResultLength DEF ToolMessage, TypeInv
  <2>4. calls[next].id # NoId => m.id = calls[next].id
    BY DEF ToolMessage, AnswerId
  <2>5. ResultsFollowCalls(messages) /\ Underway(messages, calls, next)
    BY <1>9 DEF ToolReturns, WholeInv
  <2>6. messages' = Append(messages, m) /\ next' = next + 1 /\ calls' = calls
    BY <1>9, <2>1 DEF ToolReturns
  <2>7. ResultsFollowCalls(messages') /\ Underway(messages', calls, next + 1)
    BY <2>2, <2>3, <2>4, <2>5, <2>6, AddAnswer
  <2>8. next' \in 1..Len(calls') + 1
    BY <2>2, <2>6
  <2> QED BY <1>9, <2>6, <2>7, <2>8 DEF ToolReturns, WholeInv, Whole
<1>10. CASE EndRound
  <2>1. messages \in Seq(Message) /\ calls \in Seq(Call) /\ next \in Nat
    BY DEF TypeInv, TypeOK
  <2>2. next = Len(calls) + 1 /\ Underway(messages, calls, next) /\ ResultsFollowCalls(messages)
    BY <1>10, <2>1 DEF EndRound, WholeInv
  <2>3. Whole(messages)
    BY <2>1, <2>2, CloseExchange
  <2> QED BY <1>10, <2>3 DEF EndRound, WholeInv, Whole
<1>11. CASE RoundLimit \/ ModelFails \/ ToolFails
  BY <1>11 DEF RoundLimit, ModelFails, ToolFails, Fail, WholeInv, Whole
<1>12. CASE Cancel
  BY <1>12 DEF Cancel, WholeInv, Whole
<1>13. CASE UNCHANGED vars
  BY <1>13 DEF vars, WholeInv, Whole
<1> QED
  BY <1>1, <1>2, <1>3, <1>4, <1>5, <1>6, <1>7, <1>8, <1>9, <1>10, <1>11, <1>12, <1>13
  DEF Next, Local, Model, Server, Terminated

LEMMA WholeThroughout == Spec => [](TypeInv /\ WholeInv)
<1>1. Init => TypeInv /\ WholeInv
  BY InitTypes, InitWhole
<1>2. (TypeInv /\ WholeInv) /\ [Next]_vars => (TypeInv /\ WholeInv)'
  BY NextTypes, NextWhole
<1> QED BY <1>1, <1>2, PTL DEF Spec

(* However calls are rejected, fail or succeed, every tool result of the   *)
(* conversation stands behind the call it answers, in the place of that    *)
(* call among the calls of its message (the order Loop runs them in).      *)
THEOREM ConversationStaysWhole == Spec => []ConversationWellFormed
<1>1. TypeInv /\ WholeInv => ConversationWellFormed
  BY DEF WholeInv, Whole, ConversationWellFormed
<1> QED BY <1>1, WholeThroughout, PTL

(* Whatever pruneMessages drops to fit the context, no tool result is ever *)
(* sent without its call, and no call is sent without its results.         *)
THEOREM ExchangesStayWhole == Spec => []PromptWellFormed
<1>1. TypeInv /\ WholeInv => PromptWellFormed
  BY DEF WholeInv, Whole, PromptWellFormed
<1> QED BY <1>1, WholeThroughout, PTL
-----------------------------------------------------------------------------
(* Every set of natural numbers has a least one: what induction over the   *)
(* messages of a sequence needs.                                           *)
LEMMA LeastNatural ==
    ASSUME NEW T, T \subseteq Nat, T # {}
    PROVE  \E x \in T : \A y \in T : x <= y
<1> DEFINE R == {p \in Nat \X Nat : p[1] < p[2]}
<1>1. R = OpToRel(<, Nat)
  BY DEF OpToRel
<1>2. IsWellFoundedOn(R, Nat)
  BY <1>1, NatLessThanWellFounded, Zenon
<1>3. PICK x \in T : \A y \in T : <<y, x>> \notin R
  <2> HIDE DEF R
  <2> QED BY <1>2, WFMin
<1>4. ASSUME NEW y \in T PROVE x <= y
  <2>1. <<y, x>> \in Nat \X Nat /\ <<y, x>>[1] = y /\ <<y, x>>[2] = x
    OBVIOUS
  <2>2. ~(y < x)
    BY <1>3, <2>1
  <2> QED BY <2>1, <2>2
<1> QED BY <1>4

(* A message takes a number of tokens (context.go:118-124). *)
LEMMA MessageTokensType ==
    ASSUME NEW m \in Message
    PROVE  MessageTokens(m) \in Nat
<1>1. /\ m.bytes \in Nat /\ m.calls \in Seq(Call) /\ CallTokens \in Nat
  BY LimitsAssumption DEF Message
<1>2. EstimateTokens(m.bytes) \in Nat
  BY <1>1 DEF EstimateTokens
<1>3. \A a, b \in Nat : a * b \in Nat
  OBVIOUS
<1>4. CallTokens * Len(m.calls) \in Nat
  BY <1>1, <1>3
<1> QED BY <1>2, <1>4 DEF MessageTokens

(* The loop that adds up the tokens of a conversation ends with a number,  *)
(* however long the conversation is (context.go:78-82).                    *)
LEMMA UsedType ==
    ASSUME NEW s \in Seq(Message)
    PROVE  Used(s) \in Nat
<1> DEFINE Adds(u, n) ==
             u = [i \in 0..n |-> IF i = 0 THEN 0 ELSE u[i - 1] + MessageTokens(s[i])]
           Counts(n) == \E u \in [0..n -> Nat] : Adds(u, n)
           T == {n \in 0..Len(s) : ~Counts(n)}
<1>1. \A i \in 1..Len(s) : MessageTokens(s[i]) \in Nat
  BY MessageTokensType
<1>2. ASSUME T # {} PROVE FALSE
  <2>1. PICK n \in T : \A k \in T : n <= k
    <3>1. T \subseteq Nat
      OBVIOUS
    <3> HIDE DEF T
    <3> QED BY <1>2, <3>1, LeastNatural
  <2>2. n \in 0..Len(s) /\ ~Counts(n) /\ \A k \in 0..Len(s) : k < n => Counts(k)
    <3> HIDE DEF Counts
    <3> QED BY <2>1
  <2>3. CASE n = 0
    <3>1. \E u \in [0..0 -> Nat] : Adds(u, 0)
      <4>1. [i \in 0..0 |-> 0] \in [0..0 -> Nat]
        OBVIOUS
      <4>2. Adds([i \in 0..0 |-> 0], 0)
        OBVIOUS
      <4> QED BY <4>1, <4>2
    <3>2. Counts(0)
      BY <3>1
    <3> QED BY <2>2, <2>3, <3>2
  <2>4. CASE n # 0
    <3>1. n - 1 \in 0..Len(s) /\ n \in 1..Len(s) /\ Counts(n - 1)
      <4> HIDE DEF Counts
      <4> QED BY <2>2, <2>4
    <3>2. PICK u \in [0..n-1 -> Nat] : Adds(u, n - 1)
      BY <3>1
    <3> DEFINE v == [i \in 0..n |-> IF i = n THEN u[n - 1] + MessageTokens(s[n]) ELSE u[i]]
    <3>3. u[n - 1] + MessageTokens(s[n]) \in Nat
      BY <1>1, <3>1, <3>2
    <3>4. v \in [0..n -> Nat]
      BY <3>1, <3>3
    <3>5. ASSUME NEW i \in 0..n
          PROVE  v[i] = IF i = 0 THEN 0 ELSE v[i - 1] + MessageTokens(s[i])
      <4>1. CASE i = n
        BY <3>1, <4>1
      <4>2. CASE i # n
        <5>1. i \in 0..n-1 /\ (i # 0 => i - 1 \in 0..n-1 /\ i - 1 # n)
          BY <3>1, <4>2
        <5>2. u[i] = IF i = 0 THEN 0 ELSE u[i - 1] + MessageTokens(s[i])
          BY <3>2, <5>1
        <5>3. v[i] = u[i] /\ (i # 0 => v[i - 1] = u[i - 1])
          BY <4>2, <5>1
        <5> QED BY <5>2, <5>3
      <4> QED BY <4>1, <4>2
    <3>6. Adds(v, n)
      BY <3>4, <3>5
    <3> QED BY <2>2, <3>4, <3>6
  <2> QED BY <2>3, <2>4
<1> DEFINE used == CHOOSE u : Adds(u, Len(s))
<1>3. Len(s) \in 0..Len(s) /\ Counts(Len(s))
  <2> HIDE DEF Counts
  <2> QED BY <1>2
<1>4. Adds(used, Len(s))
  <2>1. \E u : Adds(u, Len(s))
    BY <1>3
  <2> HIDE DEF Adds
  <2> QED BY <2>1, Zenon
<1> DEFINE Bad == {i \in 0..Len(s) : used[i] \notin Nat}
<1>5. used[0] = 0 /\ \A i \in 1..Len(s) : used[i] = used[i - 1] + MessageTokens(s[i])
  <2> HIDE DEF used
  <2> QED BY <1>4
<1> HIDE DEF used
<1>6. Bad = {}
  <2> SUFFICES ASSUME Bad # {} PROVE FALSE
    OBVIOUS
  <2>1. PICK i \in Bad : \A k \in Bad : i <= k
    <3>1. Bad \subseteq Nat
      OBVIOUS
    <3> HIDE DEF Bad
    <3> QED BY <3>1, LeastNatural
  <2>2. i \in 1..Len(s) /\ i - 1 \in 0..Len(s) /\ i - 1 \notin Bad
    BY <1>5, <2>1
  <2>3. used[i - 1] \in Nat /\ used[i] = used[i - 1] + MessageTokens(s[i])
    BY <1>5, <2>2
  <2> QED BY <1>1, <2>1, <2>2, <2>3
<1>7. Used(s) = used[Len(s)]
  BY DEF Used, used
<1> QED BY <1>3, <1>6, <1>7
-----------------------------------------------------------------------------
(* The end of a conversation, from the k-th message on. *)
From(s, k) == SubSeq(s, k, Len(s))
Fits(s) == Used(s) <= Budget

(* t is what is left of s after dropping whole exchanges that did not fit. *)
CutAt(s, c, t) ==
    /\ t = From(s, c)
    /\ \A k \in 1..c-1 : s[k].role # "tool" => ~Fits(From(s, k))
Pruned(s, t) == \E c \in 1..Len(s) + 1 : CutAt(s, c, t)

(* While pruneMessages drops, only what cannot stay has been dropped; what *)
(* was sent is the activity it stopped at (context.go:76-94).              *)
HistoryInv ==
    /\ pc \in {"prune", "model"} => Pruned(Activity(messages), tail)
    /\ pc = "model" => /\ Fits(tail)
                       /\ SubSeq(prompt, 3, Len(prompt)) = tail

(* Ends of conversations. *)
LEMMA FromProperties ==
    ASSUME NEW s \in Seq(Message), NEW k \in 1..Len(s) + 1
    PROVE  /\ From(s, k) \in Seq(Message)
           /\ Len(From(s, k)) = Len(s) - k + 1
           /\ \A i \in 1..Len(s) - k + 1 : From(s, k)[i] = s[k + i - 1]
<1>1. \A i \in k..Len(s) : s[i] \in Message
  OBVIOUS
<1>2. k \in Int /\ Len(s) \in Int
  OBVIOUS
<1>3. /\ SubSeq(s, k, Len(s)) \in Seq(Message)
      /\ Len(SubSeq(s, k, Len(s))) = IF k <= Len(s) THEN Len(s) - k + 1 ELSE 0
      /\ \A i \in 1..Len(s) - k + 1 : SubSeq(s, k, Len(s))[i] = s[k + i - 1]
  BY <1>1, <1>2, SubSeqProperties
<1> QED BY <1>3 DEF From

(* The end of an end is an end. *)
LEMMA FromOfFrom ==
    ASSUME NEW s \in Seq(Message), NEW c \in 1..Len(s) + 1,
           NEW k \in 1..Len(s) - c + 2
    PROVE  From(From(s, c), k) = From(s, c + k - 1)
<1> DEFINE t == From(s, c)
<1>1. /\ t \in Seq(Message) /\ Len(t) = Len(s) - c + 1
      /\ \A i \in 1..Len(s) - c + 1 : t[i] = s[c + i - 1]
  BY FromProperties
<1> HIDE DEF t
<1>2. k \in 1..Len(t) + 1 /\ c + k - 1 \in 1..Len(s) + 1
  BY <1>1
<1>3. /\ From(t, k) \in Seq(Message) /\ Len(From(t, k)) = Len(t) - k + 1
      /\ \A i \in 1..Len(t) - k + 1 : From(t, k)[i] = t[k + i - 1]
  BY <1>1, <1>2, FromProperties
<1>4. /\ From(s, c + k - 1) \in Seq(Message)
      /\ Len(From(s, c + k - 1)) = Len(s) - (c + k - 1) + 1
      /\ \A i \in 1..Len(s) - (c + k - 1) + 1 :
            From(s, c + k - 1)[i] = s[(c + k - 1) + i - 1]
  BY <1>2, FromProperties
<1>5. Len(From(t, k)) = Len(From(s, c + k - 1))
  BY <1>1, <1>3, <1>4
<1>6. ASSUME NEW i \in 1..Len(From(t, k)) PROVE From(t, k)[i] = From(s, c + k - 1)[i]
  <2>1. i \in 1..Len(t) - k + 1 /\ i \in 1..Len(s) - (c + k - 1) + 1
        /\ k + i - 1 \in 1..Len(s) - c + 1
    BY <1>1, <1>3
  <2>2. c + (k + i - 1) - 1 = (c + k - 1) + i - 1
    BY <2>1
  <2> QED BY <1>1, <1>3, <1>4, <2>1, <2>2
<1>7. From(t, k) = From(s, c + k - 1)
  <2>1. From(t, k) \in Seq(Message) /\ From(s, c + k - 1) \in Seq(Message)
    BY <1>3, <1>4
  <2> QED BY <1>5, <1>6, <2>1, SeqEqual
<1> QED BY <1>7 DEF t

(* What goes is a message and results behind it (context.go:100-109). *)
LEMMA DropIsCut ==
    ASSUME NEW s \in Seq(Message), Whole(s),
           \A i \in 1..Len(s) : s[i].role \in {"assistant", "tool"}
    PROVE  \E d \in 0..Len(s) :
              /\ DropOldestExchange(s) = From(s, d + 1)
              /\ \A i \in 2..d : s[i].role = "tool"
<1>1. IsFiniteSet(OldestExchange(s)) /\ IsFiniteSet(1..Len(s)) /\ Cardinality(1..Len(s)) = Len(s)
  <2>1. OldestExchange(s) \subseteq 1..Len(s) /\ 1 \in Int /\ Len(s) \in Nat
    BY DEF OldestExchange
  <2>2. PICK l \in Nat : l = Len(s)
    OBVIOUS
  <2>3. IsFiniteSet(1..l) /\ Cardinality(1..l) = l
    BY FS_Interval
  <2> QED BY <2>1, <2>2, <2>3, FS_Subset
<1>2. PICK d \in Nat : d = Cardinality(OldestExchange(s))
  BY <1>1, FS_CardinalityType
<1>3. OldestExchange(s) \subseteq 1..Len(s)
  BY DEF OldestExchange
<1>4. d <= Len(s)
  BY <1>1, <1>2, <1>3, FS_Subset
<1>5. ASSUME NEW i \in 2..d PROVE s[i].role = "tool"
  <2> SUFFICES ASSUME s[i].role # "tool" PROVE FALSE
    OBVIOUS
  <2>1. OldestExchange(s) \subseteq 1..i-1
    <3> SUFFICES ASSUME NEW k \in OldestExchange(s), k >= i PROVE FALSE
      BY DEF OldestExchange
    <3>1. i \in 2..k
      BY DEF OldestExchange
    <3> QED BY <3>1 DEF OldestExchange
  <2>2. IsFiniteSet(1..i-1) /\ Cardinality(1..i-1) = i - 1
    <3>1. 1 \in Int /\ i - 1 \in Int /\ ~(1 > i - 1) /\ (i - 1) - 1 + 1 = i - 1
      OBVIOUS
    <3> QED BY <3>1, FS_Interval
  <2>3. d <= i - 1
    BY <1>2, <2>1, <2>2, FS_Subset
  <2> QED BY <2>3
<1> QED BY <1>2, <1>4, <1>5 DEF DropOldestExchange, From

(* No more is dropped than did not fit. *)
LEMMA DropPrunes ==
    ASSUME NEW s \in Seq(Message), NEW t, Pruned(s, t), Whole(t), ~Fits(t),
           \A i \in 1..Len(t) : t[i].role \in {"assistant", "tool"}
    PROVE  Pruned(s, DropOldestExchange(t))
<1>1. PICK c \in 1..Len(s) + 1 : CutAt(s, c, t)
  BY DEF Pruned
<1>2. /\ t = From(s, c) /\ t \in Seq(Message) /\ Len(t) = Len(s) - c + 1
      /\ \A i \in 1..Len(s) - c + 1 : t[i] = s[c + i - 1]
  BY <1>1, FromProperties DEF CutAt
<1>3. PICK d \in 0..Len(t) : /\ DropOldestExchange(t) = From(t, d + 1)
                             /\ \A i \in 2..d : t[i].role = "tool"
  BY <1>2, DropIsCut
<1>4. c + d \in 1..Len(s) + 1 /\ c + (d + 1) - 1 = c + d /\ d + 1 \in 1..Len(s) - c + 2
  BY <1>2
<1>5. DropOldestExchange(t) = From(s, c + d)
  BY <1>2, <1>3, <1>4, FromOfFrom
<1>6. ASSUME NEW k \in 1..(c + d) - 1, s[k].role # "tool" PROVE ~Fits(From(s, k))
  <2>1. CASE k < c
    <3>1. k \in 1..c-1
      BY <2>1
    <3> QED BY <1>1, <1>6, <3>1 DEF CutAt
  <2>2. CASE k = c
    BY <1>2, <2>2
  <2>3. CASE k > c
    <3>1. k - c + 1 \in 2..d /\ k - c + 1 \in 1..Len(s) - c + 1 /\ c + (k - c + 1) - 1 = k
      BY <1>2, <2>3
    <3>2. s[k].role = "tool"
      BY <1>2, <1>3, <3>1
    <3> QED BY <1>6, <3>2
  <2> QED BY <2>1, <2>2, <2>3
<1> QED BY <1>4, <1>5, <1>6 DEF Pruned, CutAt

(* Only a step of pruneMessages, or a new request, touches what the        *)
(* invariant speaks of; a prompt is only looked at while it is pending.    *)
LEMMA NextHistory ==
    TypeInv /\ TypeInv' /\ WholeInv /\ HistoryInv /\ [Next]_vars => HistoryInv'
<1> SUFFICES ASSUME TypeInv, TypeInv', WholeInv, HistoryInv, [Next]_vars PROVE HistoryInv'
  OBVIOUS
<1>1. CASE BeginRound
  <2>1. CASE pc' = "failed"
    BY <2>1 DEF HistoryInv
  <2>2. CASE pc' = "prune"
    <3>1. Conversation(messages) /\ messages' = messages /\ tail' = Activity(messages)
      BY <1>1 DEF BeginRound, TypeInv, Shape
    <3>2. Activity(messages) \in Seq(Message)
      BY <3>1, ActivityIsTheRest
    <3>3. 1 \in 1..Len(Activity(messages)) + 1
      BY <3>2
    <3>4. From(Activity(messages), 1) = Activity(messages)
      BY <3>2 DEF From
    <3>5. CutAt(Activity(messages), 1, Activity(messages))'
      BY <3>1, <3>4 DEF CutAt, From
    <3>6. Pruned(Activity(messages), tail)'
      BY <3>1, <3>3, <3>5 DEF Pruned
    <3> QED BY <2>2, <3>6 DEF HistoryInv
  <2> QED BY <1>1, <2>1, <2>2 DEF BeginRound, Fail
<1>2. CASE DropOldest
  <2>1. pc = "prune" /\ pc' = pc /\ messages' = messages /\ overhead' = overhead
        /\ tail' = DropOldestExchange(tail) /\ Used(tail) > Budget
    BY <1>2 DEF DropOldest, Keep
  <2>2. Activity(messages) \in Seq(Message) /\ tail \in Seq(Message)
    BY <2>1, ActivityIsTheRest DEF TypeInv, TypeOK, Shape
  <2>3. ~Fits(tail)
    <3>1. Used(tail) \in Int /\ Budget \in Int
      BY <2>2, UsedType, LimitsAssumption DEF Budget, TypeInv, TypeOK
    <3> QED BY <2>1, <3>1 DEF Fits
  <2>4. Pruned(Activity(messages), tail')
    BY <2>1, <2>2, <2>3, DropPrunes DEF WholeInv, HistoryInv
  <2>5. Pruned(Activity(messages), tail)'
    BY <2>1, <2>4 DEF Pruned, CutAt, Fits, Budget
  <2> QED BY <2>1, <2>5 DEF HistoryInv
<1>3. CASE Complete
  <2>1. CASE cancelled
    BY <1>3, <2>1 DEF Complete, Fail, HistoryInv
  <2>2. CASE ~cancelled
    <3>1. /\ pc = "prune" /\ pc' = "model" /\ messages' = messages /\ tail' = tail
          /\ overhead' = overhead /\ Used(tail) <= Budget
          /\ prompt' = <<messages[1], messages[UserIndex(messages)]>> \o tail
      BY <1>3, <2>2 DEF Complete, Keep
    <3>2. Pruned(Activity(messages), tail)'
      BY <3>1 DEF HistoryInv, Pruned, CutAt, Fits, Budget
    <3>3. tail \in Seq(Message) /\ prompt' \in Seq(Message)
      BY DEF TypeInv, TypeOK
    <3>4. SubSeq(prompt', 3, Len(prompt')) = tail
      <4>1. Len(prompt') = Len(tail) + 2 /\ \A i \in 1..Len(tail) : prompt'[i + 2] = tail[i]
        BY <3>1, <3>3
      <4>2. 3 \in 1..Len(prompt') + 1
        BY <4>1, <3>3
      <4>3. /\ From(prompt', 3) \in Seq(Message)
            /\ Len(From(prompt', 3)) = Len(prompt') - 3 + 1
            /\ \A i \in 1..Len(prompt') - 3 + 1 : From(prompt', 3)[i] = prompt'[3 + i - 1]
        BY <3>3, <4>2, FromProperties
      <4>4. Len(From(prompt', 3)) = Len(tail)
        BY <4>1, <4>3
      <4>5. ASSUME NEW i \in 1..Len(tail) PROVE From(prompt', 3)[i] = tail[i]
        <5>1. i \in 1..Len(prompt') - 3 + 1 /\ 3 + i - 1 = i + 2
          BY <4>1
        <5> QED BY <4>1, <4>3, <5>1
      <4>6. From(prompt', 3) = tail
        BY <3>3, <4>3, <4>4, <4>5
      <4> QED BY <4>6 DEF From
    <3>5. Fits(tail)'
      BY <3>1 DEF Fits, Budget
    <3> QED BY <3>1, <3>2, <3>4, <3>5 DEF HistoryInv
  <2> QED BY <2>1, <2>2
<1>4. CASE Start \/ RoundLimit \/ Answer \/ AskForTools \/ ModelFails \/ EndRound
           \/ ToolFails \/ SendCall \/ ToolReturns \/ RejectCall
  BY <1>4 DEF Start, RoundLimit, Answer, AskForTools, ModelFails, EndRound,
              ToolFails, SendCall, ToolReturns, RejectCall, Fail, HistoryInv
<1>5. CASE Cancel \/ UNCHANGED vars
  <2>1. /\ pc' = pc /\ messages' = messages /\ tail' = tail /\ prompt' = prompt
        /\ overhead' = overhead
    BY <1>5 DEF Cancel, Keep, vars
  <2> QED BY <2>1 DEF HistoryInv, Pruned, CutAt, Fits, Budget
<1> QED BY <1>1, <1>2, <1>3, <1>4, <1>5 DEF Next, Local, Model, Server, Terminated

(* The invariant says what the property asks of a pending request. *)
LEMMA HistoryImplies == TypeInv /\ HistoryInv => LongestFittingHistory
<1> SUFFICES ASSUME TypeInv, HistoryInv, pc = "model" PROVE LongestFittingHistory
  BY DEF LongestFittingHistory
<1> DEFINE all == Activity(messages)
<1>1. /\ tail \in Seq(Message) /\ prompt \in Seq(Message) /\ overhead \in Nat
      /\ Used(tail) <= Budget /\ SubSeq(prompt, 3, Len(prompt)) = tail
  BY DEF TypeInv, TypeOK, HistoryInv, Fits
<1>2. all \in Seq(Message)
  BY ActivityIsTheRest DEF TypeInv, Shape
<1> HIDE DEF all
<1>3. overhead + Used(tail) + ReservedTokens <= ContextTokens
  <2>1. Used(tail) \in Nat
    BY <1>1, UsedType
  <2> QED BY <1>1, <2>1, LimitsAssumption DEF Budget
<1>4. PICK c \in 1..Len(all) + 1 : CutAt(all, c, tail)
  BY DEF HistoryInv, Pruned, all
<1>5. /\ Len(tail) = Len(all) - c + 1
      /\ \A i \in 1..Len(all) - c + 1 : tail[i] = all[c + i - 1]
  BY <1>2, <1>4, FromProperties DEF CutAt
<1>6. ASSUME NEW k \in 1..Len(all), all[k].role # "tool", Used(From(all, k)) <= Budget
      PROVE  /\ Len(From(all, k)) <= Len(prompt) - 2
             /\ SubSeq(prompt, Len(prompt) - Len(From(all, k)) + 1, Len(prompt)) = From(all, k)
  <2>1. k >= c
    <3> SUFFICES ASSUME k < c PROVE FALSE
      OBVIOUS
    <3>1. k \in 1..c-1
      OBVIOUS
    <3> QED BY <1>4, <1>6, <3>1 DEF CutAt, Fits
  <2>2. Len(From(all, k)) = Len(all) - k + 1
    BY <1>2, FromProperties
  <2>3. 3 <= Len(prompt) /\ Len(tail) = Len(prompt) - 2
    <3>1. Len(tail) > 0
      BY <1>5, <2>1
    <3>2. Len(SubSeq(prompt, 3, Len(prompt))) = IF 3 <= Len(prompt) THEN Len(prompt) - 3 + 1 ELSE 0
      <4>1. \A i \in 3..Len(prompt) : prompt[i] \in Message
        BY <1>1
      <4>2. 3 \in Int /\ Len(prompt) \in Int
        BY <1>1
      <4> QED BY <4>1, <4>2, SubSeqProperties
    <3> QED BY <1>1, <3>1, <3>2
  <2>4. tail = From(prompt, 3) /\ tail = From(all, c)
    BY <1>1, <1>4 DEF From, CutAt
  <2>5. From(prompt, Len(prompt) - Len(From(all, k)) + 1) = From(tail, k - c + 1)
    <3>1. /\ 3 \in 1..Len(prompt) + 1 /\ k - c + 1 \in 1..Len(prompt) - 3 + 2
          /\ 3 + (k - c + 1) - 1 = Len(prompt) - Len(From(all, k)) + 1
      <4>1. PICK l \in Nat, n \in Nat : l = Len(prompt) /\ n = Len(all)
        BY <1>1, <1>2
      <4>2. l >= 3 /\ n - c + 1 = l - 2 /\ Len(From(all, k)) = n - k + 1
        BY <1>5, <2>2, <2>3, <4>1
      <4> QED BY <2>1, <4>1, <4>2
    <3> QED BY <1>1, <2>4, <3>1, FromOfFrom
  <2>6. From(tail, k - c + 1) = From(all, k)
    <3>1. k - c + 1 \in 1..Len(all) - c + 2 /\ c + (k - c + 1) - 1 = k
      BY <1>2, <2>1
    <3> QED BY <1>2, <2>4, <3>1, FromOfFrom
  <2>7. Len(From(all, k)) <= Len(prompt) - 2
    BY <1>5, <2>1, <2>2, <2>3
  <2> QED BY <2>5, <2>6, <2>7 DEF From
<1> QED BY <1>1, <1>3, <1>6 DEF LongestFittingHistory, all, From

(* Whatever the conversation grows to, a request leaves the reserved       *)
(* tokens free and carries every run of newest exchanges that fits: no     *)
(* exchange is dropped that could have stayed (context.go:71-90).          *)
THEOREM NothingDroppedTooEarly == Spec => []LongestFittingHistory
<1>1. Init => HistoryInv
  BY DEF Init, HistoryInv
<1>2. (TypeInv /\ WholeInv) /\ (TypeInv /\ WholeInv)' /\ HistoryInv /\ [Next]_vars => HistoryInv'
  BY NextHistory
<1>3. TypeInv /\ WholeInv /\ HistoryInv => LongestFittingHistory
  BY HistoryImplies
<1> QED BY <1>1, <1>2, <1>3, WholeThroughout, PTL DEF Spec
=============================================================================
