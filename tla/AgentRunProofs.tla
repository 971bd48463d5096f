--------------------------- MODULE AgentRunProofs ---------------------------
(***************************************************************************)
(* Proofs about AgentRun: its type, that no child survives the command, and *)
(* that every tool is run by the server the policy lets run it.            *)
(*                                                                         *)
(* The argument: the deferred calls are always one of five stacks, and pc  *)
(* says which (Control).  A server that has been started and not yet       *)
(* waited for has its Close on the stack, or under way, or, before the web *)
(* server's is deferred, in the code that is about to fail (Attended).     *)
(* When the command exits the stack is empty and nothing is under way.     *)
(***************************************************************************)
EXTENDS AgentRun, SequenceTheorems, TLAPS

Deferrable == {"cancelMCP", "closeCore", "cancelStartup", "closeWeb"}
Stack0 == << >>
Stack1 == <<"cancelMCP">>
Stack2 == <<"cancelMCP", "closeCore">>
Stack3 == <<"cancelMCP", "closeCore", "cancelStartup">>
Stack4 == <<"cancelMCP", "closeCore", "cancelStartup", "closeWeb">>
Stacks == {Stack0, Stack1, Stack2, Stack3, Stack4}

Control ==
    /\ deferred \in Stacks
    /\ pc \in {"parse", "validate", "ping"} => deferred = Stack0 /\ server = "core"
    /\ pc = "start" => deferred = IF server = "core" THEN Stack1 ELSE Stack3
    /\ pc \in {"initialize", "list"} => deferred = Stack3
    /\ pc \in {"check", "loop"} => deferred = IF server = "web" THEN Stack4 ELSE Stack3
    /\ pc = "closing" => deferred = IF server = "web" THEN Stack3 ELSE Stack1
    /\ pc = "exited" => deferred = Stack0

Alive(s) == proc[s] \in {"running", "exited"}
CloseDeferred(s) == IF s = "web" THEN deferred = Stack4 ELSE deferred \in {Stack2, Stack3, Stack4}
Attended ==
    \A s \in Servers : Alive(s) =>
        \/ CloseDeferred(s)
        \/ pc = "closing" /\ server = s
        \/ s = "web" /\ server = "web" /\ pc \in {"initialize", "list"}
-----------------------------------------------------------------------------
(* The five stacks are different. *)
LEMMA StacksDiffer ==
    /\ Stack0 # Stack1 /\ Stack0 # Stack2 /\ Stack0 # Stack3 /\ Stack0 # Stack4
    /\ Stack1 # Stack2 /\ Stack1 # Stack3 /\ Stack1 # Stack4
    /\ Stack2 # Stack3 /\ Stack2 # Stack4 /\ Stack3 # Stack4
  BY DEF Stack0, Stack1, Stack2, Stack3, Stack4

(* What is on them, last call last. *)
LEMMA StackElements ==
    /\ Stack0 \in Seq(Deferrable) /\ Len(Stack0) = 0
    /\ Stack1 \in Seq(Deferrable) /\ Len(Stack1) = 1
    /\ Stack1[1] = "cancelMCP"
    /\ Stack2 \in Seq(Deferrable) /\ Len(Stack2) = 2
    /\ Stack2[1] = "cancelMCP" /\ Stack2[2] = "closeCore"
    /\ Stack3 \in Seq(Deferrable) /\ Len(Stack3) = 3
    /\ Stack3[1] = "cancelMCP" /\ Stack3[2] = "closeCore" /\ Stack3[3] = "cancelStartup"
    /\ Stack4 \in Seq(Deferrable) /\ Len(Stack4) = 4
    /\ Stack4[1] = "cancelMCP" /\ Stack4[2] = "closeCore" /\ Stack4[3] = "cancelStartup"
    /\ Stack4[4] = "closeWeb"
  <1>1. Stack0 \in Seq(Deferrable) /\ Len(Stack0) = 0
    BY DEF Stack0
  <1>2. /\ Stack1 \in Seq(Deferrable) /\ Len(Stack1) = 1
        /\ Stack1[1] = "cancelMCP"
    BY DEF Stack1, Deferrable
  <1>3. /\ Stack2 \in Seq(Deferrable) /\ Len(Stack2) = 2
        /\ Stack2[1] = "cancelMCP" /\ Stack2[2] = "closeCore"
    BY DEF Stack2, Deferrable
  <1>4. /\ Stack3 \in Seq(Deferrable) /\ Len(Stack3) = 3
        /\ Stack3[1] = "cancelMCP" /\ Stack3[2] = "closeCore" /\ Stack3[3] = "cancelStartup"
    BY DEF Stack3, Deferrable
  <1>5. /\ Stack4 \in Seq(Deferrable) /\ Len(Stack4) = 4
        /\ Stack4[1] = "cancelMCP" /\ Stack4[2] = "closeCore" /\ Stack4[3] = "cancelStartup"
        /\ Stack4[4] = "closeWeb"
    BY DEF Stack4, Deferrable
  <1> QED
    BY <1>1, <1>2, <1>3, <1>4, <1>5

(* Taking the last of a sequence off leaves the rest. *)
LEMMA FrontElements ==
  ASSUME NEW S, NEW s \in Seq(S), Len(s) > 0
  PROVE  /\ Front(s) \in Seq(S) /\ Len(Front(s)) = Len(s) - 1
         /\ \A i \in 1..Len(s) - 1 : Front(s)[i] = s[i]
         /\ Last(s) = s[Len(s)]
  <1> DEFINE n == Len(s) - 1
  <1>1. n \in Int /\ n \in Nat /\ Len(s) = n + 1
    BY LenProperties
  <1>2. \A i \in 1..n : s[i] \in S
    BY <1>1, ElementOfSeq
  <1> HIDE DEF n
  <1>3. SubSeq(s, 1, n) \in Seq(S)
    BY <1>1, <1>2, SubSeqProperties
  <1>4. Len(SubSeq(s, 1, n)) = n
    BY <1>1, <1>2, SubSeqProperties
  <1>5. \A i \in 1..n : SubSeq(s, 1, n)[i] = s[i]
    BY <1>1, <1>2, SubSeqProperties
  <1> QED
    BY <1>1, <1>3, <1>4, <1>5 DEF Front, Last, n

(* What is taken off a stack leaves the next smaller one. *)
LEMMA StackFronts ==
    /\ Front(Stack4) = Stack3 /\ Last(Stack4) = "closeWeb"
    /\ Front(Stack3) = Stack2 /\ Last(Stack3) = "cancelStartup"
    /\ Front(Stack2) = Stack1 /\ Last(Stack2) = "closeCore"
    /\ Front(Stack1) = Stack0 /\ Last(Stack1) = "cancelMCP"
  <1>1. Front(Stack4) = Stack3 /\ Last(Stack4) = "closeWeb"
    <2>1. /\ Front(Stack4) \in Seq(Deferrable) /\ Len(Front(Stack4)) = 3
          /\ \A i \in 1..3 : Front(Stack4)[i] = Stack4[i]
          /\ Last(Stack4) = "closeWeb"
      <3>1. Stack4 \in Seq(Deferrable) /\ Len(Stack4) = 4 /\ Len(Stack4) > 0
        BY StackElements
      <3>2. /\ Front(Stack4) \in Seq(Deferrable) /\ Len(Front(Stack4)) = Len(Stack4) - 1
            /\ \A i \in 1..Len(Stack4) - 1 : Front(Stack4)[i] = Stack4[i]
            /\ Last(Stack4) = Stack4[Len(Stack4)]
        BY <3>1, FrontElements, Zenon
      <3> QED
        BY <3>1, <3>2, StackElements
    <2>2. \A i \in 1..3 : Front(Stack4)[i] = Stack3[i]
      <3> TAKE i \in 1..3
      <3>1. i = 1 \/ i = 2 \/ i = 3
        OBVIOUS
      <3> QED
        BY <2>1, <3>1, StackElements
    <2>3. Stack3 \in Seq(Deferrable) /\ Len(Stack3) = 3
      BY StackElements
    <2> QED
      BY <2>1, <2>2, <2>3, SeqEqual
  <1>2. Front(Stack3) = Stack2 /\ Last(Stack3) = "cancelStartup"
    <2>1. /\ Front(Stack3) \in Seq(Deferrable) /\ Len(Front(Stack3)) = 2
          /\ \A i \in 1..2 : Front(Stack3)[i] = Stack3[i]
          /\ Last(Stack3) = "cancelStartup"
      <3>1. Stack3 \in Seq(Deferrable) /\ Len(Stack3) = 3 /\ Len(Stack3) > 0
        BY StackElements
      <3>2. /\ Front(Stack3) \in Seq(Deferrable) /\ Len(Front(Stack3)) = Len(Stack3) - 1
            /\ \A i \in 1..Len(Stack3) - 1 : Front(Stack3)[i] = Stack3[i]
            /\ Last(Stack3) = Stack3[Len(Stack3)]
        BY <3>1, FrontElements, Zenon
      <3> QED
        BY <3>1, <3>2, StackElements
    <2>2. \A i \in 1..2 : Front(Stack3)[i] = Stack2[i]
      BY <2>1, StackElements
    <2>3. Stack2 \in Seq(Deferrable) /\ Len(Stack2) = 2
      BY StackElements
    <2> QED
      BY <2>1, <2>2, <2>3, SeqEqual
  <1>3. Front(Stack2) = Stack1 /\ Last(Stack2) = "closeCore"
    <2>1. /\ Front(Stack2) \in Seq(Deferrable) /\ Len(Front(Stack2)) = 1
          /\ \A i \in 1..1 : Front(Stack2)[i] = Stack2[i]
          /\ Last(Stack2) = "closeCore"
      <3>1. Stack2 \in Seq(Deferrable) /\ Len(Stack2) = 2 /\ Len(Stack2) > 0
        BY StackElements
      <3>2. /\ Front(Stack2) \in Seq(Deferrable) /\ Len(Front(Stack2)) = Len(Stack2) - 1
            /\ \A i \in 1..Len(Stack2) - 1 : Front(Stack2)[i] = Stack2[i]
            /\ Last(Stack2) = Stack2[Len(Stack2)]
        BY <3>1, FrontElements, Zenon
      <3> QED
        BY <3>1, <3>2, StackElements
    <2> QED
      BY <2>1, StackElements, SeqEqual
  <1>4. Front(Stack1) = Stack0 /\ Last(Stack1) = "cancelMCP"
    <2>1. /\ Front(Stack1) \in Seq(Deferrable) /\ Len(Front(Stack1)) = 0
          /\ Last(Stack1) = "cancelMCP"
      <3>1. Stack1 \in Seq(Deferrable) /\ Len(Stack1) = 1 /\ Len(Stack1) > 0
        BY StackElements
      <3>2. /\ Front(Stack1) \in Seq(Deferrable) /\ Len(Front(Stack1)) = Len(Stack1) - 1
            /\ \A i \in 1..Len(Stack1) - 1 : Front(Stack1)[i] = Stack1[i]
            /\ Last(Stack1) = Stack1[Len(Stack1)]
        BY <3>1, FrontElements, Zenon
      <3> QED
        BY <3>1, <3>2, StackElements
    <2> QED
      BY <2>1, StackElements, EmptySeq DEF Stack0
  <1> QED
    BY <1>1, <1>2, <1>3, <1>4

(* Appending one element. *)
LEMMA AppendElements ==
  ASSUME NEW S, NEW q \in Seq(S), NEW e \in S
  PROVE  /\ Append(q, e) \in Seq(S) /\ Len(Append(q, e)) = Len(q) + 1
         /\ \A i \in 1..Len(q) : Append(q, e)[i] = q[i]
         /\ Append(q, e)[Len(q) + 1] = e
  OBVIOUS

(* What StartProcess and ListTools defer leads from one stack to another. *)
LEMMA StackPushes ==
    /\ Stack1 \o <<"closeCore", "cancelStartup">> = Stack3
    /\ Append(Stack3, "closeWeb") = Stack4
  <1>1. Stack1 \o <<"closeCore", "cancelStartup">> = Stack3
    <2> DEFINE two == <<"closeCore", "cancelStartup">>
    <2>1. /\ two \in Seq(Deferrable) /\ Len(two) = 2
          /\ two[1] = "closeCore" /\ two[2] = "cancelStartup"
      BY DEF Deferrable
    <2> HIDE DEF two
    <2>2. /\ Stack1 \o two \in Seq(Deferrable) /\ Len(Stack1 \o two) = 3
          /\ \A i \in 1..3 : (Stack1 \o two)[i] = IF i <= 1 THEN Stack1[i] ELSE two[i - 1]
      <3>1. Stack1 \in Seq(Deferrable) /\ Len(Stack1) = 1
        BY StackElements
      <3>2. /\ Stack1 \o two \in Seq(Deferrable)
            /\ Len(Stack1 \o two) = Len(Stack1) + Len(two)
            /\ \A i \in 1..Len(Stack1) + Len(two) : (Stack1 \o two)[i] =
                   IF i <= Len(Stack1) THEN Stack1[i] ELSE two[i - Len(Stack1)]
        BY <2>1, <3>1, ConcatProperties, Zenon
      <3> QED
        BY <2>1, <3>1, <3>2
    <2>3. \A i \in 1..3 : (Stack1 \o two)[i] = Stack3[i]
      <3> TAKE i \in 1..3
      <3>1. i = 1 \/ i = 2 \/ i = 3
        OBVIOUS
      <3> QED
        BY <2>1, <2>2, <3>1, StackElements
    <2>4. Stack1 \o two = Stack3
      <3>1. Stack3 \in Seq(Deferrable) /\ Len(Stack3) = 3
        BY StackElements
      <3>2. \A i \in 1..Len(Stack1 \o two) : (Stack1 \o two)[i] = Stack3[i]
        BY <2>2, <2>3
      <3> QED
        BY <2>2, <3>1, <3>2, SeqEqual, Zenon
    <2> QED
      BY <2>4 DEF two
  <1>2. Append(Stack3, "closeWeb") = Stack4
    <2>1. Stack3 \in Seq(Deferrable) /\ "closeWeb" \in Deferrable
      BY StackElements DEF Deferrable
    <2> DEFINE s == Append(Stack3, "closeWeb")
    <2>2. /\ s \in Seq(Deferrable) /\ Len(s) = Len(Stack3) + 1
          /\ \A i \in 1..Len(Stack3) : s[i] = Stack3[i]
          /\ s[Len(Stack3) + 1] = "closeWeb"
      BY <2>1, AppendElements, Zenon
    <2> HIDE DEF s
    <2>3. \A i \in 1..4 : s[i] = Stack4[i]
      <3> TAKE i \in 1..4
      <3>1. i = 1 \/ i = 2 \/ i = 3 \/ i = 4
        OBVIOUS
      <3> QED
        BY <2>2, <3>1, StackElements
    <2>4. s = Stack4
      <3>1. Stack4 \in Seq(Deferrable) /\ Len(s) = Len(Stack4) /\ Len(s) = 4
        BY <2>2, StackElements
      <3> QED
        BY <2>2, <2>3, <3>1, SeqEqual
    <2> QED
      BY <2>4 DEF s
  <1> QED
    BY <1>1, <1>2
-----------------------------------------------------------------------------
(* The invariant behind every theorem here: the type, and which calls are  *)
(* deferred where. *)
RunInv == TypeOK /\ Control

(* Typing the deferred calls is a matter of Control. *)
LEMMA StacksTyped ==
    \A d \in Stacks :
        d \in Seq({"cancelMCP", "closeCore", "cancelStartup", "closeWeb"}) /\ Len(d) <= 4
  <1> TAKE d \in Stacks
  <1>1. d = Stack0 \/ d = Stack1 \/ d = Stack2 \/ d = Stack3 \/ d = Stack4
    BY DEF Stacks
  <1>2. d \in Seq(Deferrable)
    BY <1>1, StackElements, Zenon
  <1>3. Len(d) \in {0, 1, 2, 3, 4}
    BY <1>1, StackElements, Zenon
  <1>4. \A n \in {0, 1, 2, 3, 4} : n <= 4
    OBVIOUS
  <1>5. Len(d) <= 4
    BY <1>3, <1>4, Zenon
  <1> QED
    BY <1>2, <1>5 DEF Deferrable

(* The two stacks the code writes down as they are. *)
LEMMA StackLiterals == Stack0 = << >> /\ Stack1 = <<"cancelMCP">>
  BY DEF Stack0, Stack1

(* It holds at first. *)
LEMMA RunInvInit == Init => RunInv
  <1> SUFFICES ASSUME Init PROVE TypeOK /\ Control
    BY DEF RunInv
  <1>1. Control
    BY StackLiterals DEF Init, Control, Stacks
  <1> QED
    <2>1. /\ deferred \in Seq({"cancelMCP", "closeCore", "cancelStartup", "closeWeb"})
          /\ Len(deferred) <= 4
      BY <1>1, StacksTyped DEF Control
    <2>2. /\ proc \in [Servers -> {"none", "running", "exited", "reaped"}]
          /\ advertised \in [Servers -> SUBSET Tools]
          /\ owner \in [Tools -> Servers \cup {NoServer}]
      BY DEF Init
    <2>3. exit \in -1..2
      BY DEF Init
    <2>4. pc = "parse" /\ startup = "none" /\ server \in Servers
      BY DEF Init, Servers
    <2>5. /\ webWanted \in BOOLEAN /\ cancelled \in BOOLEAN /\ mcpDone \in BOOLEAN
          /\ failed \in BOOLEAN
      BY DEF Init
    <2> QED
      BY <1>1, <2>1, <2>2, <2>3, <2>4, <2>5 DEF TypeOK

(* Every step keeps it. *)
LEMMA RunInvNext == RunInv /\ [Next]_vars => RunInv'
  <1> SUFFICES ASSUME TypeOK, Control, [Next]_vars
               PROVE  TypeOK' /\ Control'
    BY DEF RunInv
  <1> USE DEF Control, Stacks, Children, Contexts
  <1>1. CASE Parse
    <2>1. Control'
      BY <1>1, StacksDiffer DEF Parse, TypeOK, Servers
    <2>2. TypeOK'
      BY <1>1, <2>1, StacksTyped DEF Parse, TypeOK, Servers
    <2> QED
      BY <2>1, <2>2
  <1>2. CASE Validate
    <2>1. Control'
      BY <1>2, StacksDiffer DEF Validate, Return, TypeOK, Servers
    <2>2. TypeOK'
      BY <1>2, <2>1, StacksTyped DEF Validate, Return, TypeOK, Servers
    <2> QED
      BY <2>1, <2>2
  <1>3. CASE Ping
    <2>1. Control'
      BY <1>3, StacksDiffer, StackLiterals DEF Ping, Return, TypeOK, Servers
    <2>2. TypeOK'
      BY <1>3, <2>1, StacksTyped DEF Ping, Return, TypeOK, Servers
    <2> QED
      BY <2>1, <2>2
  <1>4. CASE StartFails
    <2>1. Control'
      BY <1>4, StacksDiffer DEF StartFails, Return, TypeOK, Servers
    <2>2. TypeOK'
      BY <1>4, <2>1, StacksTyped DEF StartFails, Return, TypeOK, Servers
    <2> QED
      BY <2>1, <2>2
  <1>5. CASE StartProcess
    <2>1. Control'
      BY <1>5, StacksDiffer, StackPushes DEF StartProcess, TypeOK, Servers
    <2>2. TypeOK'
      BY <1>5, <2>1, StacksTyped DEF StartProcess, TypeOK, Servers
    <2> QED
      BY <2>1, <2>2
  <1>6. CASE StartupFails
    <2>1. Control'
      BY <1>6, StacksDiffer DEF StartupFails, TypeOK, Servers
    <2>2. TypeOK'
      BY <1>6, <2>1, StacksTyped DEF StartupFails, TypeOK, Servers
    <2> QED
      BY <2>1, <2>2
  <1>7. CASE Initialize
    <2>1. Control'
      BY <1>7, StacksDiffer DEF Initialize, TypeOK, Servers
    <2>2. TypeOK'
      BY <1>7, <2>1, StacksTyped DEF Initialize, TypeOK, Servers
    <2> QED
      BY <2>1, <2>2
  <1>8. CASE ListTools
    <2>1. Control'
      BY <1>8, StacksDiffer, StackPushes DEF ListTools, TypeOK, Servers
    <2>2. TypeOK'
      BY <1>8, <2>1, StacksTyped DEF ListTools, FirstServerOwns, TypeOK, Servers
    <2> QED
      BY <2>1, <2>2
  <1>9. CASE Check
    <2>1. Control'
      BY <1>9, StacksDiffer DEF Check, Return, TypeOK, Servers
    <2>2. TypeOK'
      BY <1>9, <2>1, StacksTyped DEF Check, Return, TypeOK, Servers
    <2> QED
      BY <2>1, <2>2
  <1>10. CASE Loop
    <2>1. Control'
      BY <1>10, StacksDiffer DEF Loop, Return, TypeOK, Servers
    <2>2. TypeOK'
      BY <1>10, <2>1, StacksTyped DEF Loop, Return, TypeOK, Servers
    <2> QED
      BY <2>1, <2>2
  <1>11. CASE Unwind
    <2>1. pc = "unwind" /\ deferred # << >> /\ deferred' = Front(deferred)
      BY <1>11 DEF Unwind
    <2>2. deferred # Stack0
      BY <2>1, StackLiterals
    <2>3. CASE deferred = Stack1
      <3>1. deferred' = Stack0 /\ pc' = pc
        BY <1>11, <2>1, <2>3, StackFronts DEF Unwind
      <3> QED
        BY <1>11, <2>1, <3>1, StacksTyped, StackFronts, <2>3 DEF Unwind, TypeOK, Servers
    <2>4. CASE deferred = Stack2
      <3>1. deferred' = Stack1 /\ pc' = "closing" /\ server' = "core"
        BY <1>11, <2>1, <2>4, StackFronts DEF Unwind
      <3> QED
        BY <1>11, <2>1, <3>1, StacksTyped, StackFronts, <2>4 DEF Unwind, TypeOK, Servers
    <2>5. CASE deferred = Stack3
      <3>1. deferred' = Stack2 /\ pc' = pc
        BY <1>11, <2>1, <2>5, StackFronts DEF Unwind
      <3> QED
        BY <1>11, <2>1, <3>1, StacksTyped, StackFronts, <2>5 DEF Unwind, TypeOK, Servers
    <2>6. CASE deferred = Stack4
      <3>1. deferred' = Stack3 /\ pc' = "closing" /\ server' = "web"
        BY <1>11, <2>1, <2>6, StackFronts DEF Unwind
      <3> QED
        BY <1>11, <2>1, <3>1, StacksTyped, StackFronts, <2>6 DEF Unwind, TypeOK, Servers
    <2> QED
      BY <2>2, <2>3, <2>4, <2>5, <2>6
  <1>12. CASE KillOnClose
    <2>1. Control'
      BY <1>12, StacksDiffer DEF KillOnClose, TypeOK, Servers
    <2>2. TypeOK'
      BY <1>12, <2>1, StacksTyped DEF KillOnClose, TypeOK, Servers
    <2> QED
      BY <2>1, <2>2
  <1>13. CASE CloseReturns
    <2>1. Control'
      BY <1>13, StacksDiffer DEF CloseReturns, TypeOK, Servers
    <2>2. TypeOK'
      BY <1>13, <2>1, StacksTyped DEF CloseReturns, TypeOK, Servers
    <2> QED
      BY <2>1, <2>2
  <1>14. CASE Exit
    <2>1. Control'
      BY <1>14, StacksDiffer, StackLiterals DEF Exit, TypeOK, Servers
    <2>2. TypeOK'
      BY <1>14, <2>1, StacksTyped DEF Exit, TypeOK, Servers
    <2> QED
      BY <2>1, <2>2
  <1>15. CASE Signal
    <2>1. Control'
      BY <1>15, StacksDiffer DEF Signal, TypeOK, Servers
    <2>2. TypeOK'
      BY <1>15, <2>1, StacksTyped DEF Signal, TypeOK, Servers
    <2> QED
      BY <2>1, <2>2
  <1>16. CASE StartupTimeout
    <2>1. Control'
      BY <1>16, StacksDiffer DEF StartupTimeout, TypeOK, Servers
    <2>2. TypeOK'
      BY <1>16, <2>1, StacksTyped DEF StartupTimeout, TypeOK, Servers
    <2> QED
      BY <2>1, <2>2
  <1>17. CASE \E s \in Servers : ChildExits(s)
    BY <1>17 DEF ChildExits, TypeOK, Servers
  <1>18. CASE UNCHANGED vars
    BY <1>18 DEF vars, TypeOK
  <1> QED
    BY <1>1, <1>2, <1>3, <1>4, <1>5, <1>6, <1>7, <1>8, <1>9, <1>10, <1>11, <1>12, <1>13, <1>14, <1>15, <1>16, <1>17, <1>18 DEF Next, Program, Exited

(* The type invariant of AgentRun: main, Run and the deferred calls never   *)
(* leave the states Run was written for.                                   *)
THEOREM TypeCorrect == Spec => []TypeOK
  <1>1. Spec => []RunInv
    BY RunInvInit, RunInvNext, PTL DEF Spec
  <1>2. RunInv => TypeOK
    BY DEF RunInv
  <1> QED
    BY <1>1, <1>2, PTL
-----------------------------------------------------------------------------
(* Every server that was started is attended to. *)
LEMMA AttendedInit == Init => Attended
  BY DEF Init, Attended, Alive, Servers

(* No step leaves one behind. *)
LEMMA AttendedNext == RunInv /\ Attended /\ [Next]_vars => Attended'
  <1> SUFFICES ASSUME TypeOK, Control, Attended, [Next]_vars
               PROVE  Attended'
    BY DEF RunInv
  <1> USE DEF Attended, Alive, CloseDeferred, Control, Children, Contexts
  <1>1. CASE Parse
    BY <1>1, StacksDiffer DEF Parse, TypeOK, Servers
  <1>2. CASE Validate
    BY <1>2, StacksDiffer DEF Validate, Return, TypeOK, Servers
  <1>3. CASE Ping
    BY <1>3, StacksDiffer DEF Ping, Return, TypeOK, Servers
  <1>4. CASE StartFails
    BY <1>4, StacksDiffer DEF StartFails, Return, TypeOK, Servers
  <1>5. CASE StartProcess
    BY <1>5, StackPushes, StacksDiffer DEF StartProcess, TypeOK, Servers
  <1>6. CASE StartupFails
    BY <1>6, StacksDiffer DEF StartupFails, TypeOK, Servers
  <1>7. CASE Initialize
    BY <1>7, StacksDiffer DEF Initialize, TypeOK, Servers
  <1>8. CASE ListTools
    BY <1>8, StackPushes, StacksDiffer DEF ListTools, TypeOK, Servers
  <1>9. CASE Check
    BY <1>9, StacksDiffer DEF Check, Return, TypeOK, Servers
  <1>10. CASE Loop
    BY <1>10, StacksDiffer DEF Loop, Return, TypeOK, Servers
  <1>11. CASE Unwind
    <2>1. pc = "unwind" /\ deferred \in Stacks /\ deferred # Stack0
          /\ deferred' = Front(deferred) /\ proc' = proc
      BY <1>11, StackLiterals DEF Unwind
    <2>2. CASE deferred = Stack1
      BY <2>1, <2>2, StackFronts, StacksDiffer DEF Servers
    <2>3. CASE deferred = Stack2
      <3>1. deferred' = Stack1 /\ pc' = "closing" /\ server' = "core"
        BY <1>11, <2>1, <2>3, StackFronts DEF Unwind
      <3> QED
        BY <2>1, <2>3, <3>1, StacksDiffer DEF Servers
    <2>4. CASE deferred = Stack3
      BY <2>1, <2>4, StackFronts, StacksDiffer DEF Servers
    <2>5. CASE deferred = Stack4
      <3>1. deferred' = Stack3 /\ pc' = "closing" /\ server' = "web"
        BY <1>11, <2>1, <2>5, StackFronts DEF Unwind
      <3> QED
        BY <2>1, <2>5, <3>1, StacksDiffer DEF Servers
    <2> QED
      BY <2>1, <2>2, <2>3, <2>4, <2>5 DEF Stacks
  <1>12. CASE KillOnClose
    BY <1>12, StacksDiffer DEF KillOnClose, TypeOK, Servers
  <1>13. CASE CloseReturns
    BY <1>13, StacksDiffer DEF CloseReturns, TypeOK, Servers
  <1>14. CASE Exit
    BY <1>14, StacksDiffer DEF Exit, TypeOK, Servers
  <1>15. CASE Signal
    BY <1>15, StacksDiffer DEF Signal, TypeOK, Servers
  <1>16. CASE StartupTimeout
    BY <1>16, StacksDiffer DEF StartupTimeout, TypeOK, Servers
  <1>17. CASE \E s \in Servers : ChildExits(s)
    BY <1>17 DEF ChildExits, TypeOK, Servers
  <1>18. CASE UNCHANGED vars
    BY <1>18 DEF vars
  <1> QED
    BY <1>1, <1>2, <1>3, <1>4, <1>5, <1>6, <1>7, <1>8, <1>9, <1>10, <1>11, <1>12, <1>13, <1>14, <1>15, <1>16, <1>17, <1>18 DEF Next, Program, Exited

(* However the start, the loop or the unwinding ends, and whatever the     *)
(* children and the signals do, a command that has exited has waited for   *)
(* every child it started (the Close calls of Run and startWebMCPServer).  *)
THEOREM ChildrenAreReaped == Spec => []NoChildSurvives
  <1>1. Spec => [](RunInv /\ Attended)
    BY RunInvInit, RunInvNext, AttendedInit, AttendedNext, PTL DEF Spec
  <1>2. RunInv /\ Attended => NoChildSurvives
    <2> SUFFICES ASSUME TypeOK, Control, Attended, pc = "exited",
                        NEW s \in Servers
                 PROVE  proc[s] \in {"none", "reaped"}
      BY DEF RunInv, NoChildSurvives
    <2>1. deferred = Stack0
      BY DEF Control
    <2>2. ~Alive(s)
      BY <2>1, StacksDiffer DEF Attended, CloseDeferred
    <2> QED
      BY <2>2 DEF TypeOK, Alive
  <1> QED
    BY <1>1, <1>2, PTL
-----------------------------------------------------------------------------
(* Each server lists once, the core server first, so that a tool it may run *)
(* is its own before the web server is asked; and neither is closed before *)
(* the loop has ended.                                                     *)
Listed ==
    /\ pc \in {"parse", "validate", "ping", "start", "initialize", "list"} => advertised[server] = {}
    /\ pc \in {"parse", "validate", "ping", "start", "initialize", "list", "check", "loop"}
       /\ server = "core" => advertised["web"] = {}
Owned ==
    /\ \A t \in Discovered : t \in advertised[owner[t]] \cap Allowed[owner[t]]
    /\ \A t \in Tools : t \in advertised["core"] \cap Allowed["core"] => owner[t] = "core"
Open ==
    /\ pc \in {"initialize", "list"} => Alive(server)
    /\ pc \in {"start", "initialize", "list"} /\ server = "web" => Alive("core")
    /\ pc \in {"check", "loop"} => Alive("core") /\ (server = "web" => Alive("web"))
    /\ pc = "loop" => Discovered # {}
Routing == Listed /\ Owned /\ Open

(* It holds at first, when nothing is listed. *)
LEMMA RoutingInit == Init => Routing
  BY AllowedAssumption DEF Init, Routing, Listed, Owned, Open, Alive, Discovered, Servers

(* Every step keeps it. *)
LEMMA RoutingNext == RunInv /\ Routing /\ [Next]_vars => Routing'
  <1> SUFFICES ASSUME TypeOK, Control, Listed, Owned, Open, [Next]_vars
               PROVE  Listed' /\ Owned' /\ Open'
    BY DEF RunInv, Routing
  <1> USE AllowedAssumption DEF Listed, Owned, Open, Alive, Discovered, Children, Contexts
  <1>1. CASE Parse
    BY <1>1 DEF Parse, TypeOK, Servers
  <1>2. CASE Validate
    BY <1>2 DEF Validate, Return, TypeOK, Servers
  <1>3. CASE Ping
    BY <1>3 DEF Ping, Return, Control, TypeOK, Servers
  <1>4. CASE StartFails
    BY <1>4 DEF StartFails, Return, TypeOK, Servers
  <1>5. CASE StartProcess
    BY <1>5 DEF StartProcess, TypeOK, Servers
  <1>6. CASE StartupFails
    BY <1>6 DEF StartupFails, TypeOK, Servers
  <1>7. CASE Initialize
    BY <1>7 DEF Initialize, TypeOK, Servers
  <1>8. CASE ListTools
    <2>1. PICK found \in SUBSET Tools :
              /\ advertised' = [advertised EXCEPT ![server] = found]
              /\ owner' = FirstServerOwns(found \cap Allowed[server])
      BY <1>8 DEF ListTools
    <2>2. /\ pc = "list" /\ UNCHANGED proc /\ server' \in Servers
          /\ \/ pc' = "start" /\ server = "core" /\ server' = "web"
             \/ pc' = "check" /\ server' = server
      BY <1>8 DEF ListTools, TypeOK, Servers
    <2>3. Listed'
      BY <2>1, <2>2 DEF TypeOK, Servers
    <2>4. Owned'
      <3>1. \A t \in Tools : owner'[t] = IF t \in found \cap Allowed[server] /\ owner[t] = NoServer
                                         THEN server ELSE owner[t]
        BY <2>1 DEF FirstServerOwns
      <3>2. ASSUME NEW t \in Tools, owner'[t] # NoServer
            PROVE  t \in advertised'[owner'[t]] \cap Allowed[owner'[t]]
        <4>1. CASE owner[t] = NoServer
          BY <2>1, <3>1, <3>2, <4>1, ZenonT(40) DEF TypeOK
        <4>2. CASE owner[t] # NoServer
          <5>1. owner'[t] = owner[t] /\ owner[t] \in Servers
            BY <3>1, <4>2 DEF TypeOK
          <5>2. t \in advertised[owner[t]] \cap Allowed[owner[t]] /\ owner[t] # server
            BY <2>2, <4>2
          <5> QED
            BY <2>1, <5>1, <5>2 DEF TypeOK
        <4> QED
          BY <4>1, <4>2
      <3>3. ASSUME NEW t \in Tools, t \in advertised'["core"] \cap Allowed["core"]
            PROVE  owner'[t] = "core"
        <4>1. CASE server = "core"
          <5>1. t \in found /\ advertised["core"] = {} /\ advertised["web"] = {}
            BY <2>1, <2>2, <3>3, <4>1 DEF TypeOK, Servers
          <5>2. owner[t] = NoServer
            BY <5>1 DEF TypeOK, Servers
          <5> QED
            BY <3>1, <3>3, <4>1, <5>1, <5>2
        <4>2. CASE server = "web"
          <5>1. t \in advertised["core"] \cap Allowed["core"]
            BY <2>1, <3>3, <4>2 DEF TypeOK, Servers
          <5> QED
            BY <3>1, <5>1 DEF Servers
        <4> QED
          BY <4>1, <4>2 DEF TypeOK, Servers
      <3> QED
        BY <3>2, <3>3
    <2>5. Open'
      BY <2>2 DEF TypeOK, Servers
    <2> QED
      BY <2>3, <2>4, <2>5
  <1>9. CASE Check
    BY <1>9 DEF Check, Return, Discovered, TypeOK, Servers
  <1>10. CASE Loop
    BY <1>10 DEF Loop, Return, TypeOK, Servers
  <1>11. CASE Unwind
    <2>1. /\ pc = "unwind" /\ deferred \in Stacks /\ deferred # Stack0
          /\ UNCHANGED <<proc, advertised, owner>>
      BY <1>11, StackLiterals DEF Unwind, Control
    <2>2. Last(deferred) \in {"closeWeb", "closeCore", "cancelStartup", "cancelMCP"}
      BY <2>1, StackFronts DEF Stacks
    <2>3. pc' \in {"unwind", "closing"}
      BY <1>11, <2>1, <2>2 DEF Unwind
    <2> QED
      BY <2>1, <2>3
  <1>12. CASE KillOnClose
    BY <1>12 DEF KillOnClose, TypeOK, Servers
  <1>13. CASE CloseReturns
    BY <1>13 DEF CloseReturns, TypeOK, Servers
  <1>14. CASE Exit
    BY <1>14 DEF Exit, TypeOK, Servers
  <1>15. CASE Signal
    BY <1>15 DEF Signal, TypeOK, Servers
  <1>16. CASE StartupTimeout
    BY <1>16 DEF StartupTimeout, TypeOK, Servers
  <1>17. CASE \E s \in Servers : ChildExits(s)
    BY <1>17 DEF ChildExits, TypeOK, Servers
  <1>18. CASE UNCHANGED vars
    BY <1>18 DEF vars
  <1> QED
    BY <1>1, <1>2, <1>3, <1>4, <1>5, <1>6, <1>7, <1>8, <1>9, <1>10, <1>11, <1>12, <1>13, <1>14, <1>15, <1>16, <1>17, <1>18 DEF Next, Program, Exited

(* Whichever tools the servers list, every tool the loop can call is run   *)
(* by a server that listed it and that the policy allows it to, the core   *)
(* server if that may, and no such server has been closed                  *)
(* (agent.go:160-181).                                                     *)
THEOREM ToolsAreRouted == Spec => []RoutedByPolicy
  <1>1. Spec => [](RunInv /\ Routing)
    BY RunInvInit, RunInvNext, RoutingInit, RoutingNext, PTL DEF Spec
  <1>2. RunInv /\ Routing => RoutedByPolicy
    <2> SUFFICES ASSUME TypeOK, Listed, Owned, Open, pc = "loop"
                 PROVE  /\ Discovered # {}
                        /\ \A t \in Discovered :
                               /\ t \in advertised[owner[t]] \cap Allowed[owner[t]]
                               /\ proc[owner[t]] \in {"running", "exited"}
                               /\ t \in advertised["core"] \cap Allowed["core"] => owner[t] = "core"
      BY DEF RunInv, Routing, RoutedByPolicy
    <2>1. ASSUME NEW t \in Discovered
          PROVE  proc[owner[t]] \in {"running", "exited"}
      <3>1. owner[t] \in Servers /\ t \in advertised[owner[t]]
        BY DEF Discovered, Owned, TypeOK
      <3>2. owner[t] = "web" => server = "web"
        BY <3>1 DEF Listed, TypeOK, Servers
      <3> QED
        BY <3>1, <3>2 DEF Open, Alive, Servers
    <2> QED
      BY <2>1 DEF Owned, Open, Discovered
  <1> QED
    BY <1>1, <1>2, PTL
=============================================================================
