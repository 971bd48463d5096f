------------------------------- MODULE RpcCall -------------------------------
(***************************************************************************)
(* What internal/mcpclient promises its caller: calls are made one at a    *)
(* time, and a call ends either with the answer the server gave to that    *)
(* very call, or with an error.                                            *)
(***************************************************************************)
EXTENDS Integers

CONSTANT MaxCalls  \* bound: calls made through one client

VARIABLES
    asked,     \* calls made so far; the last one may be pending
    answered,  \* calls the server has answered
    result     \* what each call returned: its state, and whose answer it got

Call == 1..MaxCalls
Pending == [state |-> "pending", of |-> 0]
Failed == [state |-> "failed", of |-> 0]
Returned(i) == [state |-> "returned", of |-> i]

Init ==
    /\ asked = 0
    /\ answered = {}
    /\ result = [i \in Call |-> [state |-> "none", of |-> 0]]

Ask ==
    /\ asked < MaxCalls
    /\ asked > 0 => result[asked].state # "pending"
    /\ asked' = asked + 1
    /\ result' = [result EXCEPT ![asked + 1] = Pending]
    /\ UNCHANGED answered

Serve(i) ==
    /\ i \notin answered
    /\ i <= asked
    /\ answered' = answered \cup {i}
    /\ UNCHANGED <<asked, result>>

Return ==
    /\ asked \in answered /\ result[asked].state = "pending"
    /\ result' = [result EXCEPT ![asked] = Returned(asked)]
    /\ UNCHANGED <<asked, answered>>

Fail ==
    /\ asked > 0 /\ result[asked].state = "pending"
    /\ result' = [result EXCEPT ![asked] = Failed]
    /\ UNCHANGED <<asked, answered>>

Next == Ask \/ (\E i \in Call : Serve(i)) \/ Return \/ Fail
vars == <<asked, answered, result>>
Spec == Init /\ [][Next]_vars
=============================================================================
