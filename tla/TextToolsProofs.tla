--------------------------- MODULE TextToolsProofs ---------------------------
(***************************************************************************)
(* Proofs about TextTools: an answer that is not flagged is complete, and  *)
(* every command computes what its second definition says.                 *)
(*                                                                         *)
(* The argument: most operators are computed by a loop, so each has a      *)
(* lemma of what one element more does to it (SplitAppend, JoinStep,       *)
(* FlattenStep, DecimalIs, ValueStep, ChosenStep, PlaceKeeps) and a lemma  *)
(* of what it gives, by induction over a set of numbers                    *)
(* (IntervalInduction).  LinesRestored carries the file tools: lines       *)
(* joined and split again are those lines, so that a reader sees the lines *)
(* that were kept.  Each utility then has a lemma that ends in "Is" or     *)
(* "Shown", and the invariant TextInv says that the last answer is right   *)
(* and that what a command is given is a text.                             *)
(***************************************************************************)
EXTENDS TextTools, SequenceTheorems, FiniteSetTheorems, FunctionTheorems, TLAPS

-----------------------------------------------------------------------------
(* Numbers in order.                                                       *)

(* A set with 0 that has every i of 1..n when it has i - 1 has all of      *)
(* 0..n.                                                                   *)
LEMMA IntervalInduction ==
  ASSUME NEW n \in Nat, NEW S, 0 \in S, \A i \in 1..n : i - 1 \in S => i \in S
  PROVE  0..n \subseteq S
<1> DEFINE R == {p \in Nat \X Nat : p[1] < p[2]}
           T == {i \in 0..n : i \notin S}
<1>1. R = OpToRel(<, Nat)
  BY DEF OpToRel
<1>2. IsWellFoundedOn(R, Nat)
  BY <1>1, NatLessThanWellFounded, Zenon
<1>3. ASSUME T # {} PROVE FALSE
  <2>1. T \subseteq Nat
    OBVIOUS
  <2>2. PICK x \in T : \A y \in T : <<y, x>> \notin R
    <3> HIDE DEF R, T
    <3> QED BY <1>2, <1>3, <2>1, WFMin
  <2>3. x \in 1..n /\ x \notin S
    OBVIOUS
  <2>4. x - 1 \in T
    BY <2>3
  <2>5. <<x - 1, x>> \in Nat \X Nat /\ <<x - 1, x>>[1] = x - 1 /\ <<x - 1, x>>[2] = x
    BY <2>3
  <2> QED BY <2>2, <2>3, <2>4, <2>5
<1> QED BY <1>3

(* Of a finite set, how many of its elements come before one.              *)
Below(S, x) == {y \in S : y < x}

(* The elements of a finite set of numbers are told apart by how many of   *)
(* the set come before each.                                               *)
LEMMA BelowCounts ==
  ASSUME NEW S, S \subseteq Nat, IsFiniteSet(S), NEW x \in S
  PROVE  /\ Cardinality(Below(S, x)) \in 0..(Cardinality(S) - 1)
         /\ \A y \in S : y < x => Cardinality(Below(S, y)) < Cardinality(Below(S, x))
<1>1. Cardinality(S) \in Nat /\ \A z \in S : z \in Nat
  BY FS_CardinalityType
<1>2. Below(S, x) \subseteq S \ {x} /\ IsFiniteSet(S \ {x}) /\ Cardinality(S \ {x}) = Cardinality(S) - 1
  <2>1. IsFiniteSet(S \ {x}) /\ Cardinality(S \ {x}) = Cardinality(S) - 1
    BY FS_RemoveElement
  <2> QED BY <2>1 DEF Below
<1>3. IsFiniteSet(Below(S, x)) /\ Cardinality(Below(S, x)) \in Nat
      /\ Cardinality(Below(S, x)) <= Cardinality(S) - 1
  BY <1>2, FS_Subset, FS_CardinalityType
<1>4. ASSUME NEW y \in S, y < x PROVE Cardinality(Below(S, y)) < Cardinality(Below(S, x))
  <2>1. Below(S, y) \in SUBSET Below(S, x) /\ y \in Below(S, x) /\ y \notin Below(S, y)
    <3>1. \A z \in S : z < y => z < x
      BY <1>1, <1>4
    <3>2. ~(y < y)
      BY <1>1
    <3> QED BY <1>4, <3>1, <3>2 DEF Below
  <2>2. /\ IsFiniteSet(Below(S, y)) /\ Cardinality(Below(S, y)) <= Cardinality(Below(S, x))
        /\ Cardinality(Below(S, y)) # Cardinality(Below(S, x))
    BY <1>3, <2>1, FS_Subset
  <2>3. Cardinality(Below(S, y)) \in Nat
    BY <2>2, FS_CardinalityType
  <2> QED BY <1>3, <2>2, <2>3
<1> QED BY <1>1, <1>3, <1>4

Increasing(q) == \A j, k \in 1..Len(q) : j < k => q[j] < q[k]
Elements(q) == {q[k] : k \in 1..Len(q)}

(* InOrder lists a finite set of numbers: all of it, upwards, each element *)
(* once.                                                                   *)
LEMMA InOrderEnumerates ==
  ASSUME NEW S, S \subseteq Nat, IsFiniteSet(S)
  PROVE  /\ InOrder(S) \in Seq(S) /\ Len(InOrder(S)) = Cardinality(S) /\ Cardinality(S) \in Nat
         /\ Increasing(InOrder(S)) /\ Elements(InOrder(S)) = S
<1> DEFINE n == Cardinality(S)
           rank == [x \in S |-> Cardinality(Below(S, x)) + 1]
           at(k) == CHOOSE x \in S : Cardinality(Below(S, x)) = k - 1
<1>1. n \in Nat /\ \A z \in S : z \in Nat
  BY FS_CardinalityType
<1>0. /\ \A x \in S : Cardinality(Below(S, x)) \in 0..(n - 1)
      /\ \A x, y \in S : y < x => Cardinality(Below(S, y)) < Cardinality(Below(S, x))
  BY BelowCounts
<1>2. \A x \in S : rank[x] \in 1..n
  BY <1>0, <1>1
<1>3. rank \in [S -> 1..n]
  BY <1>2
<1>4. \A x, y \in S : rank[x] = rank[y] => x = y
  <2> SUFFICES ASSUME NEW x \in S, NEW y \in S, x # y PROVE rank[x] # rank[y]
    OBVIOUS
  <2>1. x < y \/ y < x
    BY <1>1
  <2>2. Cardinality(Below(S, x)) \in Nat /\ Cardinality(Below(S, y)) \in Nat
    BY <1>0, <1>1
  <2> QED BY <1>0, <2>1, <2>2
<1>5. \A k \in 1..n : \E x \in S : rank[x] = k
  <2> HIDE DEF rank
  <2>1. rank \in Injection(S, 1..n)
    BY <1>3, <1>4, Fun_IsInj
  <2>2. IsFiniteSet(1..n) /\ Cardinality(1..n) = n
    BY <1>1, FS_Interval
  <2>3. rank \in Surjection(S, 1..n)
    BY <2>1, <2>2, FS_Injection
  <2> QED BY <2>3, Fun_SurjectionProperties
<1>6. \A k \in 1..n : at(k) \in S /\ Cardinality(Below(S, at(k))) = k - 1
  <2> TAKE k \in 1..n
  <2>1. \E x \in S : Cardinality(Below(S, x)) = k - 1
    <3>1. PICK x \in S : rank[x] = k
      BY <1>5
    <3>2. Cardinality(Below(S, x)) \in Int
      BY <1>0, <1>1
    <3> QED BY <3>1, <3>2
  <2> QED BY <2>1
<1>7. InOrder(S) = [k \in 1..n |-> at(k)]
  BY DEF InOrder, Below
<1> HIDE DEF at, n
<1>8. InOrder(S) \in Seq(S) /\ Len(InOrder(S)) = n /\ \A k \in 1..n : InOrder(S)[k] = at(k)
  BY <1>1, <1>6, <1>7
<1>9. Increasing(InOrder(S))
  <2> SUFFICES ASSUME NEW j \in 1..n, NEW k \in 1..n, j < k PROVE at(j) < at(k)
    BY <1>8 DEF Increasing
  <2>1. at(j) # at(k)
    BY <1>6
  <2>2. ~(at(k) < at(j))
    <3> SUFFICES ASSUME at(k) < at(j) PROVE FALSE
      OBVIOUS
    <3>1. Cardinality(Below(S, at(k))) < Cardinality(Below(S, at(j)))
      BY <1>0, <1>6
    <3> QED BY <1>1, <1>6, <3>1
  <2>3. at(j) \in Nat /\ at(k) \in Nat
    BY <1>1, <1>6
  <2> QED BY <2>1, <2>2, <2>3
<1>10. Elements(InOrder(S)) = S
  <2>1. ASSUME NEW x \in S PROVE \E k \in 1..n : at(k) = x
    <3>1. rank[x] \in 1..n
      BY <1>2 DEF n
    <3>2. at(rank[x]) \in S /\ Cardinality(Below(S, at(rank[x]))) = rank[x] - 1
      BY <1>6, <3>1
    <3>3. rank[at(rank[x])] = rank[x]
      BY <1>1, <3>1, <3>2
    <3>4. at(rank[x]) = x
      <4> HIDE DEF rank
      <4> QED BY <1>4, <3>2, <3>3
    <3> QED BY <3>1, <3>4
  <2>2. Elements(InOrder(S)) = {at(k) : k \in 1..n}
    BY <1>8 DEF Elements
  <2> QED BY <1>6, <2>1, <2>2
<1> QED BY <1>1, <1>8, <1>9, <1>10 DEF n

(* It is the only list that does: an increasing sequence is InOrder of its *)
(* own elements.                                                           *)
LEMMA InOrderIs ==
  ASSUME NEW q \in Seq(Nat), Increasing(q)
  PROVE  /\ InOrder(Elements(q)) = q /\ IsFiniteSet(Elements(q)) /\ Cardinality(Elements(q)) = Len(q)
         /\ \A k \in 1..Len(q) : Cardinality(Below(Elements(q), q[k])) = k - 1
<1> DEFINE n == Len(q)
           S == Elements(q)
<1>1. n \in Nat /\ q \in [1..n -> Nat] /\ S \subseteq Nat
  BY LenProperties DEF Elements
<1>2. \A j, k \in 1..n : q[j] = q[k] => j = k
  <2> SUFFICES ASSUME NEW j \in 1..n, NEW k \in 1..n, j < k PROVE q[j] # q[k]
    BY <1>1
  <2> QED BY <1>1 DEF Increasing
<1>3. ASSUME NEW m \in 0..n
      PROVE  LET T == {q[k] : k \in 1..m} IN IsFiniteSet(T) /\ Cardinality(T) = m
  <2> DEFINE T == {q[k] : k \in 1..m}
             f == [k \in 1..m |-> q[k]]
  <2>1. 1..m \subseteq 1..n
    BY <1>1
  <2>2. f \in [1..m -> T] /\ (\A j, k \in 1..m : f[j] = f[k] => j = k) /\ \A t \in T : \E k \in 1..m : f[k] = t
    BY <1>2, <2>1
  <2>3. f \in Bijection(1..m, T)
    BY <2>2, Fun_IsBij
  <2>4. IsFiniteSet(1..m) /\ Cardinality(1..m) = m
    BY <1>1, FS_Interval
  <2> QED BY <2>3, <2>4, FS_Bijection DEF ExistsBijection
<1>4. IsFiniteSet(S) /\ Cardinality(S) = n
  <2>1. n \in 0..n
    BY <1>1
  <2> QED BY <1>3, <2>1 DEF Elements
<1>5. ASSUME NEW k \in 1..n PROVE Cardinality(Below(S, q[k])) = k - 1
  <2>1. k - 1 \in 0..n /\ 1..(k - 1) \subseteq 1..n
    BY <1>1
  <2>2. \A j \in 1..n : q[j] < q[k] <=> j < k
    <3> TAKE j \in 1..n
    <3> QED BY <1>1, <1>2 DEF Increasing
  <2>3. Below(S, q[k]) = {q[j] : j \in 1..(k - 1)}
    <3>1. ASSUME NEW x \in Below(S, q[k]) PROVE x \in {q[j] : j \in 1..(k - 1)}
      <4>1. PICK j \in 1..n : x = q[j]
        BY DEF Below, Elements
      <4>2. j \in 1..(k - 1)
        BY <2>2, <4>1, <1>1 DEF Below
      <4> QED BY <4>1, <4>2
    <3>2. ASSUME NEW j \in 1..(k - 1) PROVE q[j] \in Below(S, q[k])
      BY <2>1, <2>2, <1>1 DEF Below, Elements
    <3> QED BY <3>1, <3>2
  <2> QED BY <1>3, <2>1, <2>3
<1>6. ASSUME NEW k \in 1..n
      PROVE  (CHOOSE x \in S : Cardinality(Below(S, x)) = k - 1) = q[k]
  <2>1. q[k] \in S
    BY DEF Elements
  <2>2. \A x \in S : Cardinality(Below(S, x)) = k - 1 => x = q[k]
    <3> SUFFICES ASSUME NEW j \in 1..n, Cardinality(Below(S, q[j])) = k - 1 PROVE j = k
      BY DEF Elements
    <3> QED BY <1>5
  <2> HIDE DEF S
  <2> QED BY <1>5, <2>1, <2>2
<1>7. InOrder(S) = [k \in 1..n |-> q[k]]
  <2>1. InOrder(S) = [k \in 1..n |-> CHOOSE x \in S : Cardinality(Below(S, x)) = k - 1]
    BY <1>4 DEF InOrder, Below
  <2> HIDE DEF S, n
  <2> QED BY <1>6, <2>1
<1> QED BY <1>1, <1>4, <1>5, <1>7

-----------------------------------------------------------------------------
(* Splitting.                                                              *)

Separators(text, sep) == {0, Len(text) + 1} \cup {i \in DOMAIN text : text[i] = sep}
Free(line, sep) == \A i \in 1..Len(line) : line[i] # sep

(* The places a text is split at are finitely many.                        *)
LEMMA FiniteSeparators ==
  ASSUME NEW T, NEW text \in Seq(T), NEW sep
  PROVE  Separators(text, sep) \subseteq Nat /\ IsFiniteSet(Separators(text, sep))
<1>1. Len(text) \in Nat /\ DOMAIN text = 1..Len(text)
  OBVIOUS
<1>2. Separators(text, sep) \in SUBSET (0..(Len(text) + 1))
  BY <1>1 DEF Separators
<1>3. IsFiniteSet(0..(Len(text) + 1))
  BY <1>1, FS_Interval
<1>4. IsFiniteSet(Separators(text, sep))
  BY <1>2, <1>3, FS_Subset
<1> QED BY <1>2, <1>4

(* Split takes what lies between one separator and the next, where there   *)
(* is no other.                                                            *)
LEMMA SplitShape ==
  ASSUME NEW T, NEW text \in Seq(T), NEW sep,
         NEW at, at = InOrder(Separators(text, sep))
  PROVE  /\ at \in Seq(Nat) /\ Increasing(at) /\ Elements(at) = Separators(text, sep)
         /\ Len(at) \in Nat /\ Len(at) >= 2 /\ at[1] = 0 /\ at[Len(at)] = Len(text) + 1
         /\ Split(text, sep) = [k \in 1..(Len(at) - 1) |-> SubSeq(text, at[k] + 1, at[k + 1] - 1)]
         /\ \A k \in 1..(Len(at) - 1) :
              /\ at[k] \in 0..Len(text) /\ at[k + 1] \in 1..(Len(text) + 1) /\ at[k] < at[k + 1]
              /\ \A i \in (at[k] + 1)..(at[k + 1] - 1) : text[i] # sep
<1> DEFINE S == Separators(text, sep)
           n == Len(at)
<1>1. S \subseteq Nat /\ IsFiniteSet(S) /\ Len(text) \in Nat /\ DOMAIN text = 1..Len(text)
  BY FiniteSeparators
<1>2. at \in Seq(S) /\ Increasing(at) /\ Elements(at) = S
  BY <1>1, InOrderEnumerates
<1>3. n \in Nat /\ at \in [1..n -> S] /\ at \in Seq(Nat)
  <2>1. at \in Seq(Nat)
    BY <1>1, <1>2, SeqMonotonic
  <2> QED BY <1>2, <2>1, LenProperties
<1>4. \A x \in S : x \in 0..(Len(text) + 1)
  BY <1>1 DEF Separators
<1>5. 0 \in S /\ Len(text) + 1 \in S
  BY DEF Separators
<1>6. PICK a \in 1..n : at[a] = 0
  BY <1>2, <1>5 DEF Elements
<1>7. PICK b \in 1..n : at[b] = Len(text) + 1
  BY <1>2, <1>5 DEF Elements
<1>8. \A j \in 1..n : at[j] \in 0..(Len(text) + 1)
  BY <1>3, <1>4
<1>9. \A j, k \in 1..n : j < k => at[j] < at[k]
  BY <1>2 DEF Increasing
<1>10. a = 1 /\ b = n
  <2>1. ~(1 < a)
    <3> SUFFICES ASSUME 1 < a PROVE FALSE
      OBVIOUS
    <3>1. 1 \in 1..n /\ at[1] < 0
      BY <1>3, <1>6, <1>9
    <3> QED BY <1>8, <3>1
  <2>2. ~(b < n)
    <3> SUFFICES ASSUME b < n PROVE FALSE
      OBVIOUS
    <3>1. n \in 1..n /\ Len(text) + 1 < at[n]
      BY <1>3, <1>7, <1>9
    <3>2. at[n] \in 0..(Len(text) + 1)
      BY <1>8, <3>1
    <3>3. Len(text) \in Nat
      OBVIOUS
    <3> QED BY <3>1, <3>2, <3>3
  <2>3. n \in Nat
    BY <1>3
  <2> HIDE DEF n, S
  <2> QED BY <2>1, <2>2, <2>3
<1>11. n >= 2
  BY <1>1, <1>3, <1>6, <1>7, <1>10
<1>12. Split(text, sep) = [k \in 1..(n - 1) |-> SubSeq(text, at[k] + 1, at[k + 1] - 1)]
  BY DEF Split, Separators
<1>13. ASSUME NEW k \in 1..(n - 1)
       PROVE  /\ at[k] \in 0..Len(text) /\ at[k + 1] \in 1..(Len(text) + 1) /\ at[k] < at[k + 1]
              /\ \A i \in (at[k] + 1)..(at[k + 1] - 1) : text[i] # sep
  <2>1. k \in 1..n /\ k + 1 \in 1..n
    BY <1>3
  <2>2. at[k] < at[k + 1]
    BY <1>9, <2>1
  <2>3. at[k] \in 0..(Len(text) + 1) /\ at[k + 1] \in 0..(Len(text) + 1)
    BY <1>8, <2>1
  <2>4. at[k] \in 0..Len(text) /\ at[k + 1] \in 1..(Len(text) + 1)
    BY <1>1, <2>2, <2>3
  <2>5. ASSUME NEW i \in (at[k] + 1)..(at[k + 1] - 1), text[i] = sep PROVE FALSE
    <3>1. i \in 1..Len(text)
      BY <1>1, <2>4
    <3>2. i \in S
      BY <1>1, <2>5, <3>1 DEF Separators
    <3>3. PICK j \in 1..n : at[j] = i
      BY <1>2, <3>2 DEF Elements
    <3>4. at[k] < at[j] /\ at[j] < at[k + 1]
      BY <2>4, <3>3
    <3>5. ~(j < k) /\ j # k
      <4>1. j < k => at[j] < at[k]
        BY <1>9, <2>1
      <4> QED BY <2>4, <3>1, <3>3, <3>4, <4>1
    <3>6. ~(k + 1 < j) /\ j # k + 1
      <4>1. k + 1 < j => at[k + 1] < at[j]
        BY <1>9, <2>1
      <4> QED BY <2>4, <3>1, <3>3, <3>4, <4>1
    <3> QED BY <1>3, <3>5, <3>6
  <2> QED BY <2>2, <2>4, <2>5
<1> QED BY <1>2, <1>3, <1>6, <1>7, <1>10, <1>11, <1>12, <1>13

(* The parts are texts without a separator, and at least one.              *)
LEMMA SplitParts ==
  ASSUME NEW T, NEW text \in Seq(T), NEW sep
  PROVE  /\ Split(text, sep) \in Seq(Seq(T)) /\ Len(Split(text, sep)) \in Nat \ {0}
         /\ \A k \in 1..Len(Split(text, sep)) : Free(Split(text, sep)[k], sep)
<1> DEFINE at == InOrder(Separators(text, sep))
           n == Len(at)
<1>1. /\ n \in Nat /\ n >= 2
      /\ Split(text, sep) = [k \in 1..(n - 1) |-> SubSeq(text, at[k] + 1, at[k + 1] - 1)]
      /\ \A k \in 1..(n - 1) :
           /\ at[k] \in 0..Len(text) /\ at[k + 1] \in 1..(Len(text) + 1) /\ at[k] < at[k + 1]
           /\ \A i \in (at[k] + 1)..(at[k + 1] - 1) : text[i] # sep
  BY SplitShape
<1> HIDE DEF at, n
<1>2. ASSUME NEW k \in 1..(n - 1)
      PROVE  /\ SubSeq(text, at[k] + 1, at[k + 1] - 1) \in Seq(T)
             /\ Free(SubSeq(text, at[k] + 1, at[k + 1] - 1), sep)
  <2> DEFINE a == at[k] + 1
             b == at[k + 1] - 1
  <2>0. Len(text) \in Nat
    OBVIOUS
  <2>4. at[k] \in 0..Len(text) /\ at[k + 1] \in 1..(Len(text) + 1) /\ at[k] < at[k + 1]
    BY <1>1
  <2>1. a \in 1..(Len(text) + 1) /\ b \in 0..Len(text) /\ a <= b + 1
    BY <2>0, <2>4
  <2>2. \A i \in a..b : text[i] # sep
    BY <1>1
  <2> HIDE DEF a, b
  <2>3. \A i \in a..b : text[i] \in T
    BY <2>0, <2>1
  <2>5. /\ SubSeq(text, a, b) \in Seq(T) /\ Len(SubSeq(text, a, b)) = IF a <= b THEN b - a + 1 ELSE 0
        /\ \A i \in 1..(b - a + 1) : SubSeq(text, a, b)[i] = text[a + i - 1]
    BY <2>0, <2>1, <2>3, SubSeqProperties
  <2>6. ASSUME NEW i \in 1..Len(SubSeq(text, a, b)) PROVE SubSeq(text, a, b)[i] # sep
    <3>1. i \in 1..(b - a + 1) /\ a + i - 1 \in a..b
      BY <2>0, <2>1, <2>5
    <3> QED BY <2>2, <2>5, <3>1
  <2> QED BY <2>5, <2>6 DEF Free, a, b
<1>3. Split(text, sep) \in Seq(Seq(T)) /\ Len(Split(text, sep)) = n - 1
  <2>1. n - 1 \in Nat
    BY <1>1
  <2> QED BY <1>1, <1>2, <2>1
<1>4. ASSUME NEW k \in 1..(n - 1) PROVE Free(Split(text, sep)[k], sep)
  BY <1>1, <1>2
<1> QED BY <1>1, <1>3, <1>4

(* A text without separators is its own and only part.                     *)
LEMMA SplitFree ==
  ASSUME NEW T, NEW line \in Seq(T), NEW sep, Free(line, sep)
  PROVE  Split(line, sep) = <<line>>
<1> DEFINE q == <<0, Len(line) + 1>>
<1>1. Len(line) \in Nat /\ DOMAIN line = 1..Len(line)
  OBVIOUS
<1>2. q \in Seq(Nat) /\ Len(q) = 2 /\ q[1] = 0 /\ q[2] = Len(line) + 1
  BY <1>1
<1> HIDE DEF q
<1>3. Increasing(q) /\ Elements(q) = {0, Len(line) + 1}
  BY <1>1, <1>2 DEF Increasing, Elements
<1>4. Separators(line, sep) = Elements(q)
  BY <1>1, <1>3 DEF Separators, Free
<1>5. InOrder(Separators(line, sep)) = q
  BY <1>2, <1>3, <1>4, InOrderIs
<1>6. Split(line, sep) = [k \in 1..1 |-> SubSeq(line, q[k] + 1, q[k + 1] - 1)]
  <2>1. Split(line, sep) = [k \in 1..(Len(q) - 1) |-> SubSeq(line, q[k] + 1, q[k + 1] - 1)]
    BY <1>5 DEF Split, Separators
  <2> QED BY <1>2, <2>1
<1>7. SubSeq(line, q[1] + 1, q[1 + 1] - 1) = line
  BY <1>1, <1>2, SubSeqFull
<1>8. Split(line, sep) = [k \in 1..1 |-> line]
  BY <1>6, <1>7
<1> QED BY <1>8

(* A separator and a part without any after a text give the split one more *)
(* part, that one.                                                         *)
LEMMA SplitAppend ==
  ASSUME NEW T, NEW u \in Seq(T), NEW sep \in T, NEW line \in Seq(T), Free(line, sep)
  PROVE  Split((u \o <<sep>>) \o line, sep) = Append(Split(u, sep), line)
<1> DEFINE t == (u \o <<sep>>) \o line
           m == Len(u) + 1
           at == InOrder(Separators(u, sep))
           n == Len(at)
           q == Append(at, m + Len(line) + 1)
<1>1. /\ Len(u) \in Nat /\ Len(line) \in Nat /\ m \in Nat /\ t \in Seq(T) /\ Len(t) = m + Len(line)
      /\ \A i \in 1..Len(u) : t[i] = u[i]
      /\ t[m] = sep
      /\ \A i \in (m + 1)..Len(t) : t[i] = line[i - m]
      /\ DOMAIN t = 1..Len(t) /\ DOMAIN u = 1..Len(u)
  <2>1. u \o <<sep>> \in Seq(T) /\ Len(u \o <<sep>>) = m
        /\ \A i \in 1..m : (u \o <<sep>>)[i] = IF i <= Len(u) THEN u[i] ELSE sep
    <3>1. <<sep>> \in Seq(T) /\ Len(<<sep>>) = 1 /\ <<sep>>[1] = sep
      OBVIOUS
    <3>2. Len(u) \in Nat
      OBVIOUS
    <3> QED BY <3>1, <3>2, ConcatProperties
  <2>2. t \in Seq(T) /\ Len(t) = m + Len(line)
        /\ \A i \in 1..(m + Len(line)) : t[i] = IF i <= m THEN (u \o <<sep>>)[i] ELSE line[i - m]
    BY <2>1, ConcatProperties
  <2>3. Len(u) \in Nat /\ Len(line) \in Nat /\ DOMAIN u = 1..Len(u)
    OBVIOUS
  <2>4. DOMAIN t = 1..Len(t)
    BY <2>2, LenProperties
  <2> HIDE DEF t
  <2>5. \A i \in 1..Len(u) : i \in 1..m /\ i \in 1..(m + Len(line)) /\ i <= m /\ i <= Len(u)
    BY <2>3
  <2>6. m \in 1..m /\ m \in 1..(m + Len(line)) /\ ~(m <= Len(u))
    BY <2>3
  <2>7. \A i \in (m + 1)..(m + Len(line)) : i \in 1..(m + Len(line)) /\ ~(i <= m)
    BY <2>3
  <2> QED BY <2>1, <2>2, <2>3, <2>4, <2>5, <2>6, <2>7
<1>2. /\ at \in Seq(Nat) /\ Increasing(at) /\ Elements(at) = Separators(u, sep)
      /\ n \in Nat /\ n >= 2 /\ at[n] = m
      /\ Split(u, sep) = [k \in 1..(n - 1) |-> SubSeq(u, at[k] + 1, at[k + 1] - 1)]
      /\ \A k \in 1..(n - 1) : at[k] \in 0..Len(u) /\ at[k + 1] \in 1..(Len(u) + 1) /\ at[k] < at[k + 1]
  BY SplitShape
<1> HIDE DEF t, at, n
<1>3. /\ q \in Seq(Nat) /\ Len(q) = n + 1 /\ q[n + 1] = m + Len(line) + 1
      /\ \A k \in 1..n : q[k] = at[k]
  <2>1. m + Len(line) + 1 \in Nat
    BY <1>1
  <2> QED BY <1>2, <2>1, AppendProperties DEF n
<1> HIDE DEF q
<1>4. \A k \in 1..n : at[k] \in Nat /\ at[k] <= m
  <2>1. \A k \in 1..n : at[k] \in Nat
    BY <1>2, ElementOfSeq DEF n
  <2>2. \A k \in 1..n : k < n => at[k] < at[n]
    BY <1>2 DEF Increasing, n
  <2> SUFFICES ASSUME NEW k \in 1..n PROVE at[k] <= m
    BY <2>1
  <2>3. m \in Nat /\ at[k] \in Nat /\ (k < n \/ k = n)
    BY <1>1, <1>2, <2>1
  <2> HIDE DEF m
  <2> QED BY <1>2, <2>2, <2>3
<1>5. Increasing(q)
  <2> SUFFICES ASSUME NEW j \in 1..(n + 1), NEW k \in 1..(n + 1), j < k PROVE q[j] < q[k]
    BY <1>3 DEF Increasing
  <2>1. j \in 1..n
    BY <1>2
  <2>2. CASE k \in 1..n
    <3>1. at[j] < at[k]
      BY <1>2, <2>1, <2>2 DEF Increasing, n
    <3> QED BY <1>3, <2>1, <2>2, <3>1
  <2>3. CASE k = n + 1
    <3>1. at[j] \in Nat /\ at[j] <= m
      BY <1>4, <2>1
    <3> QED BY <1>1, <1>3, <2>1, <2>3, <3>1
  <2> QED BY <1>2, <2>2, <2>3
<1>6. Elements(q) = Separators(t, sep)
  <2>1. Elements(q) = Elements(at) \cup {m + Len(line) + 1}
    <3>1. \A k \in 1..(n + 1) : k \in 1..n \/ k = n + 1
      BY <1>2
    <3>2. \A k \in 1..n : k \in 1..(n + 1)
      BY <1>2
    <3>3. n + 1 \in 1..(n + 1)
      BY <1>2
    <3> QED BY <1>3, <3>1, <3>2, <3>3 DEF Elements, n
  <2>2. Separators(t, sep) = Separators(u, sep) \cup {m + Len(line) + 1}
    <3>1. ASSUME NEW i \in 1..Len(t), t[i] = sep PROVE i \in Separators(u, sep)
      <4>1. CASE i \in 1..Len(u)
        BY <1>1, <3>1, <4>1 DEF Separators
      <4>2. CASE i = m
        BY <4>2 DEF Separators
      <4>3. CASE i \in (m + 1)..Len(t)
        <5>1. i - m \in 1..Len(line)
          BY <1>1, <4>3
        <5>2. t[i] = line[i - m] /\ line[i - m] # sep
          BY <1>1, <4>3, <5>1 DEF Free
        <5> QED BY <3>1, <5>2
      <4>4. Len(u) \in Nat /\ Len(line) \in Nat /\ Len(t) = m + Len(line)
        BY <1>1
      <4>5. i \in 1..Len(u) \/ i = m \/ i \in (m + 1)..Len(t)
        BY <4>4
      <4> QED BY <4>1, <4>2, <4>3, <4>5
    <3>2. ASSUME NEW i \in 1..Len(u), u[i] = sep PROVE i \in Separators(t, sep)
      BY <1>1, <3>2 DEF Separators
    <3>3. m \in Separators(t, sep)
      BY <1>1 DEF Separators
    <3> QED BY <1>1, <3>1, <3>2, <3>3 DEF Separators
  <2> QED BY <1>2, <2>1, <2>2
<1>7. InOrder(Separators(t, sep)) = q
  BY <1>3, <1>5, <1>6, InOrderIs
<1>8. Split(t, sep) = [k \in 1..n |-> SubSeq(t, q[k] + 1, q[k + 1] - 1)]
  <2>1. Split(t, sep) = [k \in 1..(Len(q) - 1) |-> SubSeq(t, q[k] + 1, q[k + 1] - 1)]
    BY <1>7 DEF Split, Separators
  <2> QED BY <1>2, <1>3, <2>1
<1>9. ASSUME NEW k \in 1..(n - 1)
      PROVE  SubSeq(t, q[k] + 1, q[k + 1] - 1) = SubSeq(u, at[k] + 1, at[k + 1] - 1)
  <2>1. k \in 1..n /\ k + 1 \in 1..n
    BY <1>2
  <2>2. q[k] = at[k] /\ q[k + 1] = at[k + 1]
    BY <1>3, <2>1
  <2>3. at[k] \in 0..Len(u) /\ at[k + 1] \in 1..(Len(u) + 1) /\ at[k] < at[k + 1]
    BY <1>2
  <2>4. \A a \in 1..(Len(u) + 1), b \in 0..Len(u) : a <= b + 1 => SubSeq(t, a, b) = SubSeq(u, a, b)
    <3> TAKE a \in 1..(Len(u) + 1), b \in 0..Len(u)
    <3>1. \A i \in a..b : i \in 1..Len(u) /\ i \in 1..Len(t)
      BY <1>1
    <3>2. \A i \in a..b : t[i] \in T /\ u[i] \in T /\ t[i] = u[i]
      BY <1>1, <3>1, ElementOfSeq
    <3>3. /\ SubSeq(t, a, b) \in Seq(T) /\ SubSeq(u, a, b) \in Seq(T)
          /\ Len(SubSeq(t, a, b)) = Len(SubSeq(u, a, b))
          /\ Len(SubSeq(t, a, b)) = IF a <= b THEN b - a + 1 ELSE 0
          /\ \A i \in 1..(b - a + 1) : SubSeq(t, a, b)[i] = t[a + i - 1] /\ SubSeq(u, a, b)[i] = u[a + i - 1]
      <4>1. a \in Int /\ b \in Int
        BY <1>1
      <4> QED BY <3>2, <4>1, SubSeqProperties
    <3>4. \A i \in 1..Len(SubSeq(t, a, b)) : SubSeq(t, a, b)[i] = SubSeq(u, a, b)[i]
      <4>1. \A i \in 1..Len(SubSeq(t, a, b)) : i \in 1..(b - a + 1) /\ a + i - 1 \in a..b
        BY <1>1, <3>3
      <4> QED BY <3>2, <3>3, <4>1
    <3> QED BY <3>3, <3>4, SeqEqual
  <2>5. at[k] + 1 \in 1..(Len(u) + 1) /\ at[k + 1] - 1 \in 0..Len(u) /\ at[k] + 1 <= at[k + 1] - 1 + 1
    BY <1>1, <2>3
  <2> QED BY <2>2, <2>4, <2>5
<1>10. SubSeq(t, q[n] + 1, q[n + 1] - 1) = line
  <2>1. q[n] = m /\ q[n + 1] - 1 = m + Len(line)
    BY <1>1, <1>2, <1>3
  <2>2. \A i \in (m + 1)..(m + Len(line)) : t[i] \in T
    BY <1>1, ElementOfSeq
  <2>3. /\ SubSeq(t, m + 1, m + Len(line)) \in Seq(T)
        /\ Len(SubSeq(t, m + 1, m + Len(line))) = IF m + 1 <= m + Len(line) THEN m + Len(line) - (m + 1) + 1 ELSE 0
        /\ \A i \in 1..(m + Len(line) - (m + 1) + 1) : SubSeq(t, m + 1, m + Len(line))[i] = t[m + 1 + i - 1]
    <3>1. m + 1 \in Int /\ m + Len(line) \in Int
      BY <1>1
    <3> QED BY <2>2, <3>1, SubSeqProperties
  <2>4. Len(SubSeq(t, m + 1, m + Len(line))) = Len(line)
    BY <1>1, <2>3
  <2>5. \A i \in 1..Len(line) : SubSeq(t, m + 1, m + Len(line))[i] = line[i]
    <3> TAKE i \in 1..Len(line)
    <3>1. i \in 1..(m + Len(line) - (m + 1) + 1) /\ m + 1 + i - 1 \in (m + 1)..Len(t) /\ (m + 1 + i - 1) - m = i
      BY <1>1
    <3> QED BY <1>1, <2>3, <3>1
  <2>6. SubSeq(t, m + 1, m + Len(line)) = line
    BY <2>3, <2>4, <2>5, SeqEqual
  <2> QED BY <2>1, <2>6
<1>11. Split(u, sep) \in Seq(Seq(T)) /\ Len(Split(u, sep)) = n - 1
  <2>1. Split(u, sep) \in Seq(Seq(T))
    BY SplitParts
  <2>2. n - 1 \in Nat
    BY <1>2
  <2> QED BY <1>2, <2>1, <2>2
<1>12. /\ Append(Split(u, sep), line) \in Seq(Seq(T)) /\ Len(Append(Split(u, sep), line)) = n
       /\ \A k \in 1..(n - 1) : Append(Split(u, sep), line)[k] = Split(u, sep)[k]
       /\ Append(Split(u, sep), line)[n] = line
  <2>1. n - 1 + 1 = n
    BY <1>2
  <2> QED BY <1>11, <2>1, AppendProperties
<1>13. Split(t, sep) \in Seq(Seq(T)) /\ Len(Split(t, sep)) = n
  <2>1. Split(t, sep) \in Seq(Seq(T))
    BY <1>1, SplitParts
  <2>2. DOMAIN Split(t, sep) = 1..n
    BY <1>8
  <2> QED BY <1>2, <2>1, <2>2, LenProperties
<1>14. ASSUME NEW k \in 1..n PROVE Split(t, sep)[k] = Append(Split(u, sep), line)[k]
  <2>1. CASE k \in 1..(n - 1)
    <3>1. Split(u, sep)[k] = SubSeq(u, at[k] + 1, at[k + 1] - 1)
      BY <1>2, <2>1
    <3> QED BY <1>8, <1>9, <1>12, <2>1, <3>1
  <2>2. CASE k = n
    BY <1>8, <1>10, <1>12, <2>2
  <2> QED BY <1>2, <2>1, <2>2
<1> QED BY <1>12, <1>13, <1>14, SeqEqual DEF t

-----------------------------------------------------------------------------
(* Loops, flattening, and sequences by their beginnings.                   *)

(* f is what a loop has computed after each of its n steps.                *)
LoopComputes(f, n, T, first, step) ==
    /\ f \in [0..n -> T]
    /\ f[0] = first /\ \A i \in 1..n : f[i] = step[i][f[i - 1]]

(* What a loop computes, step after step, exists.                          *)
LEMMA LoopExists ==
    ASSUME NEW n \in Nat, NEW T, NEW first \in T, NEW step \in [1..n -> [T -> T]]
    PROVE  \E f : LoopComputes(f, n, T, first, step)
<1> DEFINE Upto(m, f) == f = [i \in 0..m |-> IF i = 0 THEN first ELSE step[i][f[i - 1]]]
           S == {m \in 0..n : \E f \in [0..m -> T] : Upto(m, f)}
<1>1. 0 \in S
  <2>1. [i \in 0..0 |-> first] \in [0..0 -> T] /\ Upto(0, [i \in 0..0 |-> first])
    OBVIOUS
  <2>2. 0 \in 0..n
    OBVIOUS
  <2> HIDE DEF Upto
  <2> QED BY <2>1, <2>2
<1>2. ASSUME NEW m \in 1..n, m - 1 \in S PROVE m \in S
  <2>1. PICK f \in [0..m-1 -> T] : Upto(m - 1, f)
    BY <1>2
  <2> DEFINE g == [i \in 0..m |-> IF i = m THEN step[m][f[m - 1]] ELSE f[i]]
  <2>2. m - 1 \in 0..m-1 /\ f[m - 1] \in T /\ step[m] \in [T -> T]
    OBVIOUS
  <2>3. step[m][f[m - 1]] \in T
    BY <2>2
  <2>4. g \in [0..m -> T]
    BY <2>3
  <2>5. ASSUME NEW i \in 0..m
        PROVE  g[i] = IF i = 0 THEN first ELSE step[i][g[i - 1]]
    <3>1. CASE i = m
      <4>1. i # 0 /\ i - 1 \in 0..m /\ i - 1 # m
        BY <3>1
      <4>2. g[i - 1] = f[m - 1] /\ g[i] = step[m][f[m - 1]]
        BY <3>1, <4>1
      <4> QED BY <3>1, <4>1, <4>2
    <3>2. CASE i # m
      <4>1. i \in 0..m-1 /\ (i # 0 => i - 1 \in 0..m /\ i - 1 # m)
        BY <3>2
      <4>2. f[i] = IF i = 0 THEN first ELSE step[i][f[i - 1]]
        BY <2>1, <4>1
      <4>3. g[i] = f[i] /\ (i # 0 => g[i - 1] = f[i - 1])
        BY <3>2, <4>1
      <4> QED BY <4>2, <4>3
    <3> QED BY <3>1, <3>2
  <2>6. Upto(m, g)
    <3> HIDE DEF g
    <3>1. DOMAIN g = 0..m
      BY <2>4
    <3> QED BY <2>4, <2>5, <3>1
  <2>7. m \in 0..n
    OBVIOUS
  <2> HIDE DEF Upto, g
  <2> QED BY <2>4, <2>6, <2>7
<1>3. 0..n \subseteq S
  <2> HIDE DEF S
  <2> QED BY <1>1, <1>2, IntervalInduction
<1>4. PICK f \in [0..n -> T] : Upto(n, f)
  BY <1>3
<1>5. f[0] = first /\ \A i \in 1..n : f[i] = step[i][f[i - 1]]
  BY <1>4
<1> QED BY <1>5 DEF LoopComputes

(* Joining parts, one after another.                                       *)
LEMMA FlattenLoop ==
  ASSUME NEW T, NEW ss \in Seq(Seq(T))
  PROVE  \E f \in [0..Len(ss) -> Seq(T)] :
           /\ f[0] = << >> /\ \A i \in 1..Len(ss) : f[i] = f[i - 1] \o ss[i]
           /\ FlattenSeq(ss) = f[Len(ss)]
<1> DEFINE n == Len(ss)
           Flat(h) == h = [i \in 1..n |-> IF i = 1 THEN ss[i] ELSE h[i - 1] \o ss[i]]
           flatten == CHOOSE h : Flat(h)
           step == [i \in 1..n |-> [s \in Seq(T) |-> s \o ss[i]]]
<1>1. n \in Nat /\ \A i \in 1..n : ss[i] \in Seq(T)
  BY ElementOfSeq, LenProperties
<1>2. << >> \in Seq(T)
  OBVIOUS
<1>3. PICK f : LoopComputes(f, n, Seq(T), << >>, step)
  <2>1. \A s, t \in Seq(T) : s \o t \in Seq(T)
    BY ConcatProperties
  <2>2. step \in [1..n -> [Seq(T) -> Seq(T)]]
    BY <1>1, <2>1
  <2> HIDE DEF step, n
  <2> QED BY <1>1, <1>2, <2>2, LoopExists
<1>4. f \in [0..n -> Seq(T)] /\ f[0] = << >>
  BY <1>3 DEF LoopComputes
<1> HIDE DEF n
<1>5. ASSUME NEW i \in 1..n PROVE f[i] = f[i - 1] \o ss[i]
  <2>1. i - 1 \in 0..n
    BY <1>1
  <2>2. f[i - 1] \in Seq(T)
    BY <1>4, <2>1
  <2>3. f[i] = step[i][f[i - 1]]
    BY <1>3 DEF LoopComputes
  <2> QED BY <2>2, <2>3
<1> HIDE DEF step
<1>6. \E h : Flat(h)
  <2> DEFINE g == [i \in 1..n |-> f[i]]
  <2>1. ASSUME NEW i \in 1..n PROVE g[i] = IF i = 1 THEN ss[i] ELSE g[i - 1] \o ss[i]
    <3>1. CASE i = 1
      <4>1. f[i] = f[0] \o ss[i]
        <5>1. i - 1 = 0
          BY <3>1
        <5> QED BY <1>5, <5>1
      <4>2. << >> \o ss[i] = ss[i]
        BY <1>1, ConcatEmptySeq
      <4> QED BY <1>4, <3>1, <4>1, <4>2
    <3>2. CASE i # 1
      <4>1. i - 1 \in 1..n
        BY <1>1, <3>2
      <4> QED BY <1>5, <3>2, <4>1
    <3> QED BY <3>1, <3>2
  <2>2. g = [i \in 1..n |-> g[i]]
    OBVIOUS
  <2>3. Flat(g)
    <3> HIDE DEF g
    <3> QED BY <2>1, <2>2
  <2> HIDE DEF Flat
  <2> QED BY <2>3
<1>7. Flat(flatten)
  <2> HIDE DEF Flat
  <2> QED BY <1>6
<1>8. \A i \in 1..n : flatten[i] = IF i = 1 THEN ss[i] ELSE flatten[i - 1] \o ss[i]
  <2> HIDE DEF flatten
  <2> QED BY <1>7
<1>9. n # 0 => FlattenSeq(ss) = flatten[n]
  BY DEF FlattenSeq, n
<1> HIDE DEF flatten
<1>10. \A i \in 1..n : flatten[i] = f[i]
  <2> DEFINE S == {i \in 0..n : i = 0 \/ flatten[i] = f[i]}
  <2>1. 0 \in S
    BY <1>1
  <2>2. ASSUME NEW i \in 1..n, i - 1 \in S PROVE i \in S
    <3>1. CASE i = 1
      <4>1. f[i] = << >> \o ss[i]
        <5>1. i - 1 = 0
          BY <3>1
        <5> QED BY <1>4, <1>5, <5>1
      <4>2. << >> \o ss[i] = ss[i]
        BY <1>1, ConcatEmptySeq
      <4> QED BY <1>1, <1>8, <3>1, <4>1, <4>2
    <3>2. CASE i # 1
      <4>1. i - 1 # 0 /\ i \in 0..n
        BY <1>1, <3>2
      <4>2. flatten[i - 1] = f[i - 1]
        BY <2>2, <4>1
      <4> QED BY <1>5, <1>8, <3>2, <4>1, <4>2
    <3> QED BY <3>1, <3>2
  <2>3. 0..n \subseteq S
    <3> HIDE DEF S
    <3> QED BY <1>1, <2>1, <2>2, IntervalInduction
  <2>4. \A i \in 1..n : i \in 0..n /\ i # 0
    BY <1>1
  <2> QED BY <2>3, <2>4
<1>11. FlattenSeq(ss) = f[n]
  <2>1. CASE n = 0
    <3>1. ss = << >> /\ FlattenSeq(ss) = ss
      BY <2>1 DEF FlattenSeq, n
    <3> QED BY <1>4, <2>1, <3>1
  <2>2. CASE n # 0
    <3>1. n \in 1..n
      BY <1>1, <2>2
    <3> QED BY <1>9, <1>10, <2>2, <3>1
  <2> QED BY <2>1, <2>2
<1> QED BY <1>4, <1>5, <1>11 DEF n

(* To flatten one sequence more is to append it.                           *)
LEMMA FlattenStep ==
  ASSUME NEW T, NEW ss \in Seq(Seq(T)), NEW s \in Seq(T)
  PROVE  /\ FlattenSeq(ss) \in Seq(T)
         /\ FlattenSeq(Append(ss, s)) = FlattenSeq(ss) \o s
<1> DEFINE n == Len(ss)
           rs == Append(ss, s)
<1>1. n \in Nat
  BY LenProperties
<1>2. /\ rs \in Seq(Seq(T)) /\ Len(rs) = n + 1 /\ rs[n + 1] = s
      /\ \A i \in 1..n : rs[i] = ss[i]
  BY AppendProperties
<1> HIDE DEF rs
<1>3. PICK f \in [0..n -> Seq(T)] :
        /\ f[0] = << >> /\ \A i \in 1..n : f[i] = f[i - 1] \o ss[i]
        /\ FlattenSeq(ss) = f[n]
  BY FlattenLoop
<1>4. PICK g \in [0..(n + 1) -> Seq(T)] :
        /\ g[0] = << >> /\ \A i \in 1..(n + 1) : g[i] = g[i - 1] \o rs[i]
        /\ FlattenSeq(rs) = g[n + 1]
  <2>1. \E g \in [0..Len(rs) -> Seq(T)] :
          /\ g[0] = << >> /\ \A i \in 1..Len(rs) : g[i] = g[i - 1] \o rs[i]
          /\ FlattenSeq(rs) = g[Len(rs)]
    BY <1>2, FlattenLoop
  <2> HIDE DEF n
  <2> QED BY <1>2, <2>1
<1> HIDE DEF n
<1>5. n \in 0..n
  BY <1>1
<1>6. g[n] = f[n]
  <2> DEFINE S == {i \in 0..n : g[i] = f[i]}
  <2>1. 0 \in S
    BY <1>1, <1>3, <1>4
  <2>2. ASSUME NEW i \in 1..n, i - 1 \in S PROVE i \in S
    <3>1. i \in 1..(n + 1) /\ i \in 0..n
      BY <1>1
    <3> QED BY <1>2, <1>3, <1>4, <2>2, <3>1
  <2>3. 0..n \subseteq S
    <3> HIDE DEF S
    <3> QED BY <1>1, <2>1, <2>2, IntervalInduction
  <2> QED BY <1>5, <2>3
<1>7. g[n + 1] = g[n] \o s
  <2>1. n + 1 \in 1..(n + 1) /\ (n + 1) - 1 = n
    BY <1>1
  <2> QED BY <1>2, <1>4, <2>1
<1> QED BY <1>3, <1>4, <1>5, <1>6, <1>7 DEF rs

(* No sequences flatten to the empty one.                                  *)
LEMMA FlattenNone == FlattenSeq(<< >>) = << >>
  BY DEF FlattenSeq

(* A sequence by its beginnings.                                           *)
Upto(s, i) == SubSeq(s, 1, i)

(* A sequence grows by its own elements from the empty one to itself.      *)
LEMMA Beginnings ==
  ASSUME NEW T, NEW s \in Seq(T)
  PROVE  /\ Upto(s, 0) = << >> /\ Upto(s, Len(s)) = s
         /\ \A i \in 0..Len(s) : Upto(s, i) \in Seq(T) /\ Len(Upto(s, i)) = i
                                 /\ \A j \in 1..i : Upto(s, i)[j] = s[j]
         /\ \A i \in 1..Len(s) : Upto(s, i) = Append(Upto(s, i - 1), s[i])
<1>1. Len(s) \in Nat /\ \A i \in 1..Len(s) : s[i] \in T
  BY ElementOfSeq, LenProperties
<1>2. Upto(s, 0) = << >> /\ Upto(s, Len(s)) = s
  BY SubSeqEmpty, SubSeqFull DEF Upto
<1>3. ASSUME NEW i \in 0..Len(s)
      PROVE  Upto(s, i) \in Seq(T) /\ Len(Upto(s, i)) = i /\ \A j \in 1..i : Upto(s, i)[j] = s[j]
  <2>1. \A j \in 1..i : s[j] \in T
    BY <1>1
  <2>2. /\ Upto(s, i) \in Seq(T) /\ Len(Upto(s, i)) = IF 1 <= i THEN i - 1 + 1 ELSE 0
        /\ \A j \in 1..(i - 1 + 1) : Upto(s, i)[j] = s[1 + j - 1]
    <3>1. 1 \in Int /\ i \in Int
      BY <1>1
    <3> QED BY <2>1, <3>1, SubSeqProperties DEF Upto
  <2>3. i - 1 + 1 = i /\ i \in Nat /\ \A j \in 1..i : 1 + j - 1 = j
    BY <1>1
  <2> QED BY <2>2, <2>3
<1>4. ASSUME NEW i \in 1..Len(s) PROVE Upto(s, i) = Append(Upto(s, i - 1), s[i])
  <2>1. i \in 0..Len(s) /\ i - 1 \in 0..Len(s) /\ s[i] \in T
    BY <1>1
  <2>2. /\ Append(Upto(s, i - 1), s[i]) \in Seq(T) /\ Len(Append(Upto(s, i - 1), s[i])) = i - 1 + 1
        /\ \A j \in 1..(i - 1) : Append(Upto(s, i - 1), s[i])[j] = Upto(s, i - 1)[j]
        /\ Append(Upto(s, i - 1), s[i])[i - 1 + 1] = s[i]
    BY <1>3, <2>1, AppendProperties
  <2>3. i - 1 + 1 = i
    BY <1>1
  <2>4. ASSUME NEW j \in 1..i PROVE Upto(s, i)[j] = Append(Upto(s, i - 1), s[i])[j]
    <3>1. j \in 1..(i - 1) \/ j = i
      BY <1>1
    <3> QED BY <1>3, <2>1, <2>2, <2>3, <3>1
  <2> QED BY <1>3, <2>1, <2>2, <2>3, <2>4, SeqEqual
<1> QED BY <1>2, <1>3, <1>4

-----------------------------------------------------------------------------
(* Lines.                                                                  *)

(* The bytes that the code names are bytes.                                *)
LEMMA ByteTypes == NL \in Bytes /\ SPACE \in Bytes /\ COMMA \in Bytes /\ COLON \in Bytes /\ Digits \subseteq Bytes
  BY DEF NL, SPACE, COMMA, COLON, Digits, Bytes

(* A sequence that is not empty is its front and its last element.         *)
LEMMA FrontLast ==
  ASSUME NEW T, NEW t \in Seq(T), t # << >>
  PROVE  /\ Front(t) \in Seq(T) /\ Last(t) \in T /\ Len(t) \in Nat \ {0} /\ Len(Front(t)) = Len(t) - 1
         /\ t = Append(Front(t), Last(t)) /\ t = Front(t) \o <<Last(t)>>
         /\ \A i \in 1..(Len(t) - 1) : Front(t)[i] = t[i]
<1>1. Len(t) \in Nat \ {0} /\ \A i \in 1..Len(t) : t[i] \in T
  BY EmptySeq, ElementOfSeq
<1>2. Len(t) \in 1..Len(t) /\ Len(t) - 1 \in 0..Len(t)
  BY <1>1
<1>3. Front(t) = Upto(t, Len(t) - 1) /\ Last(t) = t[Len(t)]
  BY DEF Front, Last, Upto
<1>4. /\ Front(t) \in Seq(T) /\ Len(Front(t)) = Len(t) - 1
      /\ \A i \in 1..(Len(t) - 1) : Front(t)[i] = t[i]
  <2>1. \A i \in 0..Len(t) : Upto(t, i) \in Seq(T) /\ Len(Upto(t, i)) = i /\ \A j \in 1..i : Upto(t, i)[j] = t[j]
    BY Beginnings
  <2> QED BY <1>2, <1>3, <2>1
<1>5. t = Append(Front(t), Last(t))
  BY <1>2, <1>3, Beginnings
<1>6. Append(Front(t), Last(t)) = Front(t) \o <<Last(t)>>
  BY <1>1, <1>2, <1>3, <1>4, AppendIsConcat
<1> QED BY <1>1, <1>2, <1>3, <1>4, <1>5, <1>6

(* ... and an appended element is the last.                                *)
LEMMA FrontOfAppend ==
  ASSUME NEW T, NEW s \in Seq(T), NEW e \in T
  PROVE  Append(s, e) # << >> /\ Front(Append(s, e)) = s /\ Last(Append(s, e)) = e
<1>1. /\ Append(s, e) \in Seq(T) /\ Append(s, e) # << >> /\ Append(s, e)[Len(s) + 1] = e
      /\ Len(Append(s, e)) = Len(s) + 1
  BY AppendProperties
<1>2. Last(Append(s, e)) = e
  BY <1>1 DEF Last
<1>3. Append(s, e) = Append(Front(Append(s, e)), Last(Append(s, e))) /\ Front(Append(s, e)) \in Seq(T)
  BY <1>1, FrontLast
<1>4. Front(Append(s, e)) = s
  BY <1>2, <1>3, AppendInjective
<1> QED BY <1>1, <1>2, <1>4

(* Lines hold no line feed.                                                *)
Lines == {lines \in Seq(Texts) : \A k \in 1..Len(lines) : Free(lines[k], NL)}

(* Lines hold no line feed, whatever the text.                             *)
LEMMA LinesType ==
  ASSUME NEW text \in Texts
  PROVE  SplitLines(text) \in Lines
<1>1. CASE text = << >>
  <2>1. SplitLines(text) = << >>
    BY <1>1 DEF SplitLines
  <2> QED BY <2>1 DEF Lines
<1>2. CASE text # << >>
  <2> DEFINE body == IF Last(text) = NL THEN Front(text) ELSE text
  <2>1. body \in Seq(Bytes) /\ SplitLines(text) = Split(body, NL)
    BY <1>2, FrontLast DEF SplitLines, Texts
  <2> HIDE DEF body
  <2>2. Split(body, NL) \in Seq(Seq(Bytes)) /\ \A k \in 1..Len(Split(body, NL)) : Free(Split(body, NL)[k], NL)
    BY <2>1, SplitParts
  <2> QED BY <2>1, <2>2 DEF Lines, Texts
<1> QED BY <1>1, <1>2

(* A text followed by an ended line is a text that ends so.                *)
LEMMA EndedLine ==
  ASSUME NEW text \in Texts, NEW line \in Texts
  PROVE  text \o line \in Texts /\ text \o Append(line, NL) = Append(text \o line, NL)
<1>1. text \in Seq(Bytes) /\ line \in Seq(Bytes) /\ NL \in Bytes /\ <<NL>> \in Seq(Bytes)
  BY ByteTypes DEF Texts
<1>2. Append(line, NL) = line \o <<NL>>
  BY <1>1, AppendIsConcat
<1>3. text \o line \in Seq(Bytes)
  BY <1>1, ConcatProperties
<1>4. text \o (line \o <<NL>>) = (text \o line) \o <<NL>>
  BY <1>1, ConcatAssociative
<1>5. (text \o line) \o <<NL>> = Append(text \o line, NL)
  BY <1>1, <1>3, AppendIsConcat
<1> QED BY <1>2, <1>3, <1>4, <1>5 DEF Texts

(* A line after a text that ends with a line feed, or after none, is one   *)
(* line more.                                                              *)
LEMMA LineAppended ==
  ASSUME NEW text \in Texts, text # << >> => Last(text) = NL, NEW line \in Texts, Free(line, NL)
  PROVE  SplitLines(text \o Append(line, NL)) = Append(SplitLines(text), line)
<1>1. text \in Seq(Bytes) /\ line \in Seq(Bytes) /\ NL \in Bytes /\ <<NL>> \in Seq(Bytes)
  BY ByteTypes DEF Texts
<1>2. Append(line, NL) = line \o <<NL>> /\ Append(line, NL) \in Seq(Bytes)
  BY <1>1, AppendIsConcat, AppendProperties
<1>3. /\ text \o line \in Seq(Bytes)
      /\ text \o Append(line, NL) = Append(text \o line, NL)
  BY EndedLine DEF Texts
<1>4. SplitLines(text \o Append(line, NL)) = Split(text \o line, NL)
  <2>1. /\ Append(text \o line, NL) # << >> /\ Front(Append(text \o line, NL)) = text \o line
        /\ Last(Append(text \o line, NL)) = NL
    BY <1>1, <1>3, FrontOfAppend
  <2> QED BY <1>3, <2>1 DEF SplitLines
<1>5. CASE text = << >>
  <2>1. text \o line = line /\ SplitLines(text) = << >>
    BY <1>1, <1>5, ConcatEmptySeq DEF SplitLines
  <2>2. Split(line, NL) = <<line>>
    BY <1>1, SplitFree
  <2>3. Append(<< >>, line) = <<line>>
    OBVIOUS
  <2> QED BY <1>4, <2>1, <2>2, <2>3
<1>6. CASE text # << >>
  <2>1. /\ Last(text) = NL /\ Front(text) \in Seq(Bytes) /\ text = Front(text) \o <<NL>>
    BY <1>1, <1>6, FrontLast
  <2>2. SplitLines(text) = Split(Front(text), NL)
    BY <1>6, <2>1 DEF SplitLines
  <2>3. Split((Front(text) \o <<NL>>) \o line, NL) = Append(Split(Front(text), NL), line)
    BY <1>1, <2>1, SplitAppend
  <2> QED BY <1>4, <2>1, <2>2, <2>3
<1> QED BY <1>5, <1>6

(* A text made of lines ends with a line feed.                             *)
LEMMA JoinStep ==
  ASSUME NEW lines \in Seq(Texts), NEW line \in Texts
  PROVE  /\ JoinLines(lines) \in Texts
         /\ JoinLines(Append(lines, line)) = JoinLines(lines) \o Append(line, NL)
<1> DEFINE ended(ls) == [k \in DOMAIN ls |-> Append(ls[k], NL)]
<1>1. ASSUME NEW ls \in Seq(Texts) PROVE ended(ls) \in Seq(Seq(Bytes)) /\ Len(ended(ls)) = Len(ls)
                                         /\ \A k \in 1..Len(ls) : ended(ls)[k] = Append(ls[k], NL)
  <2>1. Len(ls) \in Nat /\ DOMAIN ls = 1..Len(ls) /\ \A k \in 1..Len(ls) : ls[k] \in Seq(Bytes)
    BY ElementOfSeq, LenProperties DEF Texts
  <2>2. \A k \in 1..Len(ls) : Append(ls[k], NL) \in Seq(Bytes)
    BY <2>1, ByteTypes, AppendProperties
  <2> QED BY <2>1, <2>2
<1>2. Append(line, NL) \in Seq(Bytes)
  BY ByteTypes, AppendProperties DEF Texts
<1>3. ended(Append(lines, line)) = Append(ended(lines), Append(line, NL))
  <2>1. /\ Append(lines, line) \in Seq(Texts) /\ Len(Append(lines, line)) = Len(lines) + 1
        /\ \A k \in 1..Len(lines) : Append(lines, line)[k] = lines[k]
        /\ Append(lines, line)[Len(lines) + 1] = line
    BY AppendProperties
  <2> DEFINE p == ended(Append(lines, line))
             q == Append(ended(lines), Append(line, NL))
             n == Len(lines)
  <2>2. /\ p \in Seq(Seq(Bytes)) /\ Len(p) = n + 1
        /\ \A k \in 1..(n + 1) : p[k] = Append(Append(lines, line)[k], NL)
    BY <1>1, <2>1
  <2>3. /\ ended(lines) \in Seq(Seq(Bytes)) /\ Len(ended(lines)) = n
        /\ \A k \in 1..n : ended(lines)[k] = Append(lines[k], NL)
    BY <1>1
  <2> HIDE DEF ended
  <2>4. /\ q \in Seq(Seq(Bytes)) /\ Len(q) = n + 1 /\ q[n + 1] = Append(line, NL)
        /\ \A k \in 1..n : q[k] = ended(lines)[k]
    BY <1>2, <2>3, AppendProperties
  <2>5. n \in Nat
    BY LenProperties
  <2> HIDE DEF p, q, n
  <2>6. ASSUME NEW k \in 1..(n + 1) PROVE p[k] = q[k]
    <3>1. k \in 1..n \/ k = n + 1
      BY <2>5
    <3> QED BY <2>1, <2>2, <2>3, <2>4, <3>1 DEF n
  <2>7. p = q
    BY <2>2, <2>4, <2>6, SeqEqual
  <2> QED BY <2>7 DEF p, q
<1>4. ended(lines) \in Seq(Seq(Bytes))
  BY <1>1
<1>5. JoinLines(lines) = FlattenSeq(ended(lines)) /\ JoinLines(Append(lines, line)) = FlattenSeq(ended(Append(lines, line)))
  BY DEF JoinLines
<1> HIDE DEF ended
<1> QED BY <1>2, <1>3, <1>4, <1>5, FlattenStep DEF Texts

(* No lines are no text.                                                   *)
LEMMA JoinNone == JoinLines(<< >>) = << >>
<1>1. [k \in DOMAIN << >> |-> Append(<< >>[k], NL)] = << >>
  OBVIOUS
<1> QED BY <1>1, FlattenNone DEF JoinLines

(* Lines that were joined are found again.                                 *)
LEMMA LinesRestored ==
  ASSUME NEW lines \in Lines
  PROVE  JoinLines(lines) \in Texts /\ SplitLines(JoinLines(lines)) = lines
<1> DEFINE n == Len(lines)
           text(i) == JoinLines(Upto(lines, i))
           Good(i) == /\ text(i) \in Texts /\ (text(i) # << >> => Last(text(i)) = NL)
                      /\ SplitLines(text(i)) = Upto(lines, i)
           S == {i \in 0..n : Good(i)}
<1>1. /\ lines \in Seq(Texts) /\ n \in Nat
      /\ \A k \in 1..n : lines[k] \in Texts /\ Free(lines[k], NL)
  BY ElementOfSeq, LenProperties DEF Lines
<1>2. 0 \in S
  <2>1. text(0) = << >>
    BY <1>1, Beginnings, JoinNone
  <2>2. SplitLines(<< >>) = << >> /\ << >> \in Texts
    BY DEF SplitLines, Texts
  <2> QED BY <1>1, <2>1, <2>2, Beginnings
<1>3. ASSUME NEW i \in 1..n, i - 1 \in S PROVE i \in S
  <2>1. i \in 0..n /\ i - 1 \in 0..n
    BY <1>1
  <2>2. Good(i - 1)
    BY <1>3
  <2>3. Upto(lines, i - 1) \in Seq(Texts) /\ Upto(lines, i) = Append(Upto(lines, i - 1), lines[i])
    BY <1>1, <2>1, Beginnings
  <2>4. text(i) = text(i - 1) \o Append(lines[i], NL)
    BY <1>1, <2>3, JoinStep
  <2>5. SplitLines(text(i)) = Upto(lines, i)
    BY <1>1, <2>2, <2>3, <2>4, LineAppended
  <2>6. text(i) \in Texts /\ text(i) # << >> /\ Last(text(i)) = NL
    <3> DEFINE p == text(i - 1)
    <3>1. /\ p \in Seq(Bytes) /\ lines[i] \in Seq(Bytes) /\ NL \in Bytes /\ <<NL>> \in Seq(Bytes)
      BY <1>1, <2>2, ByteTypes DEF Texts
    <3> HIDE DEF p
    <3>2. p \o Append(lines[i], NL) = Append(p \o lines[i], NL) /\ p \o lines[i] \in Seq(Bytes)
      BY <3>1, EndedLine DEF Texts
    <3>3. /\ Append(p \o lines[i], NL) # << >> /\ Last(Append(p \o lines[i], NL)) = NL
          /\ Append(p \o lines[i], NL) \in Seq(Bytes)
      <4> DEFINE q == p \o lines[i]
      <4>1. q \in Seq(Bytes) /\ NL \in Bytes
        BY <3>1, <3>2
      <4> HIDE DEF q
      <4>2. Append(q, NL) # << >> /\ Last(Append(q, NL)) = NL
        BY <4>1, FrontOfAppend
      <4>3. Append(q, NL) \in Seq(Bytes)
        BY <4>1, AppendProperties
      <4> QED BY <4>2, <4>3 DEF q
    <3>4. text(i) = Append(p \o lines[i], NL)
      BY <2>4, <3>2 DEF p
    <3> HIDE DEF text
    <3> QED BY <3>3, <3>4 DEF Texts
  <2> HIDE DEF text
  <2> QED BY <2>1, <2>5, <2>6
<1>4. n \in S
  <2> HIDE DEF S, n
  <2>1. 0..n \subseteq S
    BY <1>1, <1>2, <1>3, IntervalInduction
  <2>2. n \in 0..n
    BY <1>1
  <2> QED BY <2>1, <2>2
<1>5. Upto(lines, n) = lines
  BY <1>1, Beginnings
<1> QED BY <1>4, <1>5

-----------------------------------------------------------------------------
(* Numbers in decimal.                                                     *)

DecimalStep(g, i) == IF i < 10 THEN <<48 + i>> ELSE g[i \div 10] \o <<48 + (i % 10)>>
DecimalUpto(n, g) == g \in [0..n -> Seq(Digits)] /\ \A i \in 0..n : g[i] = DecimalStep(g, i)

(* The last digit of a number and what is before it.                       *)
LEMMA DigitOf ==
  ASSUME NEW i \in Nat
  PROVE  /\ i % 10 \in 0..9 /\ 48 + (i % 10) \in Digits /\ (i < 10 => 48 + i \in Digits)
         /\ i \div 10 \in Nat /\ (i >= 10 => i \div 10 \in 0..(i - 1)) /\ i = 10 * (i \div 10) + (i % 10)
<1>1. i % 10 \in 0..9 /\ i \div 10 \in Nat /\ i = 10 * (i \div 10) + (i % 10)
  OBVIOUS
<1> QED BY <1>1 DEF Digits

(* One step of Decimal gives digits if the step before did.                *)
LEMMA StepTypes ==
  ASSUME NEW i \in Nat, NEW g, i >= 10 => g[i \div 10] \in Seq(Digits)
  PROVE  DecimalStep(g, i) \in Seq(Digits)
<1>1. CASE i < 10
  BY <1>1, DigitOf DEF DecimalStep
<1>2. CASE i >= 10
  <2>1. <<48 + (i % 10)>> \in Seq(Digits)
    BY DigitOf
  <2>2. g[i \div 10] \o <<48 + (i % 10)>> \in Seq(Digits)
    BY <1>2, <2>1, ConcatProperties
  <2> QED BY <1>2, <2>2 DEF DecimalStep
<1> QED BY <1>1, <1>2

(* Up to any bound there is a function that computes as Decimal is         *)
(* written.                                                                *)
LEMMA DecimalsUpto ==
  ASSUME NEW n \in Nat
  PROVE  \E g : DecimalUpto(n, g)
<1> DEFINE S == {i \in 0..n : \E g : DecimalUpto(i, g)}
<1>1. 0 \in S
  <2> DEFINE g == [i \in 0..0 |-> <<48>>]
  <2>1. 48 \in Digits
    BY DEF Digits
  <2>2. DecimalUpto(0, g)
    BY <2>1 DEF DecimalUpto, DecimalStep
  <2> HIDE DEF g
  <2> QED BY <2>2
<1>2. ASSUME NEW i \in 1..n, i - 1 \in S PROVE i \in S
  <2>1. PICK g : DecimalUpto(i - 1, g)
    BY <1>2
  <2> DEFINE h == [j \in 0..i |-> IF j = i THEN DecimalStep(g, i) ELSE g[j]]
  <2>2. i \in Nat /\ \A j \in 0..i : j \in Nat /\ (j # i => j \in 0..(i - 1))
    OBVIOUS
  <2>3. i >= 10 => g[i \div 10] \in Seq(Digits)
    BY <2>1, <2>2, DigitOf DEF DecimalUpto
  <2>4. DecimalStep(g, i) \in Seq(Digits)
    BY <2>2, <2>3, StepTypes
  <2>5. h \in [0..i -> Seq(Digits)]
    BY <2>1, <2>2, <2>4 DEF DecimalUpto
  <2>6. ASSUME NEW j \in 0..i PROVE DecimalStep(h, j) = DecimalStep(g, j)
    <3>1. j >= 10 => j \div 10 \in 0..(j - 1)
      BY <2>2, DigitOf
    <3>2. j >= 10 => j \div 10 \in 0..i /\ j \div 10 # i
      BY <3>1, <2>2
    <3>3. j >= 10 => h[j \div 10] = g[j \div 10]
      BY <3>2
    <3>4. j < 10 \/ j >= 10
      BY <2>2
    <3> HIDE DEF h
    <3> QED BY <3>3, <3>4 DEF DecimalStep
  <2>7. ASSUME NEW j \in 0..i PROVE h[j] = DecimalStep(h, j)
    <3>1. CASE j = i
      BY <2>6, <3>1
    <3>2. CASE j # i
      <4>1. g[j] = DecimalStep(g, j)
        BY <2>1, <2>2, <3>2 DEF DecimalUpto
      <4>2. h[j] = g[j]
        BY <3>2
      <4> HIDE DEF h
      <4> QED BY <2>6, <4>1, <4>2
    <3> QED BY <3>1, <3>2
  <2>8. DecimalUpto(i, h)
    <3> HIDE DEF h
    <3> QED BY <2>5, <2>7 DEF DecimalUpto
  <2>9. i \in 0..n
    OBVIOUS
  <2> HIDE DEF h
  <2> QED BY <2>8, <2>9
<1>3. n \in S
  <2> HIDE DEF S
  <2>1. 0..n \subseteq S
    BY <1>1, <1>2, IntervalInduction
  <2> QED BY <2>1
<1> QED BY <1>3

(* ... and any two of them agree.                                          *)
LEMMA DecimalsAgree ==
  ASSUME NEW n \in Nat, NEW m \in Nat, NEW g, NEW h, DecimalUpto(n, g), DecimalUpto(m, h),
         NEW k \in Nat, k <= n, k <= m
  PROVE  g[k] = h[k]
<1> DEFINE S == {i \in 0..k : \A j \in 0..i : g[j] = h[j]}
<1>1. \A i \in 0..k : g[i] = DecimalStep(g, i) /\ h[i] = DecimalStep(h, i)
  BY DEF DecimalUpto
<1>2. 0 \in S
  <2>0. 0 \in 0..k
    OBVIOUS
  <2>3. g[0] = DecimalStep(g, 0) /\ h[0] = DecimalStep(h, 0)
    BY <1>1, <2>0
  <2>4. DecimalStep(g, 0) = <<48 + 0>> /\ DecimalStep(h, 0) = <<48 + 0>>
    BY DEF DecimalStep
  <2>1. g[0] = h[0] /\ 0 \in 0..k
    BY <2>0, <2>3, <2>4
  <2>2. \A j \in 0..0 : j = 0
    OBVIOUS
  <2> QED BY <2>1, <2>2
<1>3. ASSUME NEW i \in 1..k, i - 1 \in S PROVE i \in S
  <2>1. \A j \in 0..(i - 1) : g[j] = h[j]
    BY <1>3
  <2>2. DecimalStep(g, i) = DecimalStep(h, i)
    <3>1. i < 10 \/ g[i \div 10] = h[i \div 10]
      BY <2>1, DigitOf
    <3> QED BY <3>1 DEF DecimalStep
  <2>3. \A j \in 0..i : j \in 0..(i - 1) \/ j = i
    OBVIOUS
  <2>4. i \in 0..k
    OBVIOUS
  <2> QED BY <1>1, <2>1, <2>2, <2>3, <2>4
<1>4. k \in S
  <2> HIDE DEF S
  <2>1. 0..k \subseteq S
    BY <1>2, <1>3, IntervalInduction
  <2> QED BY <2>1
<1> QED BY <1>4

(* The decimal of a number is at least one digit.                          *)
LEMMA DecimalIs ==
  /\ \A n \in Nat : /\ n < 10 => Decimal[n] = <<48 + n>>
                    /\ n >= 10 => Decimal[n] = Decimal[n \div 10] \o <<48 + (n % 10)>>
  /\ \A n \in Nat : Decimal[n] \in Seq(Digits)
<1> DEFINE upto(n) == CHOOSE g : DecimalUpto(n, g)
           D == [n \in Nat |-> upto(n)[n]]
           Rec(f) == f = [n \in Nat |-> IF n < 10 THEN <<48 + n>> ELSE f[n \div 10] \o <<48 + (n % 10)>>]
<1>1. \A n \in Nat : DecimalUpto(n, upto(n))
  BY DecimalsUpto
<1> HIDE DEF upto
<1>2. ASSUME NEW n \in Nat PROVE D[n] = DecimalStep(D, n)
  <2>1. D[n] = DecimalStep(upto(n), n)
    <3>1. n \in 0..n
      OBVIOUS
    <3> QED BY <1>1, <3>1 DEF DecimalUpto
  <2>2. CASE n >= 10
    <3>1. n \div 10 \in Nat /\ n \div 10 <= n
      BY <2>2, DigitOf
    <3>2. upto(n)[n \div 10] = upto(n \div 10)[n \div 10]
      <4> DEFINE k == n \div 10
      <4>1. k \in Nat /\ k <= n /\ k <= k
        BY <3>1
      <4> HIDE DEF k
      <4>2. upto(n)[k] = upto(k)[k]
        BY <1>1, <4>1, DecimalsAgree
      <4> QED BY <4>2 DEF k
    <3>3. upto(n)[n \div 10] = D[n \div 10]
      BY <3>1, <3>2
    <3> QED BY <2>1, <2>2, <3>3 DEF DecimalStep
  <2>3. CASE n < 10
    BY <2>1, <2>3 DEF DecimalStep
  <2> QED BY <2>2, <2>3
<1>3. Rec(D)
  <2>1. D = [n \in Nat |-> D[n]]
    OBVIOUS
  <2> HIDE DEF D
  <2>2. \A n \in Nat : D[n] = IF n < 10 THEN <<48 + n>> ELSE D[n \div 10] \o <<48 + (n % 10)>>
    BY <1>2 DEF DecimalStep
  <2> QED BY <2>1, <2>2
<1>4. Rec(Decimal)
  <2>1. Decimal = CHOOSE f : Rec(f)
    BY DEF Decimal
  <2> HIDE DEF Rec
  <2> QED BY <1>3, <2>1
<1>5. \A n \in Nat : Decimal[n] = DecimalStep(Decimal, n)
  BY <1>4 DEF DecimalStep
<1>6. ASSUME NEW n \in Nat PROVE Decimal[n] \in Seq(Digits)
  <2> DEFINE S == {i \in 0..n : \A j \in 0..i : Decimal[j] \in Seq(Digits)}
  <2>1. ASSUME NEW i \in 0..n, \A j \in 0..(i - 1) : Decimal[j] \in Seq(Digits)
        PROVE  Decimal[i] \in Seq(Digits)
    <3>1. i >= 10 => Decimal[i \div 10] \in Seq(Digits)
      BY <2>1, DigitOf
    <3> QED BY <1>5, <3>1, StepTypes
  <2>2. 0 \in S
    <3>1. Decimal[0] \in Seq(Digits) /\ 0 \in 0..n
      BY <2>1
    <3> QED BY <3>1
  <2>3. ASSUME NEW i \in 1..n, i - 1 \in S PROVE i \in S
    <3>1. \A j \in 0..(i - 1) : Decimal[j] \in Seq(Digits)
      BY <2>3
    <3>2. i \in 0..n /\ \A j \in 0..i : j \in 0..(i - 1) \/ j = i
      OBVIOUS
    <3> QED BY <2>1, <3>1, <3>2
  <2>4. n \in S
    <3> HIDE DEF S
    <3>1. 0..n \subseteq S
      BY <2>2, <2>3, IntervalInduction
    <3> QED BY <3>1
  <2> QED BY <2>4
<1>7. ASSUME NEW n \in Nat
      PROVE  /\ n < 10 => Decimal[n] = <<48 + n>>
             /\ n >= 10 => Decimal[n] = Decimal[n \div 10] \o <<48 + (n % 10)>>
  <2>1. Decimal[n] = IF n < 10 THEN <<48 + n>> ELSE Decimal[n \div 10] \o <<48 + (n % 10)>>
    BY <1>4
  <2>2. n >= 10 => ~(n < 10)
    OBVIOUS
  <2> QED BY <2>1, <2>2, Zenon
<1> QED BY <1>6, <1>7

(* A number in decimal holds neither a line feed nor a space.              *)
LEMMA DecimalFree ==
  ASSUME NEW n \in Nat
  PROVE  Decimal[n] \in Texts /\ Free(Decimal[n], NL) /\ Free(Decimal[n], SPACE)
<1>1. Decimal[n] \in Seq(Digits)
  BY DecimalIs
<1>2. \A i \in 1..Len(Decimal[n]) : Decimal[n][i] \in Digits
  BY <1>1, ElementOfSeq
<1>3. Decimal[n] \in Texts
  BY <1>1, ByteTypes, SeqMonotonic DEF Texts
<1>4. NL \notin Digits /\ SPACE \notin Digits
  BY DEF NL, SPACE, Digits
<1> QED BY <1>2, <1>3, <1>4 DEF Free

-----------------------------------------------------------------------------
(* Limits, head and tail.                                                  *)

(* Least gives the smaller number.                                         *)
LEMMA LeastIs ==
  ASSUME NEW m \in Int, NEW n \in Int
  PROVE  /\ Least(m, n) \in {m, n} /\ Least(m, n) <= m /\ Least(m, n) <= n
         /\ n <= m => Least(m, n) = n
  BY DEF Least

(* Clamp keeps a beginning within the limit, and all of a text that is.    *)
LEMMA ClampIs ==
  ASSUME NEW T, NEW text \in Seq(T), NEW limit \in Nat
  PROVE  /\ Clamp(text, limit) \in Seq(T) /\ Len(Clamp(text, limit)) = Least(limit, Len(text))
         /\ \A i \in 1..Least(limit, Len(text)) : Clamp(text, limit)[i] = text[i]
         /\ Len(text) <= limit => Clamp(text, limit) = text
<1>1. Len(text) \in Nat
  BY LenProperties
<1>2. Least(limit, Len(text)) \in 0..Len(text) /\ (Len(text) <= limit => Least(limit, Len(text)) = Len(text))
  BY <1>1 DEF Least
<1>3. Clamp(text, limit) = Upto(text, Least(limit, Len(text)))
  BY DEF Clamp, Upto
<1> QED BY <1>2, <1>3, Beginnings

(* The limits are positive numbers.                                        *)
LEMMA LimitTypes ==
  /\ MaxLineLength \in Nat \ {0} /\ MaxFileReadBytes \in Nat \ {0} /\ MaxResultBytes \in Nat \ {0}
  /\ MaxStdin \in Nat \ {0} /\ MaxStdout \in Nat \ {0} /\ MaxGrepMatches \in Nat \ {0}
  BY LimitsAssumption

(* A clamped line is a beginning of it, and holds no separator it did not  *)
(* hold.                                                                   *)
LEMMA ClampedLine ==
  ASSUME NEW line \in Texts
  PROVE  /\ ClampLine(line) \in Texts /\ Len(ClampLine(line)) = Least(MaxLineLength, Len(line))
         /\ \A i \in 1..Least(MaxLineLength, Len(line)) : ClampLine(line)[i] = line[i]
         /\ \A sep : Free(line, sep) => Free(ClampLine(line), sep)
<1>1. /\ ClampLine(line) \in Texts /\ Len(ClampLine(line)) = Least(MaxLineLength, Len(line))
      /\ \A i \in 1..Least(MaxLineLength, Len(line)) : ClampLine(line)[i] = line[i]
  BY LimitTypes, ClampIs DEF ClampLine, Texts
<1>2. ASSUME NEW sep, Free(line, sep) PROVE Free(ClampLine(line), sep)
  <2>1. Len(line) \in Nat
    BY LenProperties DEF Texts
  <2>2. \A i \in 1..Least(MaxLineLength, Len(line)) : i \in 1..Len(line)
    BY <2>1, LimitTypes DEF Least
  <2> QED BY <1>1, <1>2, <2>2 DEF Free
<1> QED BY <1>1, <1>2

(* Clamping lines clamps each.                                             *)
LEMMA ClampedLines ==
  ASSUME NEW lines \in Lines
  PROVE  /\ ClampLines(lines) \in Lines /\ Len(ClampLines(lines)) = Len(lines)
         /\ \A k \in 1..Len(lines) : ClampLines(lines)[k] = ClampLine(lines[k])
<1>1. /\ lines \in Seq(Texts) /\ Len(lines) \in Nat /\ DOMAIN lines = 1..Len(lines)
      /\ \A k \in 1..Len(lines) : lines[k] \in Texts /\ Free(lines[k], NL)
  BY ElementOfSeq, LenProperties DEF Lines
<1>2. \A k \in 1..Len(lines) : ClampLine(lines[k]) \in Texts /\ Free(ClampLine(lines[k]), NL)
  BY <1>1, ClampedLine
<1>3. /\ ClampLines(lines) \in Seq(Texts) /\ Len(ClampLines(lines)) = Len(lines)
      /\ \A k \in 1..Len(lines) : ClampLines(lines)[k] = ClampLine(lines[k])
  BY <1>1, <1>2 DEF ClampLines
<1> QED BY <1>2, <1>3 DEF Lines

(* A part of lines, and lines made one by one.                             *)
LEMMA SubLines ==
  ASSUME NEW lines \in Lines, NEW m \in 1..(Len(lines) + 1), NEW n \in 0..Len(lines)
  PROVE  /\ SubSeq(lines, m, n) \in Lines
         /\ Len(SubSeq(lines, m, n)) = IF m <= n THEN n - m + 1 ELSE 0
         /\ \A i \in 1..(n - m + 1) : SubSeq(lines, m, n)[i] = lines[m + i - 1]
<1>1. /\ lines \in Seq(Texts) /\ Len(lines) \in Nat
      /\ \A k \in 1..Len(lines) : lines[k] \in Texts /\ Free(lines[k], NL)
  BY ElementOfSeq, LenProperties DEF Lines
<1>2. m \in Int /\ n \in Int /\ \A i \in m..n : lines[i] \in Texts
  BY <1>1
<1>3. /\ SubSeq(lines, m, n) \in Seq(Texts)
      /\ Len(SubSeq(lines, m, n)) = IF m <= n THEN n - m + 1 ELSE 0
      /\ \A i \in 1..(n - m + 1) : SubSeq(lines, m, n)[i] = lines[m + i - 1]
  BY <1>2, SubSeqProperties
<1>4. \A i \in 1..Len(SubSeq(lines, m, n)) : i \in 1..(n - m + 1) /\ m + i - 1 \in 1..Len(lines)
  BY <1>1, <1>3
<1>5. \A i \in 1..Len(SubSeq(lines, m, n)) : Free(SubSeq(lines, m, n)[i], NL)
  BY <1>1, <1>3, <1>4
<1> QED BY <1>3, <1>5 DEF Lines

(* What Bounded does not flag has all its lines in full.                   *)
LEMMA BoundedText ==
  ASSUME NEW lines \in Lines, NEW dropped \in BOOLEAN
  PROVE  /\ Bounded(lines, dropped).text \in Texts /\ Bounded(lines, dropped).truncated \in BOOLEAN
         /\ SplitLines(Bounded(lines, dropped).text) = ClampLines(lines)
         /\ ~Bounded(lines, dropped).truncated =>
              ~dropped /\ SplitLines(Bounded(lines, dropped).text) = lines
<1>1. ClampLines(lines) \in Lines
  BY ClampedLines
<1>2. JoinLines(ClampLines(lines)) \in Texts /\ SplitLines(JoinLines(ClampLines(lines))) = ClampLines(lines)
  BY <1>1, LinesRestored
<1> QED BY <1>2 DEF Bounded

(* head shows the first lines, each clamped, and flags what it leaves out. *)
LEMMA HeadIs ==
  ASSUME NEW text \in Texts, NEW n \in Nat
  PROVE  LET lines == SplitLines(text)
             m == Least(n, Len(lines))
             head == HeadLines(text, n)
         IN  /\ head.text \in Texts /\ head.truncated \in BOOLEAN
             /\ ~head.truncated => SplitLines(head.text) = lines
             /\ m \in Nat /\ m \in 0..Len(lines) /\ Len(SplitLines(head.text)) = m
             /\ \A k \in 1..m : SplitLines(head.text)[k] = ClampLine(lines[k])
<1> DEFINE lines == SplitLines(text)
           m == Least(n, Len(lines))
           part == SubSeq(lines, 1, m)
           head == HeadLines(text, n)
           more == Len(lines) > n
<1>1. lines \in Lines
  BY LinesType
<1>2. Len(lines) \in Nat /\ lines \in Seq(Texts)
  BY <1>1, LenProperties DEF Lines
<1> HIDE DEF lines
<1>3. m \in 0..Len(lines) /\ 1 \in 1..(Len(lines) + 1) /\ m \in Nat
  BY <1>2 DEF Least
<1>4. /\ part \in Lines /\ Len(part) = m
      /\ \A i \in 1..m : part[i] = lines[i]
  <2>1. /\ part \in Lines /\ Len(part) = IF 1 <= m THEN m - 1 + 1 ELSE 0
        /\ \A i \in 1..(m - 1 + 1) : part[i] = lines[1 + i - 1]
    BY <1>1, <1>3, SubLines
  <2>2. m - 1 + 1 = m /\ (\A i \in 1..m : 1 + i - 1 = i) /\ (1 <= m \/ m = 0)
    BY <1>3
  <2> HIDE DEF part, m
  <2> QED BY <1>3, <2>1, <2>2
<1>5. Len(lines) <= n => part = lines
  <2>1. Len(lines) <= n => m = Len(lines)
    BY <1>2 DEF Least
  <2> HIDE DEF m
  <2> QED BY <1>2, <2>1, SubSeqFull
<1>6. head = Bounded(part, more) /\ more \in BOOLEAN
  BY DEF HeadLines, lines
<1> HIDE DEF part, head, more
<1>7. /\ head.text \in Texts /\ head.truncated \in BOOLEAN
      /\ SplitLines(head.text) = ClampLines(part)
      /\ ~head.truncated => ~more /\ SplitLines(head.text) = part
  BY <1>4, <1>6, BoundedText
<1>8. ~head.truncated => SplitLines(head.text) = lines
  BY <1>2, <1>5, <1>7 DEF more
<1>9. Len(ClampLines(part)) = m /\ \A k \in 1..m : ClampLines(part)[k] = ClampLine(lines[k])
  BY <1>4, ClampedLines
<1> HIDE DEF m
<1>10. /\ head.text \in Texts /\ head.truncated \in BOOLEAN
       /\ ~head.truncated => SplitLines(head.text) = lines
       /\ m \in Nat /\ m \in 0..Len(lines) /\ Len(SplitLines(head.text)) = m
       /\ \A k \in 1..m : SplitLines(head.text)[k] = ClampLine(lines[k])
  BY <1>3, <1>7, <1>8, <1>9
<1> QED BY <1>10 DEF m, lines, head

(* tail shows the last lines, each clamped, and flags what it leaves out.  *)
LEMMA TailIs ==
  ASSUME NEW text \in Texts, NEW n \in Nat
  PROVE  LET lines == SplitLines(text)
             m == Least(n, Len(lines))
             tail == TailLines(text, n)
         IN  /\ tail.text \in Texts /\ tail.truncated \in BOOLEAN
             /\ ~tail.truncated => SplitLines(tail.text) = lines
             /\ m \in Nat /\ m \in 0..Len(lines) /\ Len(SplitLines(tail.text)) = m
             /\ \A k \in 1..m : SplitLines(tail.text)[k] = ClampLine(lines[Len(lines) - m + k])
<1> DEFINE lines == SplitLines(text)
           m == Least(n, Len(lines))
           part == SubSeq(lines, Len(lines) - m + 1, Len(lines))
           tail == TailLines(text, n)
           more == Len(lines) > n
<1>1. lines \in Lines
  BY LinesType
<1>2. Len(lines) \in Nat /\ lines \in Seq(Texts)
  BY <1>1, LenProperties DEF Lines
<1> HIDE DEF lines
<1>3. /\ m \in 0..Len(lines) /\ m \in Nat
      /\ Len(lines) - m + 1 \in 1..(Len(lines) + 1) /\ Len(lines) \in 0..Len(lines)
  <2>1. m \in 0..Len(lines)
    BY <1>2 DEF Least
  <2> HIDE DEF m
  <2> QED BY <1>2, <2>1
<1>4. /\ part \in Lines /\ Len(part) = m
      /\ \A i \in 1..m : part[i] = lines[Len(lines) - m + i]
  <2> DEFINE a == Len(lines) - m + 1
             b == Len(lines)
  <2>1. /\ part \in Lines /\ Len(part) = IF a <= b THEN b - a + 1 ELSE 0
        /\ \A i \in 1..(b - a + 1) : part[i] = lines[a + i - 1]
    BY <1>1, <1>3, SubLines
  <2> HIDE DEF part, m
  <2>2. b - a + 1 = m /\ (\A i \in 1..m : a + i - 1 = Len(lines) - m + i) /\ (a <= b \/ m = 0)
    BY <1>2, <1>3
  <2> HIDE DEF a, b
  <2> QED BY <1>3, <2>1, <2>2
<1>5. Len(lines) <= n => part = lines
  <2>1. Len(lines) <= n => m = Len(lines)
    BY <1>2 DEF Least
  <2> HIDE DEF m
  <2>2. Len(lines) <= n => Len(lines) - m + 1 = 1
    BY <1>2, <2>1
  <2> QED BY <1>2, <2>2, SubSeqFull
<1>6. tail = Bounded(part, more) /\ more \in BOOLEAN
  BY DEF TailLines, lines
<1> HIDE DEF part, tail, more
<1>7. /\ tail.text \in Texts /\ tail.truncated \in BOOLEAN
      /\ SplitLines(tail.text) = ClampLines(part)
      /\ ~tail.truncated => ~more /\ SplitLines(tail.text) = part
  BY <1>4, <1>6, BoundedText
<1>8. ~tail.truncated => SplitLines(tail.text) = lines
  BY <1>2, <1>5, <1>7 DEF more
<1> HIDE DEF m
<1>9. Len(ClampLines(part)) = m /\ \A k \in 1..m : ClampLines(part)[k] = ClampLine(lines[Len(lines) - m + k])
  BY <1>4, ClampedLines
<1>10. /\ tail.text \in Texts /\ tail.truncated \in BOOLEAN
       /\ ~tail.truncated => SplitLines(tail.text) = lines
       /\ m \in Nat /\ m \in 0..Len(lines) /\ Len(SplitLines(tail.text)) = m
       /\ \A k \in 1..m : SplitLines(tail.text)[k] = ClampLine(lines[Len(lines) - m + k])
  BY <1>3, <1>7, <1>8, <1>9
<1> QED BY <1>10 DEF m, lines, tail

-----------------------------------------------------------------------------
(* Places, and grep.                                                       *)

(* Positions in a sequence, in order, and the elements there.              *)
LEMMA Positions ==
  ASSUME NEW n \in Nat, NEW S, S \subseteq 1..n
  PROVE  /\ InOrder(S) \in Seq(S) /\ InOrder(S) \in Seq(Nat) /\ IsFiniteSet(S)
         /\ Len(InOrder(S)) = Cardinality(S) /\ Cardinality(S) \in Nat
         /\ DOMAIN InOrder(S) = 1..Cardinality(S)
         /\ Increasing(InOrder(S)) /\ Elements(InOrder(S)) = S
         /\ \A k \in 1..Cardinality(S) : InOrder(S)[k] \in S /\ InOrder(S)[k] \in 1..n
<1>1. IsFiniteSet(S) /\ S \subseteq Nat
  <2>1. IsFiniteSet(1..n) /\ S \in SUBSET (1..n)
    BY FS_Interval
  <2>2. IsFiniteSet(S)
    BY <2>1, FS_Subset
  <2>3. S \subseteq Nat
    OBVIOUS
  <2> QED BY <2>2, <2>3
<1>2. /\ InOrder(S) \in Seq(S) /\ Len(InOrder(S)) = Cardinality(S) /\ Cardinality(S) \in Nat
      /\ Increasing(InOrder(S)) /\ Elements(InOrder(S)) = S
  BY <1>1, InOrderEnumerates
<1>3. DOMAIN InOrder(S) = 1..Cardinality(S)
  BY <1>2, LenProperties
<1>4. \A k \in 1..Cardinality(S) : InOrder(S)[k] \in S
  BY <1>2, ElementOfSeq
<1>5. InOrder(S) \in Seq(Nat)
  BY <1>1, <1>2, SeqMonotonic
<1> QED BY <1>1, <1>2, <1>3, <1>4, <1>5

(* Max and Min of a set of numbers are its greatest and its least element. *)
LEMMA Extremes ==
  ASSUME NEW S, S \subseteq Nat, IsFiniteSet(S), S # {}
  PROVE  /\ Max(S) \in S /\ \A y \in S : y <= Max(S)
         /\ Min(S) \in S /\ \A y \in S : Min(S) <= y
<1> DEFINE q == InOrder(S)
           n == Len(q)
<1>1. q \in Seq(Nat) /\ n \in Nat /\ Increasing(q) /\ Elements(q) = S
  <2>1. q \in Seq(S) /\ n \in Nat /\ Increasing(q) /\ Elements(q) = S
    BY InOrderEnumerates
  <2> QED BY <2>1, SeqMonotonic
<1> HIDE DEF q
<1>2. n # 0 /\ n \in 1..n /\ 1 \in 1..n
  <2>1. ASSUME n = 0 PROVE FALSE
    BY <1>1, <2>1 DEF Elements
  <2> QED BY <1>1, <2>1
<1>3. \A k \in 1..n : q[k] \in S /\ q[k] \in Nat
  BY <1>1 DEF Elements
<1>4. \A j, k \in 1..n : j < k => q[j] < q[k]
  BY <1>1 DEF Increasing
<1>5. \A y \in S : \E k \in 1..n : y = q[k]
  BY <1>1 DEF Elements
<1> HIDE DEF n
<1>6. \A k \in 1..n : q[k] <= q[n] /\ q[1] <= q[k]
  <2> TAKE k \in 1..n
  <2>1. k = n \/ k < n
    BY <1>1
  <2>2. k = 1 \/ 1 < k
    BY <1>1
  <2>3. k < n => q[k] < q[n]
    BY <1>2, <1>4
  <2>4. 1 < k => q[1] < q[k]
    BY <1>2, <1>4
  <2> QED BY <1>2, <1>3, <2>1, <2>2, <2>3, <2>4
<1>7. q[n] \in S /\ \A y \in S : q[n] >= y
  BY <1>2, <1>3, <1>5, <1>6
<1>8. q[1] \in S /\ \A y \in S : q[1] <= y
  BY <1>2, <1>3, <1>5, <1>6
<1>9. Max(S) \in S /\ \A y \in S : Max(S) >= y
  BY <1>7 DEF Max
<1>10. Min(S) \in S /\ \A y \in S : Min(S) <= y
  BY <1>8 DEF Min
<1> QED BY <1>9, <1>10

(* ElementsAt takes the elements at the places of a set, in order.         *)
LEMMA ElementsAtIs ==
  ASSUME NEW T, NEW seq \in Seq(T), NEW S, S \subseteq 1..Len(seq)
  PROVE  /\ ElementsAt(seq, S) \in Seq(T) /\ Len(ElementsAt(seq, S)) = Cardinality(S) /\ Cardinality(S) \in Nat
         /\ DOMAIN ElementsAt(seq, S) = 1..Cardinality(S)
         /\ \A k \in 1..Cardinality(S) : InOrder(S)[k] \in S /\ ElementsAt(seq, S)[k] = seq[InOrder(S)[k]]
<1>1. Len(seq) \in Nat
  BY LenProperties
<1>2. /\ Cardinality(S) \in Nat /\ DOMAIN InOrder(S) = 1..Cardinality(S)
      /\ \A k \in 1..Cardinality(S) : InOrder(S)[k] \in S /\ InOrder(S)[k] \in 1..Len(seq)
  BY <1>1, Positions
<1>3. \A k \in 1..Cardinality(S) : seq[InOrder(S)[k]] \in T
  BY <1>2, ElementOfSeq
<1>4. ElementsAt(seq, S) = [k \in 1..Cardinality(S) |-> seq[InOrder(S)[k]]]
  BY <1>2 DEF ElementsAt
<1> HIDE DEF ElementsAt
<1>5. ElementsAt(seq, S) \in Seq(T)
  BY <1>2, <1>3, <1>4
<1>6. Len(ElementsAt(seq, S)) = Cardinality(S)
  BY <1>2, <1>4, <1>5
<1> QED BY <1>2, <1>4, <1>5, <1>6

(* Two texts without a separator make one without.                         *)
LEMMA ConcatFree ==
  ASSUME NEW s \in Texts, NEW t \in Texts, NEW sep, Free(s, sep), Free(t, sep)
  PROVE  s \o t \in Texts /\ Free(s \o t, sep)
<1>1. s \in Seq(Bytes) /\ t \in Seq(Bytes) /\ Len(s) \in Nat /\ Len(t) \in Nat
  BY LenProperties DEF Texts
<1>2. /\ s \o t \in Seq(Bytes) /\ Len(s \o t) = Len(s) + Len(t)
      /\ \A i \in 1..(Len(s) + Len(t)) : (s \o t)[i] = IF i <= Len(s) THEN s[i] ELSE t[i - Len(s)]
  BY <1>1, ConcatProperties
<1>3. ASSUME NEW i \in 1..(Len(s) + Len(t)) PROVE (s \o t)[i] # sep
  <2>1. CASE i <= Len(s)
    BY <1>1, <1>2, <2>1 DEF Free
  <2>2. CASE ~(i <= Len(s))
    <3>1. i - Len(s) \in 1..Len(t)
      BY <1>1, <2>2
    <3> QED BY <1>2, <2>2, <3>1 DEF Free
  <2> QED BY <2>1, <2>2
<1> QED BY <1>2, <1>3 DEF Free, Texts

(* A line with its number before it is a line.                             *)
LEMMA NumberedLine ==
  ASSUME NEW n \in Nat, NEW line \in Texts, Free(line, NL)
  PROVE  LET numbered == Decimal[n] \o <<COLON>> \o line
         IN  numbered \in Texts /\ Free(numbered, NL)
<1>1. Decimal[n] \in Texts /\ Free(Decimal[n], NL)
  BY DecimalFree
<1>2. <<COLON>> \in Texts /\ Free(<<COLON>>, NL)
  <2>1. COLON \in Bytes /\ COLON # NL
    BY DEF COLON, NL, Bytes
  <2> QED BY <2>1 DEF Free, Texts
<1>3. Decimal[n] \o <<COLON>> \in Texts /\ Free(Decimal[n] \o <<COLON>>, NL)
  BY <1>1, <1>2, ConcatFree
<1> QED BY <1>3, ConcatFree

(* grep shows every matching line with its number, or flags that it does   *)
(* not.                                                                    *)
LEMMA GrepIs ==
  ASSUME NEW text \in Texts, NEW pattern, NEW max \in Nat
  PROVE  LET lines == SplitLines(text)
             hits  == InOrder({k \in DOMAIN lines : HasText(lines[k], pattern)})
             found == Grep(text, pattern, max)
         IN  /\ found.text \in Texts /\ found.truncated \in BOOLEAN
             /\ ~found.truncated =>
                  SplitLines(found.text) = [k \in DOMAIN hits |-> Decimal[hits[k]] \o <<COLON>> \o lines[hits[k]]]
<1> DEFINE lines == SplitLines(text)
           S == {k \in DOMAIN lines : HasText(lines[k], pattern)}
           hits == InOrder(S)
           kept == SubSeq(hits, 1, Least(max, Len(hits)))
           shown == [k \in DOMAIN kept |-> Decimal[kept[k]] \o <<COLON>> \o ClampLine(lines[kept[k]])]
           whole == [k \in DOMAIN hits |-> Decimal[hits[k]] \o <<COLON>> \o lines[hits[k]]]
           cut == Len(hits) > max \/ \E k \in DOMAIN kept : ClampLine(lines[kept[k]]) # lines[kept[k]]
           found == Grep(text, pattern, max)
<1>1. found = [text |-> JoinLines(shown), truncated |-> cut]
  BY DEF Grep
<1>2. /\ lines \in Seq(Texts) /\ Len(lines) \in Nat /\ DOMAIN lines = 1..Len(lines)
      /\ \A k \in 1..Len(lines) : lines[k] \in Texts /\ Free(lines[k], NL)
  BY LinesType, ElementOfSeq, LenProperties DEF Lines
<1> HIDE DEF lines
<1>3. S \subseteq 1..Len(lines)
  BY <1>2
<1>4. /\ hits \in Seq(Nat) /\ Len(hits) \in Nat /\ DOMAIN hits = 1..Len(hits)
      /\ \A k \in 1..Len(hits) : hits[k] \in 1..Len(lines)
  <2> HIDE DEF S
  <2> QED BY <1>2, <1>3, Positions
<1> HIDE DEF hits, S
<1>5. /\ kept \in Seq(Nat) /\ DOMAIN kept = 1..Len(kept) /\ Len(kept) \in 0..Len(hits)
      /\ \A k \in 1..Len(kept) : kept[k] = hits[k]
  <2> DEFINE m == Least(max, Len(hits))
  <2>1. m \in 0..Len(hits) /\ kept = Upto(hits, m)
    BY <1>4 DEF Least, Upto
  <2> HIDE DEF m, kept
  <2>2. kept \in Seq(Nat) /\ Len(kept) = m /\ \A k \in 1..m : kept[k] = hits[k]
    BY <1>4, <2>1, Beginnings
  <2> QED BY <2>1, <2>2, LenProperties
<1>6. Len(hits) <= max => kept = hits
  <2> SUFFICES ASSUME Len(hits) <= max PROVE kept = hits
    OBVIOUS
  <2>1. Least(max, Len(hits)) = Len(hits)
    <3>1. Len(hits) \in Int /\ max \in Int
      BY <1>4
    <3> QED BY <3>1, LeastIs
  <2>2. SubSeq(hits, 1, Len(hits)) = hits
    BY <1>4, SubSeqFull
  <2> QED BY <2>1, <2>2
<1> HIDE DEF kept
<1>7. \A k \in 1..Len(kept) : kept[k] \in 1..Len(lines)
  BY <1>4, <1>5
<1>8. \A k \in 1..Len(kept) : /\ ClampLine(lines[kept[k]]) \in Texts /\ Free(ClampLine(lines[kept[k]]), NL)
  BY <1>2, <1>7, ClampedLine
<1>9. \A k \in 1..Len(kept) : /\ Decimal[kept[k]] \o <<COLON>> \o ClampLine(lines[kept[k]]) \in Texts
                              /\ Free(Decimal[kept[k]] \o <<COLON>> \o ClampLine(lines[kept[k]]), NL)
  <2>1. \A k \in 1..Len(kept) : kept[k] \in Nat
    BY <1>2, <1>7
  <2> QED BY <1>8, <2>1, NumberedLine
<1>10. shown \in Lines
  <2>1. Len(kept) \in Nat
    BY <1>4, <1>5
  <2>2. shown \in Seq(Texts) /\ Len(shown) = Len(kept) /\ \A k \in 1..Len(kept) : Free(shown[k], NL)
    BY <1>5, <1>9, <2>1
  <2> HIDE DEF shown
  <2> QED BY <2>2 DEF Lines
<1>11. ~cut => shown = whole
  <2> SUFFICES ASSUME ~cut PROVE shown = whole
    OBVIOUS
  <2>1. ~(Len(hits) > max) /\ \A k \in DOMAIN kept : ClampLine(lines[kept[k]]) = lines[kept[k]]
    OBVIOUS
  <2>2. kept = hits
    BY <1>4, <1>6, <2>1
  <2> QED BY <2>1, <2>2
<1>12. cut \in BOOLEAN
  OBVIOUS
<1> HIDE DEF cut, shown, whole, found
<1>13. JoinLines(shown) \in Texts /\ SplitLines(JoinLines(shown)) = shown
  BY <1>10, LinesRestored
<1>14. found.text \in Texts /\ found.truncated \in BOOLEAN /\ (~found.truncated => SplitLines(found.text) = whole)
  BY <1>1, <1>11, <1>12, <1>13
<1> QED BY <1>14 DEF found, whole, hits, S, lines

-----------------------------------------------------------------------------
(* The value of a number.                                                  *)

(* The value of a text of digits, digit by digit.                          *)
LEMMA ValueLoop ==
  ASSUME NEW text \in Seq(Digits)
  PROVE  \E f \in [0..Len(text) -> Nat] :
           /\ f[0] = 0 /\ \A i \in 1..Len(text) : f[i] = 10 * f[i - 1] + text[i] - 48
           /\ Value(text) = f[Len(text)]
<1> DEFINE n == Len(text)
           Rec(h) == h = [i \in 0..n |-> IF i = 0 THEN 0 ELSE 10 * h[i - 1] + text[i] - 48]
           upto == CHOOSE h : Rec(h)
           step == [i \in 1..n |-> [v \in Nat |-> 10 * v + text[i] - 48]]
<1>1. n \in Nat /\ \A i \in 1..n : text[i] \in Digits
  BY ElementOfSeq, LenProperties
<1>2. \A i \in 1..n : text[i] \in 48..57
  BY <1>1 DEF Digits
<1>3. PICK f : LoopComputes(f, n, Nat, 0, step)
  <2>1. \A i \in 1..n, v \in Nat : 10 * v + text[i] - 48 \in Nat
    BY <1>2
  <2>2. step \in [1..n -> [Nat -> Nat]]
    BY <2>1
  <2> HIDE DEF step, n
  <2> QED BY <1>1, <2>2, LoopExists
<1>4. f \in [0..n -> Nat] /\ f[0] = 0
  BY <1>3 DEF LoopComputes
<1>5. Value(text) = upto[n]
  BY DEF Value
<1> HIDE DEF n
<1>6. ASSUME NEW i \in 1..n PROVE f[i] = 10 * f[i - 1] + text[i] - 48
  <2>1. i - 1 \in 0..n
    BY <1>1
  <2>2. f[i - 1] \in Nat
    BY <1>4, <2>1
  <2>3. f[i] = step[i][f[i - 1]]
    BY <1>3 DEF LoopComputes
  <2> QED BY <2>2, <2>3
<1>7. Rec(f)
  <2>1. f = [i \in 0..n |-> f[i]]
    BY <1>4
  <2>2. \A i \in 0..n : f[i] = IF i = 0 THEN 0 ELSE 10 * f[i - 1] + text[i] - 48
    <3> TAKE i \in 0..n
    <3>1. i = 0 \/ i \in 1..n
      BY <1>1
    <3> QED BY <1>4, <1>6, <3>1
  <2> QED BY <2>1, <2>2
<1>8. Rec(upto)
  <2> HIDE DEF Rec
  <2> QED BY <1>7
<1> HIDE DEF upto
<1>9. \A i \in 0..n : upto[i] = IF i = 0 THEN 0 ELSE 10 * upto[i - 1] + text[i] - 48
  BY <1>8
<1>10. upto[n] = f[n]
  <2> DEFINE S == {i \in 0..n : upto[i] = f[i]}
  <2>1. 0 \in S
    <3>1. 0 \in 0..n
      BY <1>1
    <3> QED BY <1>4, <1>9, <3>1
  <2>2. ASSUME NEW i \in 1..n, i - 1 \in S PROVE i \in S
    <3>1. i \in 0..n /\ i # 0 /\ upto[i - 1] = f[i - 1]
      BY <1>1, <2>2
    <3> QED BY <1>6, <1>9, <3>1
  <2>3. 0..n \subseteq S
    <3> HIDE DEF S
    <3> QED BY <1>1, <2>1, <2>2, IntervalInduction
  <2>4. n \in 0..n
    BY <1>1
  <2> QED BY <2>3, <2>4
<1> QED BY <1>4, <1>5, <1>6, <1>10 DEF n

(* One digit more: ten times the value, and the digit.                     *)
LEMMA ValueStep ==
  ASSUME NEW text \in Seq(Digits), NEW d \in Digits
  PROVE  Value(text) \in Nat /\ Value(Append(text, d)) = 10 * Value(text) + d - 48
<1> DEFINE n == Len(text)
           more == Append(text, d)
<1>1. n \in Nat
  BY LenProperties
<1>2. /\ more \in Seq(Digits) /\ Len(more) = n + 1 /\ more[n + 1] = d
      /\ \A i \in 1..n : more[i] = text[i]
  BY AppendProperties
<1> HIDE DEF more
<1>3. PICK f \in [0..n -> Nat] :
        /\ f[0] = 0 /\ \A i \in 1..n : f[i] = 10 * f[i - 1] + text[i] - 48
        /\ Value(text) = f[n]
  BY ValueLoop
<1>4. PICK g \in [0..(n + 1) -> Nat] :
        /\ g[0] = 0 /\ \A i \in 1..(n + 1) : g[i] = 10 * g[i - 1] + more[i] - 48
        /\ Value(more) = g[n + 1]
  <2>1. \E g \in [0..Len(more) -> Nat] :
          /\ g[0] = 0 /\ \A i \in 1..Len(more) : g[i] = 10 * g[i - 1] + more[i] - 48
          /\ Value(more) = g[Len(more)]
    BY <1>2, ValueLoop
  <2> HIDE DEF n
  <2> QED BY <1>2, <2>1
<1> HIDE DEF n
<1>5. n \in 0..n
  BY <1>1
<1>6. g[n] = f[n]
  <2> DEFINE S == {i \in 0..n : g[i] = f[i]}
  <2>1. 0 \in S
    BY <1>1, <1>3, <1>4
  <2>2. ASSUME NEW i \in 1..n, i - 1 \in S PROVE i \in S
    <3>1. i \in 1..(n + 1) /\ i \in 0..n /\ g[i - 1] = f[i - 1]
      BY <1>1, <2>2
    <3>2. g[i] = 10 * g[i - 1] + more[i] - 48 /\ f[i] = 10 * f[i - 1] + text[i] - 48 /\ more[i] = text[i]
      BY <1>2, <1>3, <1>4, <3>1
    <3> QED BY <3>1, <3>2
  <2>3. 0..n \subseteq S
    <3> HIDE DEF S
    <3> QED BY <1>1, <2>1, <2>2, IntervalInduction
  <2> QED BY <1>5, <2>3
<1>7. g[n + 1] = 10 * g[n] + d - 48
  <2>1. n + 1 \in 1..(n + 1) /\ (n + 1) - 1 = n
    BY <1>1
  <2>2. g[n + 1] = 10 * g[(n + 1) - 1] + more[n + 1] - 48
    BY <1>4, <2>1
  <2> QED BY <1>2, <2>1, <2>2
<1>8. f[n] \in Nat
  BY <1>3, <1>5
<1> QED BY <1>3, <1>4, <1>6, <1>7, <1>8 DEF more

(* The value of no digits.                                                 *)
LEMMA ValueNone == Value(<< >>) = 0
<1>1. << >> \in Seq(Digits) /\ Len(<< >>) = 0
  OBVIOUS
<1>2. PICK f \in [0..0 -> Nat] : f[0] = 0 /\ Value(<< >>) = f[0]
  BY <1>1, ValueLoop
<1> QED BY <1>2

(* A number has a value.                                                   *)
LEMMA NumberTypes ==
  ASSUME NEW text \in Texts, IsNumber(text)
  PROVE  text \in Seq(Digits) /\ Value(text) \in Nat
<1>1. text \in Seq(Bytes) /\ DOMAIN text = 1..Len(text) /\ Len(text) \in Nat
  BY LenProperties DEF Texts
<1>2. \A i \in 1..Len(text) : text[i] \in Digits
  BY <1>1 DEF IsNumber, ToSet
<1>3. text \in Seq(Digits)
  <2>1. text = [i \in 1..Len(text) |-> text[i]]
    BY <1>1
  <2> QED BY <1>1, <1>2, <2>1
<1>4. 48 \in Digits
  BY DEF Digits
<1> QED BY <1>3, <1>4, ValueStep

(* Decimal and Value are inverse: printing a number and reading it gives   *)
(* the number.                                                             *)
LEMMA ValueOfDecimal ==
  ASSUME NEW n \in Nat
  PROVE  Value(Decimal[n]) = n
<1> DEFINE S == {i \in 0..n : \A j \in 0..i : Value(Decimal[j]) = j}
<1>1. ASSUME NEW i \in 0..n, \A j \in 0..(i - 1) : Value(Decimal[j]) = j
      PROVE  Value(Decimal[i]) = i
  <2>1. CASE i < 10
    <3>0. i \in Nat
      OBVIOUS
    <3>1. Decimal[i] = <<48 + i>>
      BY <2>1, <3>0, DecimalIs, Zenon
    <3>2. 48 + i \in Digits /\ << >> \in Seq(Digits) /\ Append(<< >>, 48 + i) = <<48 + i>>
      BY <2>1, DigitOf
    <3>3. Value(Append(<< >>, 48 + i)) = 10 * Value(<< >>) + (48 + i) - 48
      BY <3>2, ValueStep
    <3> QED BY <3>1, <3>2, <3>3, ValueNone
  <2>2. CASE i >= 10
    <3> DEFINE k == i \div 10
               r == i % 10
    <3>1. k \in 0..(i - 1) /\ r \in 0..9 /\ 48 + r \in Digits /\ i = 10 * k + r
      BY <2>2, DigitOf
    <3>0. i \in Nat
      OBVIOUS
    <3>2. Decimal[i] = Decimal[k] \o <<48 + r>>
      BY <2>2, <3>0, DecimalIs, Zenon
    <3> HIDE DEF k, r
    <3>3. Decimal[k] \in Seq(Digits)
      BY <3>1, DecimalIs
    <3>4. Decimal[i] = Append(Decimal[k], 48 + r)
      BY <3>1, <3>2, <3>3, AppendIsConcat
    <3>5. Value(Decimal[i]) = 10 * Value(Decimal[k]) + (48 + r) - 48
      BY <3>1, <3>3, <3>4, ValueStep
    <3>6. Value(Decimal[k]) = k
      BY <1>1, <3>1
    <3> QED BY <3>1, <3>5, <3>6
  <2> QED BY <2>1, <2>2
<1>2. 0 \in S
  <2>1. 0 \in 0..n /\ \A j \in 0..(0 - 1) : Value(Decimal[j]) = j
    OBVIOUS
  <2>2. Value(Decimal[0]) = 0
    BY <1>1, <2>1
  <2>3. \A j \in 0..0 : j = 0
    OBVIOUS
  <2> QED BY <2>1, <2>2, <2>3
<1>3. ASSUME NEW i \in 1..n, i - 1 \in S PROVE i \in S
  <2>1. \A j \in 0..(i - 1) : Value(Decimal[j]) = j
    BY <1>3
  <2>2. i \in 0..n /\ \A j \in 0..i : j \in 0..(i - 1) \/ j = i
    OBVIOUS
  <2>3. Value(Decimal[i]) = i
    BY <1>1, <2>1, <2>2
  <2> QED BY <2>1, <2>2, <2>3
<1>4. n \in S
  <2> HIDE DEF S
  <2>1. 0..n \subseteq S
    BY <1>2, <1>3, IntervalInduction
  <2> QED BY <2>1
<1> QED BY <1>4

(* Below m, no decimal has more than c digits.                             *)
Width(m, c) == \A i \in Nat : i < m => Len(Decimal[i]) \in 1..c

(* A number below 10 has one digit.                                        *)
LEMMA OneDigit ==
  ASSUME NEW i \in Nat, i < 10
  PROVE  Len(Decimal[i]) = 1
<1>1. Decimal[i] = <<48 + i>>
  BY DecimalIs, Zenon
<1>2. Len(<<48 + i>>) = 1
  OBVIOUS
<1> QED BY <1>1, <1>2

(* A number below ten times the bound has at most one digit more.          *)
LEMMA WidthGrows ==
  ASSUME NEW m \in Nat, NEW c \in Nat, c >= 1, Width(m, c)
  PROVE  Width(10 * m, c + 1)
<1> SUFFICES ASSUME NEW i \in Nat, i < 10 * m PROVE Len(Decimal[i]) \in 1..(c + 1)
  BY DEF Width
<1>1. CASE i < 10
  <2>1. Len(Decimal[i]) = 1
    BY <1>1, OneDigit
  <2>2. 1 \in 1..(c + 1)
    OBVIOUS
  <2> QED BY <2>1, <2>2
<1>2. CASE i >= 10
  <2> DEFINE k == i \div 10
             r == i % 10
  <2>1. k \in Nat /\ i = 10 * k + r /\ r \in 0..9 /\ 48 + r \in Digits
    BY DigitOf
  <2>2. Decimal[i] = Decimal[k] \o <<48 + r>>
    BY <1>2, DecimalIs
  <2> HIDE DEF k, r
  <2>3. Decimal[k] \in Seq(Digits) /\ <<48 + r>> \in Seq(Digits) /\ Len(<<48 + r>>) = 1
    BY <2>1, DecimalIs
  <2>4. Len(Decimal[i]) = Len(Decimal[k]) + 1
    BY <2>2, <2>3, ConcatProperties
  <2>5. k < m
    BY <2>1
  <2>6. Len(Decimal[k]) \in 1..c
    BY <2>1, <2>5 DEF Width
  <2> QED BY <2>4, <2>6
<1> QED BY <1>1, <1>2

Printable == {n \in Nat : n < 10 * (1000 * 1000)}

(* What is below ten million fits into seven columns.                      *)
LEMMA DecimalLength ==
  ASSUME NEW n \in Printable
  PROVE  Len(Decimal[n]) \in 1..7
<1>1. Width(10, 1)
  BY OneDigit, SMT DEF Width
<1>2. Width(10 * 10, 1 + 1)
  BY <1>1, WidthGrows, SMT
<1>3. Width(10 * 100, 2 + 1)
  BY <1>2, WidthGrows, SMT
<1>4. Width(10 * 1000, 3 + 1)
  BY <1>3, WidthGrows, SMT
<1>5. Width(10 * (10 * 1000), 4 + 1)
  BY <1>4, WidthGrows, SMT
<1>6. Width(10 * (100 * 1000), 5 + 1)
  BY <1>5, WidthGrows, SMT
<1>7. Width(10 * (1000 * 1000), 6 + 1)
  BY <1>6, WidthGrows, SMT
<1> QED BY <1>7, SMT DEF Width, Printable

-----------------------------------------------------------------------------
(* Elements of a sequence that belong to a set.                            *)

(* A place after all others comes last.                                    *)
LEMMA InOrderStep ==
  ASSUME NEW n \in Nat, NEW S, S \subseteq 1..n
  PROVE  InOrder(S \cup {n + 1}) = Append(InOrder(S), n + 1)
<1> DEFINE p == InOrder(S)
           m == Len(p)
           q == Append(p, n + 1)
<1>1. /\ p \in Seq(Nat) /\ m \in Nat /\ Increasing(p) /\ Elements(p) = S
      /\ \A k \in 1..m : p[k] \in 1..n
  BY Positions
<1> HIDE DEF p
<1>2. /\ q \in Seq(Nat) /\ Len(q) = m + 1 /\ q[m + 1] = n + 1
      /\ \A k \in 1..m : q[k] = p[k]
  BY <1>1, AppendProperties
<1> HIDE DEF q, m
<1>3. ASSUME NEW j \in 1..(m + 1), NEW k \in 1..(m + 1), j < k PROVE q[j] < q[k]
  <2>1. j \in 1..m /\ (k \in 1..m \/ k = m + 1)
    BY <1>1, <1>3
  <2>2. CASE k \in 1..m
    BY <1>1, <1>2, <1>3, <2>1, <2>2 DEF Increasing, m
  <2>3. CASE k = m + 1
    BY <1>1, <1>2, <2>1, <2>3
  <2> QED BY <2>1, <2>2, <2>3
<1>4. Elements(q) = S \cup {n + 1}
  <2>1. \A k \in 1..(m + 1) : k \in 1..m \/ k = m + 1
    BY <1>1
  <2>2. m + 1 \in 1..(m + 1) /\ \A k \in 1..m : k \in 1..(m + 1)
    BY <1>1
  <2>3. Elements(p) = {p[k] : k \in 1..m} /\ Elements(q) = {q[k] : k \in 1..(m + 1)}
    BY <1>2 DEF Elements, m
  <2> QED BY <1>1, <1>2, <2>1, <2>2, <2>3
<1>5. Increasing(q)
  BY <1>2, <1>3 DEF Increasing
<1> QED BY <1>2, <1>4, <1>5, InOrderIs DEF q, p

(* ... and so does the element at it.                                      *)
LEMMA ElementsAtStep ==
  ASSUME NEW T, NEW s \in Seq(T), NEW e \in T, NEW S, S \subseteq 1..Len(s)
  PROVE  /\ ElementsAt(Append(s, e), S) = ElementsAt(s, S)
         /\ ElementsAt(Append(s, e), S \cup {Len(s) + 1}) = Append(ElementsAt(s, S), e)
<1> DEFINE n == Len(s)
           r == Append(s, e)
           at == InOrder(S)
           c == Cardinality(S)
           more == Append(at, n + 1)
<1>1. n \in Nat
  BY LenProperties
<1>2. /\ r \in Seq(T) /\ Len(r) = n + 1 /\ r[n + 1] = e
      /\ \A i \in 1..n : r[i] = s[i]
  BY AppendProperties
<1> HIDE DEF r
<1>3. /\ at \in Seq(Nat) /\ c \in Nat /\ Len(at) = c /\ DOMAIN at = 1..c
      /\ \A k \in 1..c : at[k] \in 1..n
  BY <1>1, Positions
<1>4. /\ ElementsAt(s, S) \in Seq(T) /\ Len(ElementsAt(s, S)) = c
      /\ ElementsAt(s, S) = [k \in 1..c |-> s[at[k]]]
  <2>1. ElementsAt(s, S) = [k \in 1..c |-> s[at[k]]]
    BY <1>3 DEF ElementsAt
  <2>2. ElementsAt(s, S) \in Seq(T) /\ Len(ElementsAt(s, S)) = c
    BY ElementsAtIs
  <2> QED BY <2>1, <2>2
<1>5. ElementsAt(r, S) = [k \in 1..c |-> r[at[k]]]
  BY <1>3 DEF ElementsAt
<1>6. ElementsAt(r, S) = ElementsAt(s, S)
  <2>1. \A k \in 1..c : r[at[k]] = s[at[k]]
    BY <1>2, <1>3
  <2> HIDE DEF at, c
  <2> QED BY <1>4, <1>5, <2>1
<1>7. InOrder(S \cup {n + 1}) = more
  BY <1>1, InOrderStep
<1> HIDE DEF at, c
<1>8. /\ more \in Seq(Nat) /\ Len(more) = c + 1 /\ DOMAIN more = 1..(c + 1) /\ more[c + 1] = n + 1
      /\ \A k \in 1..c : more[k] = at[k]
  <2>1. n + 1 \in Nat
    BY <1>1
  <2>2. /\ more \in Seq(Nat) /\ Len(more) = c + 1 /\ more[c + 1] = n + 1
        /\ \A k \in 1..c : more[k] = at[k]
    BY <1>3, <2>1, AppendProperties
  <2> HIDE DEF more
  <2> QED BY <2>2, LenProperties
<1> HIDE DEF more
<1>9. ElementsAt(r, S \cup {n + 1}) = [k \in 1..(c + 1) |-> r[more[k]]]
  BY <1>7, <1>8 DEF ElementsAt
<1> DEFINE new == Append(ElementsAt(s, S), e)
<1>10. /\ new \in Seq(T) /\ Len(new) = c + 1 /\ new[c + 1] = e
       /\ \A k \in 1..c : new[k] = ElementsAt(s, S)[k]
  <2>1. ElementsAt(s, S) \in Seq(T) /\ Len(ElementsAt(s, S)) = c
    BY <1>4
  <2> QED BY <2>1, AppendProperties
<1>11. new = [k \in 1..(c + 1) |-> new[k]]
  <2> HIDE DEF new
  <2> QED BY <1>10, LenProperties
<1> HIDE DEF new
<1>12. ASSUME NEW k \in 1..(c + 1) PROVE r[more[k]] = new[k]
  <2>1. k \in 1..c \/ k = c + 1
    BY <1>3
  <2>2. CASE k \in 1..c
    BY <1>2, <1>3, <1>4, <1>8, <1>10, <2>2
  <2>3. CASE k = c + 1
    BY <1>2, <1>8, <1>10, <2>3
  <2> QED BY <2>1, <2>2, <2>3
<1>13. ElementsAt(r, S \cup {n + 1}) = new
  BY <1>9, <1>11, <1>12
<1> QED BY <1>6, <1>13 DEF r, new, n

(* The elements of a sequence that belong to a set.                        *)
Chosen(s, P) == ElementsAt(s, {i \in DOMAIN s : s[i] \in P})

(* Chosen elements are elements.                                           *)
LEMMA ChosenType ==
  ASSUME NEW T, NEW s \in Seq(T), NEW P
  PROVE  Chosen(s, P) \in Seq(T)
<1>1. {i \in DOMAIN s : s[i] \in P} \subseteq 1..Len(s)
  BY LenProperties
<1> QED BY <1>1, ElementsAtIs DEF Chosen

(* Nothing is chosen where nothing belongs.                                *)
LEMMA ChosenNone ==
  ASSUME NEW T, NEW s \in Seq(T), NEW P, \A i \in 1..Len(s) : s[i] \notin P
  PROVE  Chosen(s, P) = << >>
<1>1. {i \in DOMAIN s : s[i] \in P} = {}
  BY LenProperties
<1>2. {} \subseteq 1..Len(s) /\ Cardinality({}) = 0
  BY FS_EmptySet
<1>3. ElementsAt(s, {}) \in Seq(T) /\ Len(ElementsAt(s, {})) = 0
  BY <1>2, ElementsAtIs
<1>4. ElementsAt(s, {}) = << >>
  BY <1>3, EmptySeq
<1> QED BY <1>1, <1>4 DEF Chosen

(* An element more is chosen last, or not.                                 *)
LEMMA ChosenStep ==
  ASSUME NEW T, NEW s \in Seq(T), NEW e \in T, NEW P
  PROVE  Chosen(Append(s, e), P) = IF e \in P THEN Append(Chosen(s, P), e) ELSE Chosen(s, P)
<1> DEFINE n == Len(s)
           r == Append(s, e)
           S == {i \in DOMAIN s : s[i] \in P}
           R == {i \in DOMAIN r : r[i] \in P}
<1>1. n \in Nat /\ DOMAIN s = 1..n
  BY LenProperties
<1>2. /\ r \in Seq(T) /\ Len(r) = n + 1 /\ r[n + 1] = e
      /\ \A i \in 1..n : r[i] = s[i]
  BY AppendProperties
<1>3. DOMAIN r = 1..(n + 1)
  <2> HIDE DEF r
  <2> QED BY <1>2, LenProperties
<1>4. S \subseteq 1..n
  BY <1>1
<1>5. R = IF e \in P THEN S \cup {n + 1} ELSE S
  <2> HIDE DEF r
  <2>1. \A i \in 1..(n + 1) : i \in 1..n \/ i = n + 1
    BY <1>1
  <2>2. n + 1 \in 1..(n + 1) /\ n + 1 \notin 1..n /\ \A i \in 1..n : i \in 1..(n + 1)
    BY <1>1
  <2> QED BY <1>1, <1>2, <1>3, <2>1, <2>2
<1>6. Chosen(r, P) = ElementsAt(r, R) /\ Chosen(s, P) = ElementsAt(s, S)
  BY DEF Chosen
<1> HIDE DEF R, S
<1>7. ElementsAt(r, S) = ElementsAt(s, S) /\ ElementsAt(r, S \cup {n + 1}) = Append(ElementsAt(s, S), e)
  BY <1>4, ElementsAtStep
<1> HIDE DEF r, n
<1>8. Chosen(r, P) = IF e \in P THEN Append(Chosen(s, P), e) ELSE Chosen(s, P)
  BY <1>5, <1>6, <1>7
<1> QED BY <1>8 DEF r

(* Appending to the second of two sequences appends to both.               *)
LEMMA ConcatAppend ==
  ASSUME NEW T, NEW s \in Seq(T), NEW t \in Seq(T), NEW e \in T
  PROVE  s \o Append(t, e) = Append(s \o t, e) /\ s \o t \in Seq(T)
<1>1. Append(t, e) = t \o <<e>> /\ <<e>> \in Seq(T)
  BY AppendIsConcat
<1>2. s \o t \in Seq(T)
  BY ConcatProperties
<1>3. (s \o t) \o <<e>> = s \o (t \o <<e>>)
  BY <1>1, ConcatAssociative
<1>4. (s \o t) \o <<e>> = Append(s \o t, e)
  BY <1>2, AppendIsConcat
<1> QED BY <1>1, <1>2, <1>3, <1>4

(* What is chosen of two sequences is what is chosen of the one and of the *)
(* other.                                                                  *)
LEMMA ChosenConcat ==
  ASSUME NEW T, NEW s \in Seq(T), NEW t \in Seq(T), NEW P
  PROVE  Chosen(s \o t, P) = Chosen(s, P) \o Chosen(t, P)
<1> DEFINE n == Len(t)
           Good(i) == Chosen(s \o Upto(t, i), P) = Chosen(s, P) \o Chosen(Upto(t, i), P)
           S == {i \in 0..n : Good(i)}
<1>1. n \in Nat /\ n \in 0..n
  BY LenProperties
<1>2. /\ Upto(t, 0) = << >> /\ Upto(t, n) = t
      /\ \A i \in 0..n : Upto(t, i) \in Seq(T)
      /\ \A i \in 1..n : Upto(t, i) = Append(Upto(t, i - 1), t[i]) /\ t[i] \in T
  BY Beginnings, ElementOfSeq
<1> HIDE DEF n
<1>3. Good(0)
  <2>1. s \o << >> = s /\ Chosen(s, P) \in Seq(T)
    BY ConcatEmptySeq, ChosenType
  <2>2. Chosen(<< >>, P) = << >>
    <3>1. << >> \in Seq(T) /\ \A i \in 1..Len(<< >>) : << >>[i] \notin P
      BY EmptySeq
    <3> QED BY <3>1, ChosenNone
  <2>3. Chosen(s, P) \o << >> = Chosen(s, P)
    BY <2>1, ConcatEmptySeq
  <2> QED BY <1>2, <2>1, <2>2, <2>3
<1>4. ASSUME NEW i \in 1..n, Good(i - 1) PROVE Good(i)
  <2> DEFINE u == Upto(t, i - 1)
             e == t[i]
  <2>0. i - 1 \in 0..n
    BY <1>1
  <2>1. i - 1 \in 0..n /\ e \in T /\ Upto(t, i) = Append(u, e)
    BY <1>2, <2>0
  <2>2. u \in Seq(T)
    BY <1>2, <2>1
  <2>3. Chosen(s \o u, P) = Chosen(s, P) \o Chosen(u, P)
    BY <1>4
  <2> HIDE DEF u, e, Good
  <2>4. s \o Append(u, e) = Append(s \o u, e) /\ s \o u \in Seq(T)
    BY <2>1, <2>2, ConcatAppend
  <2>9. \A v \in Seq(T) : Chosen(Append(v, e), P) = IF e \in P THEN Append(Chosen(v, P), e) ELSE Chosen(v, P)
    BY <2>1, ChosenStep
  <2>5. Chosen(Append(u, e), P) = IF e \in P THEN Append(Chosen(u, P), e) ELSE Chosen(u, P)
    BY <2>1, <2>2, ChosenStep
  <2>6. Chosen(s, P) \in Seq(T) /\ Chosen(u, P) \in Seq(T)
    BY <2>2, ChosenType
  <2>7. Chosen(s, P) \o Append(Chosen(u, P), e) = Append(Chosen(s, P) \o Chosen(u, P), e)
    BY <2>1, <2>6, ConcatAppend
  <2>8. Chosen(s \o Append(u, e), P) = Chosen(s, P) \o Chosen(Append(u, e), P)
    BY <2>3, <2>4, <2>5, <2>7, <2>9
  <2> QED BY <2>1, <2>8 DEF Good
<1> HIDE DEF Good
<1>5. n \in S
  <2>1. 0 \in S
    BY <1>1, <1>3
  <2>2. ASSUME NEW i \in 1..n, i - 1 \in S PROVE i \in S
    <3>1. i \in 0..n
      BY <1>1
    <3> QED BY <1>4, <2>2, <3>1
  <2> HIDE DEF S
  <2>3. 0..n \subseteq S
    BY <1>1, <2>1, <2>2, IntervalInduction
  <2> QED BY <1>1, <2>3
<1> QED BY <1>2, <1>5 DEF Good

-----------------------------------------------------------------------------
(* tr.                                                                     *)

(* tr -d leaves out the bytes named, one byte at a time.                   *)
LEMMA DeleteIs ==
  ASSUME NEW text \in Texts, NEW from \in Texts
  PROVE  /\ Delete(text, from) \in Texts
         /\ Delete(text, from) =
              FlattenSeq([i \in DOMAIN text |-> IF Contains(from, text[i]) THEN << >> ELSE <<text[i]>>])
<1> DEFINE n == Len(text)
           P == Bytes \ ToSet(from)
           pieces == [i \in DOMAIN text |-> IF Contains(from, text[i]) THEN << >> ELSE <<text[i]>>]
<1>1. /\ text \in Seq(Bytes) /\ n \in Nat /\ n \in 0..n /\ DOMAIN text = 1..n
      /\ \A i \in 1..n : text[i] \in Bytes
  BY ElementOfSeq, LenProperties DEF Texts
<1>2. \A c : Contains(from, c) <=> c \in ToSet(from)
  <2>1. DOMAIN from = 1..Len(from)
    BY LenProperties DEF Texts
  <2> QED BY <2>1 DEF Contains, ToSet
<1>3. Delete(text, from) = Chosen(text, P)
  <2>1. {i \in DOMAIN text : text[i] \notin ToSet(from)} = {i \in DOMAIN text : text[i] \in P}
    BY <1>1
  <2> QED BY <2>1 DEF Delete, Chosen
<1>4. Chosen(text, P) \in Texts
  BY <1>1, ChosenType DEF Texts
<1>5. /\ pieces \in Seq(Seq(Bytes)) /\ Len(pieces) = n
      /\ \A i \in 1..n : pieces[i] = IF text[i] \in P THEN <<text[i]>> ELSE << >>
  <2>1. \A i \in 1..n : <<text[i]>> \in Seq(Bytes) /\ << >> \in Seq(Bytes)
    BY <1>1
  <2> QED BY <1>1, <1>2, <2>1
<1> HIDE DEF P, pieces
<1>6. PICK f \in [0..n -> Seq(Bytes)] :
        /\ f[0] = << >> /\ \A i \in 1..n : f[i] = f[i - 1] \o pieces[i]
        /\ FlattenSeq(pieces) = f[n]
  <2>1. \E f \in [0..Len(pieces) -> Seq(Bytes)] :
          /\ f[0] = << >> /\ \A i \in 1..Len(pieces) : f[i] = f[i - 1] \o pieces[i]
          /\ FlattenSeq(pieces) = f[Len(pieces)]
    BY <1>5, FlattenLoop
  <2> HIDE DEF n
  <2> QED BY <1>5, <2>1
<1>7. /\ Upto(text, 0) = << >> /\ Upto(text, n) = text
      /\ \A i \in 0..n : Upto(text, i) \in Seq(Bytes)
      /\ \A i \in 1..n : Upto(text, i) = Append(Upto(text, i - 1), text[i])
  BY <1>1, Beginnings
<1> HIDE DEF n
<1> DEFINE S == {i \in 0..n : f[i] = Chosen(Upto(text, i), P)}
<1>8. 0 \in S
  <2>1. Chosen(<< >>, P) = << >>
    <3>1. << >> \in Seq(Bytes) /\ \A i \in 1..Len(<< >>) : << >>[i] \notin P
      BY EmptySeq
    <3> QED BY <3>1, ChosenNone
  <2> QED BY <1>1, <1>6, <1>7, <2>1
<1>9. ASSUME NEW i \in 1..n, i - 1 \in S PROVE i \in S
  <2> DEFINE u == Upto(text, i - 1)
  <2>1. i \in 0..n /\ i - 1 \in 0..n /\ text[i] \in Bytes /\ f[i - 1] = Chosen(u, P)
    BY <1>1, <1>9
  <2>2. u \in Seq(Bytes) /\ Upto(text, i) = Append(u, text[i])
    BY <1>7, <2>1
  <2> HIDE DEF u
  <2>8. \A c \in Bytes : Chosen(Append(u, c), P) = IF c \in P THEN Append(Chosen(u, P), c) ELSE Chosen(u, P)
    BY <2>2, ChosenStep
  <2>3. Chosen(Append(u, text[i]), P) = IF text[i] \in P THEN Append(Chosen(u, P), text[i]) ELSE Chosen(u, P)
    BY <2>1, <2>8
  <2>4. Chosen(u, P) \in Seq(Bytes)
    BY <2>2, ChosenType
  <2>5. f[i] = Chosen(u, P) \o pieces[i]
    BY <1>6, <2>1
  <2>6. Append(Chosen(u, P), text[i]) = Chosen(u, P) \o <<text[i]>> /\ Chosen(u, P) = Chosen(u, P) \o << >>
    BY <2>1, <2>4, AppendIsConcat, ConcatEmptySeq
  <2>7. f[i] = Chosen(Append(u, text[i]), P)
    BY <1>5, <2>3, <2>5, <2>6
  <2> QED BY <2>1, <2>2, <2>7
<1>10. n \in S
  <2> HIDE DEF S
  <2>1. 0..n \subseteq S
    BY <1>1, <1>8, <1>9, IntervalInduction
  <2> QED BY <1>1, <2>1
<1>11. Delete(text, from) \in Texts /\ Delete(text, from) = FlattenSeq(pieces)
  BY <1>3, <1>4, <1>6, <1>7, <1>10
<1> QED BY <1>11 DEF pieces

(* The pairs of tr, one after another.                                     *)
Image(from, to) ==
  CHOOSE h : h = [i \in 0..Len(from) |->
    IF i = 0 THEN [c \in Bytes |-> c]
    ELSE [h[i - 1] EXCEPT ![from[i]] = to[Least(i, Len(to))]]]

(* The pairs applied one after another map a byte by its last pair.        *)
LEMMA ImageIs ==
  ASSUME NEW from \in Texts, NEW to \in Texts, to # << >>
  PROVE  /\ Image(from, to)[Len(from)] \in [Bytes -> Bytes]
         /\ \A c \in Bytes : LET S == {j \in 1..Len(from) : from[j] = c}
              IN Image(from, to)[Len(from)][c] = IF S = {} THEN c ELSE to[Least(Max(S), Len(to))]
<1> DEFINE n == Len(from)
           same == [c \in Bytes |-> c]
           F == [Bytes -> Bytes]
           e(i) == to[Least(i, Len(to))]
           step == [i \in 1..n |-> [g \in F |-> [g EXCEPT ![from[i]] = e(i)]]]
           Rec(h) == h = [i \in 0..n |-> IF i = 0 THEN same ELSE [h[i - 1] EXCEPT ![from[i]] = e(i)]]
           h0 == CHOOSE h : Rec(h)
<1>1. /\ n \in Nat /\ n \in 0..n /\ Len(to) \in Nat \ {0}
      /\ \A i \in 1..n : from[i] \in Bytes
      /\ \A i \in 1..Len(to) : to[i] \in Bytes
  BY ElementOfSeq, LenProperties, EmptySeq DEF Texts
<1>2. \A i \in Nat \ {0} : e(i) \in Bytes
  <2> TAKE i \in Nat \ {0}
  <2>1. Least(i, Len(to)) \in 1..Len(to)
    BY <1>1 DEF Least
  <2> QED BY <1>1, <2>1
<1>3. Image(from, to) = h0
  BY DEF Image
<1>4. same \in F
  OBVIOUS
<1> HIDE DEF n, e, same
<1>5. step \in [1..n -> [F -> F]]
  <2>1. \A i \in 1..n, g \in F : [g EXCEPT ![from[i]] = e(i)] \in F
    BY <1>1, <1>2
  <2> HIDE DEF F
  <2> QED BY <2>1
<1>6. PICK f : LoopComputes(f, n, F, same, step)
  <2> HIDE DEF step, F
  <2> QED BY <1>1, <1>4, <1>5, LoopExists
<1>7. f \in [0..n -> F] /\ f[0] = same
  BY <1>6 DEF LoopComputes
<1>8. ASSUME NEW i \in 1..n PROVE f[i] = [f[i - 1] EXCEPT ![from[i]] = e(i)] /\ f[i - 1] \in F
  <2>1. i - 1 \in 0..n
    BY <1>1
  <2>2. f[i - 1] \in F
    BY <1>7, <2>1
  <2>3. f[i] = step[i][f[i - 1]]
    BY <1>6 DEF LoopComputes
  <2> HIDE DEF F
  <2> QED BY <2>2, <2>3
<1> HIDE DEF step
<1>9. Rec(f)
  <2>1. f = [i \in 0..n |-> f[i]]
    BY <1>7
  <2>2. \A i \in 0..n : f[i] = IF i = 0 THEN same ELSE [f[i - 1] EXCEPT ![from[i]] = e(i)]
    <3> TAKE i \in 0..n
    <3>1. i = 0 \/ i \in 1..n
      BY <1>1
    <3>2. i = 0 => f[i] = same
      BY <1>7
    <3>3. i \in 1..n => i # 0
      BY <1>1
    <3> QED BY <1>8, <3>1, <3>2, <3>3
  <2> QED BY <2>1, <2>2
<1>10. Rec(h0)
  <2> HIDE DEF Rec
  <2> QED BY <1>9
<1> HIDE DEF h0
<1>11. \A i \in 0..n : h0[i] = IF i = 0 THEN same ELSE [h0[i - 1] EXCEPT ![from[i]] = e(i)]
  BY <1>10
<1>12. h0[n] = f[n]
  <2> DEFINE S == {i \in 0..n : h0[i] = f[i]}
  <2>1. 0 \in S
    <3>1. 0 \in 0..n
      BY <1>1
    <3> QED BY <1>7, <1>11, <3>1
  <2>2. ASSUME NEW i \in 1..n, i - 1 \in S PROVE i \in S
    <3>1. i \in 0..n /\ i # 0 /\ h0[i - 1] = f[i - 1]
      BY <1>1, <2>2
    <3>2. h0[i] = [h0[i - 1] EXCEPT ![from[i]] = e(i)]
      BY <1>11, <3>1
    <3> QED BY <1>8, <3>1, <3>2
  <2>3. 0..n \subseteq S
    <3> HIDE DEF S
    <3> QED BY <1>1, <2>1, <2>2, IntervalInduction
  <2> QED BY <1>1, <2>3
<1>13. ASSUME NEW c \in Bytes
       PROVE  LET S == {j \in 1..n : from[j] = c} IN f[n][c] = IF S = {} THEN c ELSE e(Max(S))
  <2> DEFINE At(i) == {j \in 1..i : from[j] = c}
             Good(i) == f[i][c] = IF At(i) = {} THEN c ELSE e(Max(At(i)))
             S == {i \in 0..n : Good(i)}
  <2>1. Good(0)
    <3>1. At(0) = {}
      OBVIOUS
    <3>2. f[0][c] = c
      BY <1>7 DEF same
    <3> QED BY <3>1, <3>2
  <2>2. ASSUME NEW i \in 1..n, Good(i - 1) PROVE Good(i)
    <3>1. f[i] = [f[i - 1] EXCEPT ![from[i]] = e(i)] /\ f[i - 1] \in F
      BY <1>8
    <3>2. i \in Nat /\ \A j \in 1..i : j \in 1..(i - 1) \/ j = i
      BY <1>1
    <3>3. \A j \in 1..(i - 1) : j \in 1..i /\ j < i
      BY <1>1
    <3>4. i \in 1..i
      BY <1>1
    <3>5. CASE from[i] = c
      <4>1. f[i][c] = e(i)
        BY <3>1, <3>5
      <4>2. At(i) \subseteq Nat /\ i \in At(i) /\ At(i) # {}
        BY <3>4, <3>5
      <4>3. IsFiniteSet(At(i))
        <5>1. IsFiniteSet(1..i) /\ At(i) \in SUBSET (1..i)
          BY <3>2, FS_Interval
        <5> HIDE DEF At
        <5> QED BY <5>1, FS_Subset
      <4>4. Max(At(i)) \in At(i) /\ i <= Max(At(i))
        <5> HIDE DEF At
        <5> QED BY <4>2, <4>3, Extremes
      <4>5. Max(At(i)) \in 1..i
        BY <4>4
      <4>6. Max(At(i)) = i
        <5> HIDE DEF At
        <5> QED BY <4>4, <4>5
      <4> HIDE DEF At
      <4> QED BY <4>1, <4>2, <4>6
    <3>6. CASE from[i] # c
      <4>1. f[i][c] = f[i - 1][c]
        BY <3>1, <3>6
      <4>2. At(i) = At(i - 1)
        BY <3>2, <3>3, <3>6
      <4> HIDE DEF At
      <4> QED BY <2>2, <4>1, <4>2
    <3> QED BY <3>5, <3>6
  <2> HIDE DEF Good
  <2>3. n \in S
    <3>1. 0 \in S
      BY <1>1, <2>1
    <3>2. ASSUME NEW i \in 1..n, i - 1 \in S PROVE i \in S
      <4>1. i \in 0..n
        BY <1>1
      <4> QED BY <2>2, <3>2, <4>1
    <3> HIDE DEF S
    <3>3. 0..n \subseteq S
      BY <1>1, <3>1, <3>2, IntervalInduction
    <3> QED BY <1>1, <3>3
  <2> QED BY <2>3 DEF Good
<1>14. f[n] \in F
  BY <1>1, <1>7
<1> QED BY <1>3, <1>12, <1>13, <1>14 DEF n, e

(* Translate maps every byte as the pairs of tr do, one after another.     *)
LEMMA TranslateIs ==
  ASSUME NEW text \in Texts, NEW from \in Texts, NEW to \in Texts, to # << >>
  PROVE  /\ Translate(text, from, to) \in Texts
         /\ Translate(text, from, to) = [i \in DOMAIN text |-> Image(from, to)[Len(from)][text[i]]]
<1> DEFINE g == Image(from, to)[Len(from)]
           At(c) == {j \in 1..Len(from) : from[j] = c}
<1>1. /\ g \in [Bytes -> Bytes]
      /\ \A c \in Bytes : g[c] = IF At(c) = {} THEN c ELSE to[Least(Max(At(c)), Len(to))]
  BY ImageIs
<1> HIDE DEF g
<1>2. /\ Len(text) \in Nat /\ DOMAIN text = 1..Len(text) /\ DOMAIN from = 1..Len(from)
      /\ \A i \in 1..Len(text) : text[i] \in Bytes
  BY ElementOfSeq, LenProperties DEF Texts
<1>3. \A c \in Bytes : c \in ToSet(from) <=> At(c) # {}
  BY <1>2 DEF ToSet
<1>4. Translate(text, from, to) =
        [i \in DOMAIN text |-> IF text[i] \in ToSet(from)
                               THEN to[Least(Max(At(text[i])), Len(to))] ELSE text[i]]
  BY <1>2 DEF Translate
<1> HIDE DEF At
<1>5. \A i \in DOMAIN text : g[text[i]] = IF text[i] \in ToSet(from)
                                          THEN to[Least(Max(At(text[i])), Len(to))] ELSE text[i]
  BY <1>1, <1>2, <1>3
<1>6. Translate(text, from, to) = [i \in DOMAIN text |-> g[text[i]]]
  BY <1>4, <1>5
<1>7. [i \in DOMAIN text |-> g[text[i]]] \in Texts
  <2>1. \A i \in 1..Len(text) : g[text[i]] \in Bytes
    BY <1>1, <1>2
  <2> QED BY <1>2, <2>1 DEF Texts
<1> QED BY <1>6, <1>7 DEF g

-----------------------------------------------------------------------------
(* Counting lines, and runs of equal lines.                                *)

(* A set of places is finite, and no larger than the interval.             *)
LEMMA PartOfInterval ==
  ASSUME NEW n \in Nat, NEW S, S \subseteq 1..n
  PROVE  IsFiniteSet(S) /\ Cardinality(S) \in Nat /\ Cardinality(S) <= n
<1>1. IsFiniteSet(1..n) /\ Cardinality(1..n) = n
  BY FS_Interval
<1>2. S \in SUBSET (1..n)
  OBVIOUS
<1>3. IsFiniteSet(S) /\ Cardinality(S) <= n
  BY <1>1, <1>2, FS_Subset
<1> QED BY <1>3, FS_CardinalityType

(* A split text has one part more than separators.                         *)
LEMMA SplitCount ==
  ASSUME NEW T, NEW text \in Seq(T), NEW sep
  PROVE  LET S == {i \in DOMAIN text : text[i] = sep}
         IN  /\ S \subseteq 1..Len(text) /\ IsFiniteSet(S) /\ Cardinality(S) \in Nat
             /\ Len(Split(text, sep)) = Cardinality(S) + 1
<1> DEFINE n == Len(text)
           S == {i \in DOMAIN text : text[i] = sep}
           at == InOrder(Separators(text, sep))
<1>1. n \in Nat /\ DOMAIN text = 1..n
  BY LenProperties
<1>2. S \subseteq 1..n
  BY <1>1
<1>3. Separators(text, sep) = (S \cup {0}) \cup {n + 1}
  BY DEF Separators
<1> HIDE DEF S
<1>4. IsFiniteSet(S) /\ Cardinality(S) \in Nat
  BY <1>1, <1>2, Positions
<1>5. 0 \notin S /\ n + 1 \notin S \cup {0}
  BY <1>1, <1>2
<1>6. IsFiniteSet(S \cup {0}) /\ Cardinality(S \cup {0}) = Cardinality(S) + 1
  BY <1>4, <1>5, FS_AddElement
<1>7. Cardinality(Separators(text, sep)) = Cardinality(S) + 1 + 1
  BY <1>3, <1>5, <1>6, FS_AddElement
<1>8. Len(at) = Cardinality(Separators(text, sep))
  BY FiniteSeparators, InOrderEnumerates
<1>9. Split(text, sep) = [k \in 1..(Len(at) - 1) |-> SubSeq(text, at[k] + 1, at[k + 1] - 1)]
  BY SplitShape
<1>10. Split(text, sep) \in Seq(Seq(T))
  BY SplitParts
<1> HIDE DEF at
<1>11. DOMAIN Split(text, sep) = 1..(Cardinality(S) + 1)
  <2>1. Len(at) - 1 = Cardinality(S) + 1
    BY <1>4, <1>7, <1>8
  <2> QED BY <1>9, <2>1
<1>12. Len(Split(text, sep)) = Cardinality(S) + 1
  <2>1. Cardinality(S) + 1 \in Nat
    BY <1>4
  <2> QED BY <1>10, <1>11, <2>1, LenProperties
<1> QED BY <1>2, <1>4, <1>12 DEF S

(* There are as many lines as wc counts: line feeds, and a last line       *)
(* without one.                                                            *)
LEMMA LineCount ==
  ASSUME NEW text \in Texts
  PROVE  /\ Len(SplitLines(text)) = WordCount(text).lines /\ Len(SplitLines(text)) <= Len(text)
         /\ Len(SplitLines(text)) \in Nat
<1> DEFINE n == Len(text)
           S == {i \in DOMAIN text : text[i] = NL}
<1>1. text \in Seq(Bytes) /\ n \in Nat /\ DOMAIN text = 1..n
  BY LenProperties DEF Texts
<1>2. WordCount(text).lines = Cardinality(S) + (IF text # << >> /\ Last(text) # NL THEN 1 ELSE 0)
  BY DEF WordCount
<1>3. CASE text = << >>
  <2>1. S = {} /\ SplitLines(text) = << >> /\ n = 0
    BY <1>3 DEF SplitLines
  <2>2. Cardinality({}) = 0 /\ Len(<< >>) = 0
    BY FS_EmptySet
  <2> QED BY <1>2, <1>3, <2>1, <2>2
<1>4. CASE text # << >> /\ Last(text) = NL
  <2> DEFINE body == Front(text)
             R == {i \in DOMAIN body : body[i] = NL}
  <2>1. /\ body \in Seq(Bytes) /\ n \in Nat \ {0} /\ Len(body) = n - 1
        /\ \A i \in 1..(n - 1) : body[i] = text[i]
    BY <1>1, <1>4, FrontLast
  <2>2. SplitLines(text) = Split(body, NL) /\ text[n] = NL
    BY <1>4 DEF SplitLines, Last
  <2> HIDE DEF body
  <2>3. DOMAIN body = 1..(n - 1)
    BY <2>1, LenProperties
  <2>4. S = R \cup {n} /\ n \notin R
    <3>1. \A i \in 1..n : i \in 1..(n - 1) \/ i = n
      BY <2>1
    <3>2. n \in 1..n /\ n \notin 1..(n - 1) /\ \A i \in 1..(n - 1) : i \in 1..n
      BY <2>1
    <3> QED BY <1>1, <2>1, <2>2, <2>3, <3>1, <3>2
  <2>5. /\ R \subseteq 1..(n - 1) /\ IsFiniteSet(R) /\ Cardinality(R) \in Nat
        /\ Len(Split(body, NL)) = Cardinality(R) + 1
    <3>1. /\ R \subseteq 1..Len(body) /\ IsFiniteSet(R) /\ Cardinality(R) \in Nat
          /\ Len(Split(body, NL)) = Cardinality(R) + 1
      <4>1. body \in Seq(Bytes)
        BY <2>1
      <4> QED BY <4>1, SplitCount, Zenon
    <3> QED BY <2>1, <3>1
  <2> HIDE DEF R, S
  <2>6. Cardinality(S) = Cardinality(R) + 1
    BY <2>4, <2>5, FS_AddElement
  <2>7. Cardinality(R) <= n - 1
    <3>1. n - 1 \in Nat
      BY <2>1
    <3> QED BY <2>5, <3>1, PartOfInterval
  <2> HIDE DEF n
  <2>8. Len(SplitLines(text)) = Cardinality(S) /\ Len(SplitLines(text)) <= n /\ Cardinality(S) \in Nat
    BY <1>1, <2>2, <2>5, <2>6, <2>7
  <2>9. WordCount(text).lines = Cardinality(S) + 0
    BY <1>2, <1>4
  <2> QED BY <2>8, <2>9 DEF n
<1>5. CASE text # << >> /\ Last(text) # NL
  <2>1. n \in Nat \ {0} /\ text[n] # NL /\ SplitLines(text) = Split(text, NL)
    BY <1>1, <1>5, FrontLast DEF SplitLines, Last
  <2>2. /\ S \subseteq 1..n /\ IsFiniteSet(S) /\ Cardinality(S) \in Nat
        /\ Len(Split(text, NL)) = Cardinality(S) + 1
    BY <1>1, SplitCount
  <2>3. S \subseteq 1..(n - 1)
    <3>1. \A i \in 1..n : i \in 1..(n - 1) \/ i = n
      BY <2>1
    <3> QED BY <1>1, <2>1, <3>1
  <2> HIDE DEF S
  <2>4. Cardinality(S) <= n - 1
    <3>1. n - 1 \in Nat
      BY <2>1
    <3> QED BY <2>3, <3>1, PartOfInterval
  <2> HIDE DEF n
  <2>5. WordCount(text).lines = Cardinality(S) + 1
    BY <1>2, <1>5
  <2> QED BY <1>1, <2>1, <2>2, <2>4, <2>5 DEF n
<1> QED BY <1>3, <1>4, <1>5

(* Between two of the numbers of an increasing sequence.                   *)
LEMMA Between ==
  ASSUME NEW q \in Seq(Nat), NEW i \in Nat, Len(q) # 0, q[1] <= i
  PROVE  \E k \in 1..Len(q) : q[k] <= i /\ (k = Len(q) \/ i < q[k + 1])
<1> DEFINE n == Len(q)
           K == {k \in 1..n : q[k] <= i}
<1>1. n \in Nat /\ 1 \in K /\ K \in SUBSET (1..n) /\ K \subseteq Nat /\ \A k \in 1..n : q[k] \in Nat
  BY LenProperties, ElementOfSeq
<1>2. IsFiniteSet(K)
  <2>1. IsFiniteSet(1..n)
    BY <1>1, FS_Interval
  <2> HIDE DEF K
  <2> QED BY <1>1, <2>1, FS_Subset
<1>3. Max(K) \in K /\ \A k \in K : k <= Max(K)
  <2> HIDE DEF K
  <2> QED BY <1>1, <1>2, Extremes
<1>4. PICK k \in 1..n : q[k] <= i /\ \A j \in K : j <= k
  BY <1>3
<1>5. k = n \/ i < q[k + 1]
  <2> SUFFICES ASSUME k # n, ~(i < q[k + 1]) PROVE FALSE
    OBVIOUS
  <2>1. k + 1 \in 1..n
    BY <1>1
  <2>2. q[k + 1] <= i
    BY <1>1, <2>1
  <2>3. k + 1 \in K
    BY <2>1, <2>2
  <2>4. k + 1 <= k
    BY <1>4, <2>3
  <2> QED BY <2>4
<1> QED BY <1>4, <1>5

-----
(* The runs of equal lines.                                                *)
Starts(lines) == InOrder({k \in DOMAIN lines : k = 1 \/ lines[k] # lines[k - 1]})
After(lines, k) == IF k = Len(Starts(lines)) THEN Len(lines) + 1 ELSE Starts(lines)[k + 1]

(* Uniq starts a run at each line that differs from the one before; runs   *)
(* follow on one another, and hold equal lines.                            *)
LEMMA RunsOfLines ==
  ASSUME NEW lines \in Seq(Texts)
  PROVE  LET starts == Starts(lines)
             m == Len(starts)
         IN  /\ m \in Nat /\ starts \in Seq(Nat) /\ Len(lines) \in Nat /\ m <= Len(lines)
             /\ (Len(lines) # 0 => m # 0) /\ (m # 0 => starts[1] = 1)
             /\ \A k \in 1..m : /\ starts[k] \in 1..Len(lines) /\ After(lines, k) \in 2..(Len(lines) + 1)
                                /\ starts[k] < After(lines, k)
                                /\ \A i \in starts[k]..(After(lines, k) - 1) : lines[i] = lines[starts[k]]
                                /\ k # 1 => After(lines, k - 1) = starts[k] /\ lines[starts[k]] # lines[starts[k - 1]]
<1> DEFINE n == Len(lines)
           S == {k \in DOMAIN lines : k = 1 \/ lines[k] # lines[k - 1]}
           starts == Starts(lines)
           m == Len(starts)
           after(k) == After(lines, k)
<1>1. n \in Nat /\ DOMAIN lines = 1..n
  BY LenProperties
<1>2. S \subseteq 1..n /\ \A i \in 1..n : i \in S <=> i = 1 \/ lines[i] # lines[i - 1]
  BY <1>1
<1> HIDE DEF S
<1>3. /\ starts \in Seq(Nat) /\ m \in Nat /\ Increasing(starts) /\ Elements(starts) = S
      /\ m = Cardinality(S) /\ \A k \in 1..m : starts[k] \in S /\ starts[k] \in 1..n
  BY <1>1, <1>2, Positions DEF Starts, S
<1>4. \A k \in 1..m : after(k) = IF k = m THEN n + 1 ELSE starts[k + 1]
  BY DEF After
<1> HIDE DEF starts, after
<1>5. \A j, k \in 1..m : j < k => starts[j] < starts[k]
  BY <1>3 DEF Increasing
<1>6. \A i \in S : \E k \in 1..m : starts[k] = i
  BY <1>3 DEF Elements
<1>7. m <= n
  BY <1>1, <1>2, <1>3, PartOfInterval
<1> HIDE DEF m, n
<1>8. n # 0 => m # 0
  <2> SUFFICES ASSUME n # 0 PROVE m # 0
    OBVIOUS
  <2>1. 1 \in S
    BY <1>1, <1>2
  <2>2. PICK k \in 1..m : starts[k] = 1
    BY <1>6, <2>1
  <2> QED BY <1>3, <2>2
<1>9. m # 0 => starts[1] = 1
  <2> SUFFICES ASSUME m # 0 PROVE starts[1] = 1
    OBVIOUS
  <2>1. 1 \in 1..m /\ starts[1] \in 1..n
    BY <1>3
  <2>2. 1 \in S
    BY <1>1, <1>2, <2>1
  <2>3. PICK k \in 1..m : starts[k] = 1
    BY <1>6, <2>2
  <2>4. k = 1 \/ 1 < k
    BY <1>3
  <2>5. 1 < k => starts[1] < starts[k]
    BY <1>5, <2>1
  <2> QED BY <1>1, <2>1, <2>3, <2>4, <2>5
<1>10. ASSUME NEW k \in 1..m
       PROVE  starts[k] \in 1..n /\ after(k) \in 2..(n + 1) /\ starts[k] < after(k)
  <2>1. CASE k = m
    BY <1>1, <1>3, <1>4, <2>1
  <2>2. CASE k # m
    <3>1. k + 1 \in 1..m /\ k < k + 1
      BY <1>3, <2>2
    <3>2. starts[k] < starts[k + 1] /\ starts[k] \in 1..n /\ starts[k + 1] \in 1..n
      BY <1>3, <1>5, <3>1
    <3> QED BY <1>1, <1>4, <2>2, <3>2
  <2> QED BY <2>1, <2>2
<1>11. ASSUME NEW k \in 1..m, NEW i \in Nat, starts[k] < i, i < after(k)
       PROVE  i \in 1..n /\ i # 1 /\ lines[i] = lines[i - 1]
  <2>1. starts[k] \in 1..n /\ after(k) \in 2..(n + 1)
    BY <1>10
  <2>2. i \in 1..n /\ i # 1
    BY <1>1, <1>11, <2>1
  <2>3. i \notin S
    <3> SUFFICES ASSUME i \in S PROVE FALSE
      OBVIOUS
    <3>1. PICK j \in 1..m : starts[j] = i
      BY <1>6
    <3>2. ~(j <= k)
      <4>1. j = k \/ j < k \/ k < j
        BY <1>3
      <4>2. j < k => starts[j] < starts[k]
        BY <1>5
      <4> QED BY <1>11, <2>1, <3>1, <4>1, <4>2
    <3>3. k + 1 \in 1..m /\ after(k) = starts[k + 1] /\ (j = k + 1 \/ k + 1 < j)
      BY <1>3, <1>4, <3>2
    <3>4. k + 1 < j => starts[k + 1] < starts[j]
      BY <1>5, <3>3
    <3>5. starts[k + 1] \in 1..n
      BY <1>3, <3>3
    <3> QED BY <1>11, <3>1, <3>3, <3>4, <3>5
  <2> QED BY <1>2, <2>2, <2>3
<1>12. ASSUME NEW k \in 1..m, NEW i \in starts[k]..(after(k) - 1) PROVE lines[i] = lines[starts[k]]
  <2> DEFINE b == starts[k]
             d == i - b
             R == {j \in 0..d : lines[b + j] = lines[b]}
  <2>1. b \in 1..n /\ after(k) \in 2..(n + 1) /\ b < after(k)
    BY <1>10
  <2> HIDE DEF b
  <2>2. i \in Int /\ d \in Nat /\ b + d = i /\ d \in 0..d /\ i < after(k)
    <3>1. i \in b..(after(k) - 1)
      BY DEF b
    <3> QED BY <1>1, <2>1, <3>1
  <2> HIDE DEF d
  <2>3. 0 \in R
    <3>1. b + 0 = b /\ 0 \in 0..d
      BY <1>1, <2>1, <2>2
    <3> QED BY <3>1
  <2>4. ASSUME NEW j \in 1..d, j - 1 \in R PROVE j \in R
    <3>1. lines[b + (j - 1)] = lines[b] /\ j \in 0..d
      BY <2>2, <2>4
    <3>2. b + j \in Nat /\ b < b + j /\ b + j < after(k) /\ (b + j) - 1 = b + (j - 1)
      BY <1>1, <2>1, <2>2
    <3>3. lines[b + j] = lines[(b + j) - 1]
      BY <1>11, <3>2 DEF b
    <3>4. lines[b + j] = lines[b]
      BY <3>1, <3>2, <3>3
    <3> QED BY <3>1, <3>4
  <2>5. d \in R
    <3> HIDE DEF R
    <3>1. 0..d \subseteq R
      BY <2>2, <2>3, <2>4, IntervalInduction
    <3> QED BY <2>2, <3>1
  <2>6. lines[b + d] = lines[b]
    BY <2>5
  <2> QED BY <2>2, <2>6 DEF b
<1>13. ASSUME NEW k \in 1..m, k # 1
       PROVE  after(k - 1) = starts[k] /\ lines[starts[k]] # lines[starts[k - 1]]
  <2>1. k - 1 \in 1..m /\ k - 1 # m /\ (k - 1) + 1 = k /\ 1 \in 1..m /\ 1 < k
    BY <1>3, <1>13
  <2>2. after(k - 1) = starts[k]
    BY <1>4, <2>1
  <2>3. starts[k - 1] \in 1..n /\ starts[k - 1] < starts[k] /\ starts[k] \in 1..n
    BY <1>10, <2>1, <2>2
  <2>4. starts[k] # 1
    BY <1>1, <2>3
  <2>5. lines[starts[k]] # lines[starts[k] - 1]
    BY <1>2, <1>3, <2>4
  <2>6. starts[k] - 1 \in starts[k - 1]..(after(k - 1) - 1)
    BY <1>1, <2>2, <2>3
  <2>7. lines[starts[k] - 1] = lines[starts[k - 1]]
    BY <1>12, <2>1, <2>6
  <2> QED BY <2>2, <2>5, <2>7
<1> QED BY <1>1, <1>3, <1>7, <1>8, <1>9, <1>10, <1>12, <1>13 DEF n, m, starts, after

-----------------------------------------------------------------------------
(* The column of a count.                                                  *)

(* What one text holds after another.                                      *)
LEMMA ConcatIs ==
  ASSUME NEW T, NEW s \in Seq(T), NEW t \in Seq(T)
  PROVE  /\ s \o t \in Seq(T) /\ Len(s \o t) = Len(s) + Len(t) /\ Len(s) \in Nat /\ Len(t) \in Nat
         /\ \A i \in 1..Len(s) : (s \o t)[i] = s[i]
         /\ \A i \in 1..Len(t) : (s \o t)[Len(s) + i] = t[i]
         /\ SubSeq(s \o t, 1, Len(s)) = s
         /\ SubSeq(s \o t, Len(s) + 1, Len(s) + Len(t)) = t
<1> DEFINE m == Len(s)
           n == Len(t)
           r == s \o t
<1>1. m \in Nat /\ n \in Nat
  BY LenProperties
<1>2. /\ r \in Seq(T) /\ Len(r) = m + n
      /\ \A i \in 1..(m + n) : r[i] = IF i <= m THEN s[i] ELSE t[i - m]
  BY ConcatProperties
<1> HIDE DEF m, n, r
<1>3. \A i \in 1..m : r[i] = s[i]
  <2>1. \A i \in 1..m : i \in 1..(m + n) /\ i <= m
    BY <1>1
  <2> QED BY <1>2, <2>1
<1>4. \A i \in 1..n : r[m + i] = t[i]
  <2>1. \A i \in 1..n : m + i \in 1..(m + n) /\ ~(m + i <= m) /\ (m + i) - m = i
    BY <1>1
  <2> QED BY <1>2, <2>1
<1>5. \A i \in 1..(m + n) : r[i] \in T
  BY <1>2, ElementOfSeq
<1>6. SubSeq(r, 1, m) = s
  <2>1. \A i \in 1..m : i \in 1..(m + n)
    BY <1>1
  <2>2. /\ SubSeq(r, 1, m) \in Seq(T) /\ Len(SubSeq(r, 1, m)) = IF 1 <= m THEN m - 1 + 1 ELSE 0
        /\ \A i \in 1..(m - 1 + 1) : SubSeq(r, 1, m)[i] = r[1 + i - 1]
    <3>1. 1 \in Int /\ m \in Int /\ \A i \in 1..m : r[i] \in T
      BY <1>1, <1>5, <2>1
    <3> QED BY <3>1, SubSeqProperties
  <2>3. m - 1 + 1 = m /\ (1 <= m \/ m = 0) /\ \A i \in 1..m : 1 + i - 1 = i
    BY <1>1
  <2>4. Len(SubSeq(r, 1, m)) = m /\ \A i \in 1..m : SubSeq(r, 1, m)[i] = s[i]
    BY <1>3, <2>2, <2>3
  <2> QED BY <2>2, <2>4, SeqEqual DEF m
<1>7. SubSeq(r, m + 1, m + n) = t
  <2>1. \A i \in (m + 1)..(m + n) : i \in 1..(m + n)
    BY <1>1
  <2>2. /\ SubSeq(r, m + 1, m + n) \in Seq(T)
        /\ Len(SubSeq(r, m + 1, m + n)) = IF m + 1 <= m + n THEN (m + n) - (m + 1) + 1 ELSE 0
        /\ \A i \in 1..((m + n) - (m + 1) + 1) : SubSeq(r, m + 1, m + n)[i] = r[(m + 1) + i - 1]
    <3>1. m + 1 \in Int /\ m + n \in Int /\ \A i \in (m + 1)..(m + n) : r[i] \in T
      BY <1>1, <1>5, <2>1
    <3> QED BY <3>1, SubSeqProperties
  <2>3. (m + n) - (m + 1) + 1 = n /\ (m + 1 <= m + n \/ n = 0) /\ \A i \in 1..n : (m + 1) + i - 1 = m + i
    BY <1>1
  <2>4. Len(SubSeq(r, m + 1, m + n)) = n /\ \A i \in 1..n : SubSeq(r, m + 1, m + n)[i] = t[i]
    BY <1>1, <1>4, <2>2, <2>3
  <2> QED BY <2>2, <2>4, SeqEqual DEF n
<1> QED BY <1>1, <1>2, <1>3, <1>4, <1>6, <1>7 DEF m, n, r

(* Two texts make one that has the one and then the other.                 *)
LEMMA ConcatTexts ==
  ASSUME NEW s \in Texts, NEW t \in Texts
  PROVE  /\ s \o t \in Texts /\ Len(s \o t) = Len(s) + Len(t) /\ Len(s) \in Nat /\ Len(t) \in Nat
         /\ \A i \in 1..Len(s) : (s \o t)[i] = s[i]
         /\ \A i \in 1..Len(t) : (s \o t)[Len(s) + i] = t[i]
         /\ SubSeq(s \o t, 1, Len(s)) = s
         /\ SubSeq(s \o t, Len(s) + 1, Len(s) + Len(t)) = t
<1>1. s \in Seq(Bytes) /\ t \in Seq(Bytes)
  BY DEF Texts
<1> QED BY <1>1, ConcatIs DEF Texts

(* Trimming takes away the padding before a word.                          *)
LEMMA SpacesBefore ==
  ASSUME NEW p \in Nat, NEW word \in Texts, word # << >>, Free(word, SPACE)
  PROVE  LET padding == [k \in 1..p |-> SPACE]
         IN  padding \in Texts /\ Len(padding) = p /\ TrimSpace(padding \o word) = word
<1> DEFINE padding == [k \in 1..p |-> SPACE]
           all == padding \o word
           n == Len(word)
           solid == {i \in DOMAIN all : all[i] # SPACE}
<1>1. padding \in Texts /\ Len(padding) = p /\ \A i \in 1..p : padding[i] = SPACE
  BY ByteTypes DEF Texts
<1>2. word \in Texts /\ n \in Nat \ {0} /\ \A i \in 1..n : word[i] # SPACE
  BY EmptySeq DEF Texts, Free
<1> HIDE DEF padding
<1>3. /\ all \in Texts /\ Len(all) = p + n
      /\ \A i \in 1..p : all[i] = padding[i]
      /\ \A i \in 1..n : all[p + i] = word[i]
      /\ SubSeq(all, p + 1, p + n) = word
  <2>1. /\ all \in Texts /\ Len(all) = Len(padding) + n
        /\ \A i \in 1..Len(padding) : all[i] = padding[i]
        /\ \A i \in 1..n : all[Len(padding) + i] = word[i]
        /\ SubSeq(all, Len(padding) + 1, Len(padding) + n) = word
    BY <1>1, <1>2, ConcatTexts
  <2> QED BY <1>1, <2>1
<1>4. DOMAIN all = 1..(p + n)
  <2> HIDE DEF all
  <2> QED BY <1>3, LenProperties DEF Texts
<1> HIDE DEF all, n
<1>5. solid = (p + 1)..(p + n)
  <2>1. ASSUME NEW i \in 1..(p + n) PROVE all[i] # SPACE <=> i \in (p + 1)..(p + n)
    <3>1. CASE i \in 1..p
      BY <1>1, <1>3, <3>1
    <3>2. CASE i \in (p + 1)..(p + n)
      <4>1. i - p \in 1..n /\ p + (i - p) = i
        BY <1>2, <3>2
      <4>2. all[p + (i - p)] = word[i - p]
        BY <1>3, <4>1
      <4>3. word[i - p] # SPACE
        BY <1>2, <4>1
      <4> QED BY <3>2, <4>1, <4>2, <4>3
    <3>3. i \in 1..p \/ i \in (p + 1)..(p + n)
      BY <1>2
    <3> QED BY <3>1, <3>2, <3>3
  <2>2. \A i \in (p + 1)..(p + n) : i \in 1..(p + n)
    BY <1>2
  <2> QED BY <1>4, <2>1, <2>2
<1> DEFINE S == (p + 1)..(p + n)
<1>6. Min(S) = p + 1 /\ Max(S) = p + n
  <2>1. S \subseteq Nat /\ p + 1 \in S /\ p + n \in S
    BY <1>2
  <2>2. IsFiniteSet(S)
    BY <1>2, FS_Interval
  <2> HIDE DEF S
  <2>3. Max(S) \in S /\ Min(S) \in S /\ p + n <= Max(S) /\ Min(S) <= p + 1
    BY <2>1, <2>2, Extremes
  <2>4. Max(S) \in (p + 1)..(p + n) /\ Min(S) \in (p + 1)..(p + n)
    BY <2>3 DEF S
  <2> QED BY <1>2, <2>3, <2>4
<1>7. solid # {}
  <2>1. p + 1 \in S
    BY <1>2
  <2> QED BY <1>5, <2>1
<1>8. TrimSpace(all) = SubSeq(all, Min(solid), Max(solid))
  BY <1>7 DEF TrimSpace
<1>9. TrimSpace(all) = word
  <2> HIDE DEF solid, S
  <2>1. Min(solid) = p + 1 /\ Max(solid) = p + n
    BY <1>5, <1>6 DEF S
  <2> QED BY <1>3, <1>8, <2>1
<1> QED BY <1>1, <1>9 DEF padding, all

(* Padding to seven columns.                                               *)
LEMMA SevenColumns ==
  ASSUME NEW w \in 1..7
  PROVE  /\ 7 - w \in Nat /\ (7 - w) + w = 7 /\ 7 - Least(7, w) = 7 - w /\ w # 0
  BY DEF Least

(* A count that fits is printed in eight bytes, and is read from the first *)
(* seven.                                                                  *)
LEMMA CountColumnIs ==
  ASSUME NEW n \in Printable
  PROVE  /\ CountColumn(n) \in Texts /\ Free(CountColumn(n), NL) /\ Len(CountColumn(n)) = 8
         /\ Value(TrimSpace(SubSeq(CountColumn(n), 1, 7))) = n
<1> DEFINE word == Decimal[n]
           p == 7 - Len(word)
           padding == [k \in 1..p |-> SPACE]
           number == padding \o word
<1>1. Len(word) \in 1..7
  BY DecimalLength
<1>0. p \in Nat /\ p + Len(word) = 7 /\ 7 - Least(7, Len(word)) = p /\ Len(word) # 0
  BY <1>1, SevenColumns
<1>2. word \in Texts /\ Free(word, NL) /\ Free(word, SPACE) /\ word # << >> /\ Value(word) = n
  <2>1. word \in Texts /\ Free(word, NL) /\ Free(word, SPACE) /\ Value(word) = n
    <3>1. n \in Nat
      BY SMT DEF Printable
    <3> QED BY <3>1, DecimalFree, ValueOfDecimal
  <2>2. word # << >>
    BY <1>0, EmptySeq
  <2> QED BY <2>1, <2>2
<1>3. CountColumn(n) = number \o <<SPACE>>
  BY <1>0 DEF CountColumn
<1> HIDE DEF word
<1>4. p \in Nat /\ p + Len(word) = 7
  BY <1>0
<1> HIDE DEF p
<1>5. padding \in Texts /\ Len(padding) = p /\ TrimSpace(number) = word
  BY <1>2, <1>4, SpacesBefore
<1>6. Free(padding, NL)
  <2>1. SPACE # NL
    BY DEF SPACE, NL
  <2> QED BY <1>5, <2>1 DEF Free
<1> HIDE DEF padding
<1>7. number \in Texts /\ Free(number, NL) /\ Len(number) = 7
  <2>1. number \in Texts /\ Free(number, NL)
    BY <1>2, <1>5, <1>6, ConcatFree
  <2>2. Len(number) = Len(padding) + Len(word)
    BY <1>2, <1>5, ConcatTexts
  <2> QED BY <1>4, <1>5, <2>1, <2>2
<1> HIDE DEF number
<1>8. <<SPACE>> \in Texts /\ Free(<<SPACE>>, NL) /\ Len(<<SPACE>>) = 1
  <2>1. SPACE \in Bytes /\ SPACE # NL
    BY DEF SPACE, NL, Bytes
  <2> QED BY <2>1 DEF Free, Texts
<1>9. number \o <<SPACE>> \in Texts /\ Free(number \o <<SPACE>>, NL)
  BY <1>7, <1>8, ConcatFree
<1>10. Len(number \o <<SPACE>>) = 8 /\ SubSeq(number \o <<SPACE>>, 1, 7) = number
  <2>1. /\ Len(number \o <<SPACE>>) = Len(number) + Len(<<SPACE>>)
        /\ SubSeq(number \o <<SPACE>>, 1, Len(number)) = number
    BY <1>7, <1>8, ConcatTexts
  <2> QED BY <1>7, <1>8, <2>1
<1> QED BY <1>2, <1>3, <1>5, <1>9, <1>10

(* ... whatever line is after it.                                          *)
LEMMA ColumnBefore ==
  ASSUME NEW n \in Printable, NEW line \in Texts, Free(line, NL)
  PROVE  LET shown == CountColumn(n) \o line
         IN  /\ shown \in Texts /\ Free(shown, NL)
             /\ SubSeq(shown, 9, Len(shown)) = line
             /\ Value(TrimSpace(SubSeq(shown, 1, 7))) = n
<1> DEFINE column == CountColumn(n)
           shown == column \o line
<1>1. /\ column \in Texts /\ Free(column, NL) /\ Len(column) = 8
      /\ Value(TrimSpace(SubSeq(column, 1, 7))) = n
  BY CountColumnIs
<1> HIDE DEF column
<1>2. shown \in Texts /\ Free(shown, NL)
  BY <1>1, ConcatFree
<1>3. /\ Len(shown) = 8 + Len(line) /\ Len(line) \in Nat
      /\ SubSeq(shown, 8 + 1, 8 + Len(line)) = line
  <2>1. /\ Len(shown) = Len(column) + Len(line) /\ Len(line) \in Nat
        /\ SubSeq(shown, Len(column) + 1, Len(column) + Len(line)) = line
    BY <1>1, ConcatTexts
  <2> QED BY <1>1, <2>1
<1>4. SubSeq(shown, 9, Len(shown)) = line
  BY <1>3
<1>5. SubSeq(shown, 1, 7) = SubSeq(column, 1, 7)
  <2>1. 1 \in 1..Len(column) /\ 7 \in 1..Len(column)
    BY <1>1
  <2> QED BY <1>1, <2>1, SubSeqOfConcat1 DEF Texts
<1> HIDE DEF shown
<1>6. shown \in Texts /\ Free(shown, NL) /\ SubSeq(shown, 9, Len(shown)) = line
      /\ Value(TrimSpace(SubSeq(shown, 1, 7))) = n
  BY <1>1, <1>2, <1>4, <1>5
<1> QED BY <1>6 DEF shown, column

-----------------------------------------------------------------------------
(* uniq.                                                                   *)

(* UniqMerges, of the lines given and the lines shown.                     *)
UniqAgrees(args, given, shown) ==
  LET counted == args = <<DashC>>
      line(k) == IF counted THEN SubSeq(shown[k], 9, Len(shown[k])) ELSE shown[k]
      run(k)  == Value(TrimSpace(SubSeq(shown[k], 1, 7)))
  IN  /\ \A k \in 2..Len(shown) : line(k) # line(k - 1)
      /\ ToSet([k \in DOMAIN shown |-> line(k)]) = ToSet(given)
      /\ counted => FlattenSeq([k \in DOMAIN shown |-> [i \in 1..run(k) |-> line(k)]]) = given

(* The first lines of the runs differ from one to the next, are all the    *)
(* lines there are, and, repeated, restore the lines.                      *)
LEMMA RunsRestored ==
  ASSUME NEW lines \in Seq(Texts)
  PROVE  LET starts == Starts(lines)
             m == Len(starts)
         IN  /\ \A k \in 2..m : lines[starts[k]] # lines[starts[k - 1]]
             /\ {lines[starts[k]] : k \in 1..m} = {lines[i] : i \in 1..Len(lines)}
             /\ FlattenSeq([k \in 1..m |-> [i \in 1..(After(lines, k) - starts[k]) |-> lines[starts[k]]]]) = lines
<1> DEFINE n == Len(lines)
           starts == Starts(lines)
           m == Len(starts)
           after(k) == After(lines, k)
           piece(k) == [i \in 1..(after(k) - starts[k]) |-> lines[starts[k]]]
           pieces == [k \in 1..m |-> piece(k)]
<1>1. /\ m \in Nat /\ starts \in Seq(Nat) /\ n \in Nat
      /\ (n # 0 => m # 0) /\ (m # 0 => starts[1] = 1)
  BY RunsOfLines
<1>2. \A k \in 1..m : /\ starts[k] \in 1..n /\ after(k) \in 2..(n + 1)
                      /\ starts[k] < after(k)
  BY RunsOfLines
<1>3. \A k \in 1..m : \A i \in starts[k]..(after(k) - 1) : lines[i] = lines[starts[k]]
  BY RunsOfLines
<1>4. \A k \in 1..m : k # 1 => after(k - 1) = starts[k] /\ lines[starts[k]] # lines[starts[k - 1]]
  BY RunsOfLines
<1>5. \A k \in 1..m : after(k) = IF k = m THEN n + 1 ELSE starts[k + 1]
  BY DEF After
<1>6. \A i \in 1..n : lines[i] \in Texts
  BY ElementOfSeq
<1> HIDE DEF starts, after, m, n
<1>7. \A k \in 2..m : lines[starts[k]] # lines[starts[k - 1]]
  <2>1. \A k \in 2..m : k \in 1..m /\ k # 1
    BY <1>1
  <2> QED BY <1>4, <2>1
<1>8. {lines[starts[k]] : k \in 1..m} = {lines[i] : i \in 1..n}
  <2>1. ASSUME NEW i \in 1..n PROVE \E k \in 1..m : lines[i] = lines[starts[k]]
    <3>1. m # 0 /\ starts[1] <= i /\ i \in Nat
      BY <1>1
    <3>2. PICK k \in 1..m : starts[k] <= i /\ (k = m \/ i < starts[k + 1])
      BY <1>1, <3>1, Between DEF m
    <3>3. i < after(k) /\ starts[k] \in 1..n /\ after(k) \in 2..(n + 1)
      <4>1. starts[k] \in 1..n /\ after(k) \in 2..(n + 1)
        BY <1>2
      <4>2. i < after(k)
        BY <1>1, <1>5, <3>2
      <4> QED BY <4>1, <4>2
    <3>4. i \in starts[k]..(after(k) - 1)
      BY <1>1, <3>2, <3>3
    <3> QED BY <1>3, <3>4
  <2> QED BY <1>2, <2>1
<1>9. ASSUME NEW k \in 1..m
      PROVE  /\ piece(k) \in Seq(Texts) /\ Len(piece(k)) = after(k) - starts[k] /\ after(k) - starts[k] \in Nat
             /\ \A i \in 1..(after(k) - starts[k]) : piece(k)[i] = lines[starts[k]]
  <2>1. after(k) - starts[k] \in Nat /\ lines[starts[k]] \in Texts
    BY <1>1, <1>2, <1>6
  <2> QED BY <2>1
<1> HIDE DEF piece
<1>10. pieces \in Seq(Seq(Texts)) /\ Len(pieces) = m /\ \A k \in 1..m : pieces[k] = piece(k)
  BY <1>1, <1>9
<1> HIDE DEF pieces
<1>11. PICK f \in [0..m -> Seq(Texts)] :
        /\ f[0] = << >> /\ \A k \in 1..m : f[k] = f[k - 1] \o pieces[k]
        /\ FlattenSeq(pieces) = f[m]
  <2>1. \E f \in [0..Len(pieces) -> Seq(Texts)] :
          /\ f[0] = << >> /\ \A k \in 1..Len(pieces) : f[k] = f[k - 1] \o pieces[k]
          /\ FlattenSeq(pieces) = f[Len(pieces)]
    BY <1>10, FlattenLoop
  <2> QED BY <1>10, <2>1
<1>12. /\ Upto(lines, 0) = << >> /\ Upto(lines, n) = lines
       /\ \A i \in 0..n : Upto(lines, i) \in Seq(Texts) /\ Len(Upto(lines, i)) = i
                         /\ \A j \in 1..i : Upto(lines, i)[j] = lines[j]
  BY Beginnings DEF n
<1> DEFINE stop(k) == IF k = 0 THEN 0 ELSE after(k) - 1
           S == {k \in 0..m : f[k] = Upto(lines, stop(k))}
<1>13. 0 \in S
  BY <1>1, <1>11, <1>12
<1>14. ASSUME NEW k \in 1..m, k - 1 \in S PROVE k \in S
  <2> DEFINE a == starts[k] - 1
             b == after(k) - 1
             u == Upto(lines, a)
             v == Upto(lines, b)
             w == piece(k)
  <2>1. stop(k) = b /\ stop(k - 1) = a
    <3>1. CASE k = 1
      BY <1>1, <3>1
    <3>2. CASE k # 1
      <4>1. k - 1 # 0 /\ k # 0 /\ after(k - 1) = starts[k]
        BY <1>1, <1>4, <3>2
      <4> QED BY <4>1
    <3> QED BY <3>1, <3>2
  <2>2. f[k - 1] = u
    BY <1>14, <2>1
  <2>3. a \in 0..n /\ b \in 0..n /\ a < b /\ after(k) - starts[k] = b - a /\ a + 1 = starts[k] /\ b + 1 = after(k)
    <3>1. starts[k] \in 1..n /\ after(k) \in 2..(n + 1) /\ starts[k] < after(k)
      BY <1>2
    <3> DEFINE p == starts[k]
               q == after(k)
    <3>2. p \in 1..n /\ q \in 2..(n + 1) /\ p < q
      BY <3>1
    <3> HIDE DEF p, q
    <3>3. p - 1 \in 0..n /\ q - 1 \in 0..n /\ p - 1 < q - 1 /\ q - p = (q - 1) - (p - 1) /\ p - 1 + 1 = p /\ q - 1 + 1 = q
      BY <1>1, <3>2
    <3> QED BY <3>3 DEF p, q
  <2>4. /\ w \in Seq(Texts) /\ Len(w) = b - a
        /\ \A i \in 1..(b - a) : w[i] = lines[starts[k]]
    BY <1>9, <2>3
  <2>5. f[k] = u \o w
    BY <1>10, <1>11, <2>2
  <2>6. \A i \in (a + 1)..b : lines[i] = lines[starts[k]]
    <3>1. \A i \in (a + 1)..b : i \in starts[k]..(after(k) - 1)
      BY <2>3
    <3> QED BY <1>3, <3>1
  <2>7. /\ u \in Seq(Texts) /\ Len(u) = a /\ \A i \in 1..a : u[i] = lines[i]
    BY <1>12, <2>3
  <2>8. /\ v \in Seq(Texts) /\ Len(v) = b /\ \A i \in 1..b : v[i] = lines[i]
    BY <1>12, <2>3
  <2> HIDE DEF a, b, u, v, w
  <2>9. /\ u \o w \in Seq(Texts) /\ Len(u \o w) = a + (b - a)
        /\ \A i \in 1..a : (u \o w)[i] = u[i]
        /\ \A i \in 1..(b - a) : (u \o w)[a + i] = w[i]
    <3>1. /\ u \o w \in Seq(Texts) /\ Len(u \o w) = Len(u) + Len(w)
          /\ \A i \in 1..Len(u) : (u \o w)[i] = u[i]
          /\ \A i \in 1..Len(w) : (u \o w)[Len(u) + i] = w[i]
      <4>1. u \in Seq(Texts) /\ w \in Seq(Texts)
        BY <2>4, <2>7
      <4> HIDE DEF pieces
      <4> QED BY <4>1, ConcatIs
    <3>2. Len(u) = a /\ Len(w) = b - a
      BY <2>4, <2>7
    <3> QED BY <3>1, <3>2
  <2>10. ASSUME NEW i \in 1..b PROVE (u \o w)[i] = v[i]
    <3>1. CASE i \in 1..a
      BY <2>7, <2>8, <2>9, <3>1
    <3>2. CASE i \in (a + 1)..b
      <4>1. i - a \in 1..(b - a) /\ a + (i - a) = i
        BY <1>1, <2>3, <3>2
      <4>2. (u \o w)[a + (i - a)] = w[i - a] /\ w[i - a] = lines[starts[k]]
        BY <2>4, <2>9, <4>1
      <4>3. v[i] = lines[i] /\ lines[i] = lines[starts[k]]
        BY <2>6, <2>8, <3>2
      <4> QED BY <4>1, <4>2, <4>3
    <3>3. i \in 1..a \/ i \in (a + 1)..b
      BY <1>1, <2>3
    <3> QED BY <3>1, <3>2, <3>3
  <2>11. a + (b - a) = b
    BY <1>1, <2>3
  <2>12. u \o w = v
    BY <2>8, <2>9, <2>10, <2>11, SeqEqual
  <2>13. k \in 0..m
    BY <1>1
  <2> QED BY <2>1, <2>5, <2>12, <2>13 DEF v
<1>15. m \in S
  <2> HIDE DEF S
  <2>1. 0..m \subseteq S
    BY <1>1, <1>13, <1>14, IntervalInduction
  <2>2. m \in 0..m
    BY <1>1
  <2> QED BY <2>1, <2>2
<1>16. stop(m) = n
  <2>1. CASE m = 0
    BY <1>1, <2>1
  <2>2. CASE m # 0
    <3>1. after(m) = n + 1
      BY <1>1, <1>5, <2>2
    <3> QED BY <1>1, <2>2, <3>1
  <2> QED BY <2>1, <2>2
<1>17. FlattenSeq(pieces) = lines
  <2>1. f[m] = Upto(lines, stop(m))
    BY <1>15
  <2> HIDE DEF stop
  <2> QED BY <1>11, <1>12, <1>16, <2>1
<1> QED BY <1>7, <1>8, <1>17 DEF pieces, piece, after, starts, m, n

(* uniq shows each run once and, with -c, with its length: the input       *)
(* within 64 KiB can be restored.                                          *)
LEMMA UniqIs ==
  ASSUME NEW text \in Texts, Len(text) <= MaxStdin, NEW args \in {<< >>, <<DashC>>}
  PROVE  LET stdout == Uniq(text, Len(args) = 1)
         IN  stdout \in Texts /\ UniqAgrees(args, SplitLines(text), SplitLines(stdout))
<1> DEFINE lines == SplitLines(text)
           starts == Starts(lines)
           m == Len(starts)
           run(k) == After(lines, k) - starts[k]
           counted == args = <<DashC>>
           line(k) == lines[starts[k]]
           out == [k \in 1..m |-> (IF counted THEN CountColumn(run(k)) ELSE << >>) \o line(k)]
           stdout == Uniq(text, Len(args) = 1)
<1>1. /\ lines \in Seq(Texts) /\ Len(lines) \in Nat
      /\ \A i \in 1..Len(lines) : lines[i] \in Texts /\ Free(lines[i], NL)
  BY LinesType, ElementOfSeq, LenProperties DEF Lines
<1>2. Len(lines) <= Len(text) /\ Len(text) \in Nat
  BY LineCount, LenProperties DEF Texts
<1>3. \A i \in Nat : i <= Len(lines) => i \in Printable
  BY <1>1, <1>2, LimitTypes, LimitsAssumption, SMT DEF Printable
<1>4. stdout = JoinLines(out)
  <2>1. (Len(args) = 1) = counted
    <3>1. Len(<< >>) = 0 /\ Len(<<DashC>>) = 1 /\ << >> # <<DashC>>
      OBVIOUS
    <3> QED BY <3>1
  <2>2. DOMAIN starts = 1..m
    <3>1. starts \in Seq(Nat)
      BY <1>1, RunsOfLines
    <3> HIDE DEF starts
    <3> QED BY <3>1, LenProperties
  <2>3. \A c \in BOOLEAN : Uniq(text, c) =
          JoinLines([k \in DOMAIN starts |-> (IF c THEN CountColumn(run(k)) ELSE << >>) \o line(k)])
    BY DEF Uniq, Starts, After
  <2>4. counted \in BOOLEAN
    OBVIOUS
  <2>5. stdout = Uniq(text, counted)
    BY <2>1
  <2> HIDE DEF counted, starts, line, run, stdout
  <2> QED BY <2>2, <2>3, <2>4, <2>5
<1>5. /\ m \in Nat
      /\ \A k \in 1..m : starts[k] \in 1..Len(lines) /\ After(lines, k) \in 2..(Len(lines) + 1) /\ starts[k] < After(lines, k)
  BY <1>1, RunsOfLines
<1>6. /\ \A k \in 2..m : line(k) # line(k - 1)
      /\ {line(k) : k \in 1..m} = {lines[i] : i \in 1..Len(lines)}
      /\ FlattenSeq([k \in 1..m |-> [i \in 1..run(k) |-> line(k)]]) = lines
  BY <1>1, RunsRestored
<1> HIDE DEF lines, starts, m
<1>7. \A k \in 1..m : /\ run(k) \in Printable /\ line(k) \in Texts /\ Free(line(k), NL)
  <2> TAKE k \in 1..m
  <2>1. run(k) \in Nat /\ run(k) <= Len(lines)
    BY <1>1, <1>5
  <2>2. run(k) \in Printable
    BY <1>3, <2>1
  <2> QED BY <1>1, <1>5, <2>2
<1> HIDE DEF run, line
<1> DEFINE shownLine(k) == IF counted THEN SubSeq(out[k], 9, Len(out[k])) ELSE out[k]
           shownRun(k) == Value(TrimSpace(SubSeq(out[k], 1, 7)))
<1>8. ASSUME NEW k \in 1..m
      PROVE  /\ out[k] \in Texts /\ Free(out[k], NL) /\ shownLine(k) = line(k)
             /\ counted => shownRun(k) = run(k)
  <2>1. run(k) \in Printable /\ line(k) \in Texts /\ Free(line(k), NL)
    BY <1>7
  <2>2. CASE counted
    <3>1. out[k] = CountColumn(run(k)) \o line(k)
      BY <2>2
    <3>2. LET shown == CountColumn(run(k)) \o line(k)
          IN  /\ shown \in Texts /\ Free(shown, NL)
              /\ SubSeq(shown, 9, Len(shown)) = line(k)
              /\ Value(TrimSpace(SubSeq(shown, 1, 7))) = run(k)
      BY <2>1, ColumnBefore
    <3> HIDE DEF out
    <3> QED BY <2>2, <3>1, <3>2
  <2>3. CASE ~counted
    <3>1. out[k] = << >> \o line(k)
      BY <2>3
    <3>2. << >> \o line(k) = line(k)
      BY <2>1, ConcatEmptySeq DEF Texts
    <3> HIDE DEF out
    <3> QED BY <2>1, <2>3, <3>1, <3>2
  <2> QED BY <2>2, <2>3
<1>9. DOMAIN out = 1..m /\ out \in Lines /\ Len(out) = m
  <2>1. \A k \in 1..m : out[k] \in Texts /\ Free(out[k], NL)
    BY <1>8
  <2>2. out = [k \in 1..m |-> out[k]]
    OBVIOUS
  <2> HIDE DEF out
  <2>3. out \in Seq(Texts)
    BY <1>5, <2>1, <2>2
  <2>4. DOMAIN out = 1..m /\ Len(out) = m
    BY <1>5, <2>2, <2>3, LenProperties
  <2> QED BY <2>1, <2>3, <2>4 DEF Lines
<1> HIDE DEF out
<1>10. stdout \in Texts /\ SplitLines(stdout) = out
  BY <1>4, <1>9, LinesRestored
<1>11. \A k \in 2..Len(out) : shownLine(k) # shownLine(k - 1)
  <2>1. \A k \in 2..m : k \in 1..m /\ k - 1 \in 1..m
    BY <1>5
  <2> HIDE DEF shownLine
  <2> QED BY <1>6, <1>8, <1>9, <2>1
<1>12. ToSet([k \in DOMAIN out |-> shownLine(k)]) = ToSet(lines)
  <2>1. DOMAIN lines = 1..Len(lines)
    BY <1>1, LenProperties
  <2>2. ToSet(lines) = {lines[i] : i \in 1..Len(lines)}
    BY <2>1 DEF ToSet
  <2>3. [k \in DOMAIN out |-> shownLine(k)] = [k \in 1..m |-> line(k)]
    <3> HIDE DEF shownLine
    <3> QED BY <1>8, <1>9
  <2>4. ToSet([k \in 1..m |-> line(k)]) = {line(k) : k \in 1..m}
    BY DEF ToSet
  <2> HIDE DEF shownLine
  <2> QED BY <1>6, <2>2, <2>3, <2>4
<1>13. counted => FlattenSeq([k \in DOMAIN out |-> [i \in 1..shownRun(k) |-> shownLine(k)]]) = lines
  <2> SUFFICES ASSUME counted PROVE FlattenSeq([k \in DOMAIN out |-> [i \in 1..shownRun(k) |-> shownLine(k)]]) = lines
    OBVIOUS
  <2> HIDE DEF shownLine, shownRun
  <2>1. [k \in DOMAIN out |-> [i \in 1..shownRun(k) |-> shownLine(k)]] = [k \in 1..m |-> [i \in 1..run(k) |-> line(k)]]
    BY <1>8, <1>9
  <2> QED BY <1>6, <2>1
<1>14. UniqAgrees(args, lines, out)
  BY <1>11, <1>12, <1>13 DEF UniqAgrees
<1> QED BY <1>10, <1>14 DEF stdout, lines

-----------------------------------------------------------------------------
(* The commands head and tail.                                             *)

(* EndsShown, of the lines given and the lines shown.                      *)
EndsAgree(tool, args, given, shown) ==
  LET n == Least(Value(args[2]), Len(given))
      skipped == IF tool = "head" THEN 0 ELSE Len(given) - n
  IN  /\ Len(shown) = n
      /\ \A k \in 1..n : /\ IsPrefix(shown[k], given[skipped + k])
                         /\ Len(shown[k]) = Least(MaxLineLength, Len(given[skipped + k]))

(* A clamped line is a prefix of it.                                       *)
LEMMA ClampedPrefix ==
  ASSUME NEW line \in Texts
  PROVE  IsPrefix(ClampLine(line), line)
<1> DEFINE n == Len(line)
           m == Least(MaxLineLength, n)
           c == ClampLine(line)
<1>1. /\ c \in Texts /\ Len(c) = m /\ \A i \in 1..m : c[i] = line[i]
  BY ClampedLine
<1>2. n \in Nat /\ m \in Nat /\ m <= n
  BY LimitTypes, LeastIs, LenProperties DEF Texts
<1>3. SubSeq(c, 1, m) = c
  BY <1>1, Beginnings DEF Texts, Upto
<1>4. m \in 0..n
  BY <1>2
<1>5. SubSeq(line, 1, m) \in Seq(Bytes) /\ Len(SubSeq(line, 1, m)) = m /\ \A i \in 1..m : SubSeq(line, 1, m)[i] = line[i]
  BY <1>4, Beginnings DEF Texts, Upto
<1>6. c = SubSeq(line, 1, m)
  <2> HIDE DEF c, m
  <2> QED BY <1>1, <1>5, SeqEqual DEF Texts
<1> HIDE DEF c, m, n
<1> QED BY <1>1, <1>2, <1>3, <1>6 DEF IsPrefix, c, n

(* The line count of head and tail is a number.                            *)
LEMMA CountArgument ==
  ASSUME NEW args \in Seq(Texts), ValidLineCount(args)
  PROVE  Value(args[2]) \in Nat
<1>1. args[2] \in Texts
  BY ElementOfSeq DEF ValidLineCount
<1> QED BY <1>1, NumberTypes DEF ValidLineCount

(* The command head shows the first lines.                                 *)
LEMMA HeadShown ==
  ASSUME NEW text \in Texts, NEW args \in Seq(Texts), ValidLineCount(args)
  PROVE  LET stdout == HeadLines(text, Value(args[2])).text
         IN  stdout \in Texts /\ EndsAgree("head", args, SplitLines(text), SplitLines(stdout))
<1> DEFINE v == Value(args[2])
           stdout == HeadLines(text, v).text
           given == SplitLines(text)
           shown == SplitLines(stdout)
           n == Least(v, Len(given))
<1>1. v \in Nat
  BY CountArgument
<1> HIDE DEF v
<1>2. /\ stdout \in Texts /\ n \in 0..Len(given) /\ Len(shown) = n
      /\ \A k \in 1..n : shown[k] = ClampLine(given[k])
  BY <1>1, HeadIs
<1>3. given \in Seq(Texts) /\ Len(given) \in Nat
  BY LinesType, LenProperties DEF Lines
<1>4. ASSUME NEW k \in 1..n
      PROVE  given[0 + k] = given[k] /\ given[k] \in Texts
  <2>1. k \in 1..Len(given) /\ 0 + k = k
    BY <1>2, <1>3
  <2> QED BY <1>3, <2>1, ElementOfSeq
<1> HIDE DEF stdout, given, shown, n
<1>5. ASSUME NEW k \in 1..n
      PROVE  IsPrefix(shown[k], given[0 + k]) /\ Len(shown[k]) = Least(MaxLineLength, Len(given[0 + k]))
  BY <1>2, <1>4, ClampedPrefix, ClampedLine
<1>6. EndsAgree("head", args, given, shown)
  BY <1>2, <1>5 DEF EndsAgree, n, v
<1> QED BY <1>2, <1>6 DEF stdout, given, shown, v

(* The command tail shows the last lines.                                  *)
LEMMA TailShown ==
  ASSUME NEW text \in Texts, NEW args \in Seq(Texts), ValidLineCount(args)
  PROVE  LET stdout == TailLines(text, Value(args[2])).text
         IN  stdout \in Texts /\ EndsAgree("tail", args, SplitLines(text), SplitLines(stdout))
<1> DEFINE v == Value(args[2])
           stdout == TailLines(text, v).text
           given == SplitLines(text)
           shown == SplitLines(stdout)
           n == Least(v, Len(given))
           skipped == Len(given) - n
<1>1. v \in Nat
  BY CountArgument
<1> HIDE DEF v
<1>2. /\ stdout \in Texts /\ n \in 0..Len(given) /\ Len(shown) = n
      /\ \A k \in 1..n : shown[k] = ClampLine(given[skipped + k])
  BY <1>1, TailIs
<1>3. given \in Seq(Texts) /\ Len(given) \in Nat
  BY LinesType, LenProperties DEF Lines
<1>4. ASSUME NEW k \in 1..n
      PROVE  given[skipped + k] \in Texts
  <2>1. skipped + k \in 1..Len(given)
    <3> HIDE DEF n, given
    <3> QED BY <1>2, <1>3
  <2> QED BY <1>3, <2>1, ElementOfSeq
<1> HIDE DEF stdout, given, shown, n, skipped
<1>5. ASSUME NEW k \in 1..n
      PROVE  IsPrefix(shown[k], given[skipped + k]) /\ Len(shown[k]) = Least(MaxLineLength, Len(given[skipped + k]))
  BY <1>2, <1>4, ClampedPrefix, ClampedLine
<1>6. EndsAgree("tail", args, given, shown)
  BY <1>2, <1>5 DEF EndsAgree, n, v, skipped
<1> QED BY <1>2, <1>6 DEF stdout, given, shown, v

-----------------------------------------------------------------------------
(* Fields.                                                                 *)

(* The elements at the places of an interval.                              *)
LEMMA ElementsAtInterval ==
  ASSUME NEW T, NEW s \in Seq(T), NEW a \in 1..(Len(s) + 1), NEW b \in 0..Len(s), a <= b + 1
  PROVE  ElementsAt(s, a..b) = SubSeq(s, a, b)
<1> DEFINE n == b - a + 1
           q == [k \in 1..n |-> a + k - 1]
<1>1. Len(s) \in Nat /\ a \in Nat /\ b \in Nat /\ n \in Nat
  BY LenProperties
<1>2. q \in Seq(Nat) /\ Len(q) = n /\ \A k \in 1..n : q[k] = a + k - 1
  BY <1>1
<1> HIDE DEF q
<1>3. Increasing(q)
  BY <1>1, <1>2 DEF Increasing
<1>4. Elements(q) = a..b
  <2>1. ASSUME NEW i \in a..b PROVE \E k \in 1..n : q[k] = i
    <3>1. i - a + 1 \in 1..n /\ a + (i - a + 1) - 1 = i
      BY <1>1
    <3> QED BY <1>2, <3>1
  <2>2. ASSUME NEW k \in 1..n PROVE q[k] \in a..b
    BY <1>1, <1>2
  <2> QED BY <1>2, <2>1, <2>2 DEF Elements
<1>5. InOrder(a..b) = q
  BY <1>2, <1>3, <1>4, InOrderIs
<1>6. ElementsAt(s, a..b) = [k \in 1..n |-> s[a + k - 1]]
  <2>1. DOMAIN q = 1..n
    BY <1>2, LenProperties
  <2> QED BY <1>2, <1>5, <2>1 DEF ElementsAt
<1>7. SubSeq(s, a, b) = [k \in 1..n |-> s[a + k - 1]]
  <2> HIDE DEF n
  <2>1. SubSeq(s, a, b) \in Seq(T) /\ Len(SubSeq(s, a, b)) = n
    BY <1>1, SubSeqProperties, SMT DEF n
  <2>2. \A k \in 1..n : SubSeq(s, a, b)[k] = s[a + k - 1]
    BY <1>1, SubSeqProperties, SMT DEF n
  <2>3. \A k \in 1..n : a + k - 1 \in 1..Len(s)
    BY <1>1 DEF n
  <2>4. [k \in 1..n |-> s[a + k - 1]] \in Seq(T) /\ Len([k \in 1..n |-> s[a + k - 1]]) = n
    <3>1. \A k \in 1..n : s[a + k - 1] \in T
      BY <2>3, ElementOfSeq
    <3>2. n \in Nat
      BY <1>1
    <3> QED BY <3>1, <3>2
  <2> QED BY <2>1, <2>2, <2>4, SeqEqual
<1> QED BY <1>6, <1>7

(* The field that the place i of a line is in.                             *)
FieldOf(line, d, i) == 1 + Cardinality({j \in 1..(i - 1) : line[j] = d})

(* A line has one field more than delimiters.                              *)
LEMMA FieldCount ==
  ASSUME NEW line \in Texts, NEW d
  PROVE  FieldOf(line, d, Len(line) + 1) = Len(Split(line, d))
<1> DEFINE S == {i \in DOMAIN line : line[i] = d}
<1>1. Len(line) \in Nat /\ DOMAIN line = 1..Len(line)
  BY LenProperties DEF Texts
<1>2. Cardinality(S) \in Nat /\ Len(Split(line, d)) = Cardinality(S) + 1
  BY SplitCount DEF Texts
<1>3. (Len(line) + 1) - 1 = Len(line)
  BY <1>1
<1>4. {j \in 1..((Len(line) + 1) - 1) : line[j] = d} = S
  BY <1>1, <1>3
<1> HIDE DEF S
<1>5. FieldOf(line, d, Len(line) + 1) = 1 + Cardinality(S)
  BY <1>4 DEF FieldOf
<1> QED BY <1>2, <1>5

(* Each field is what stands between two separators.                       *)
LEMMA FieldIs ==
  ASSUME NEW T, NEW line \in Seq(T), NEW d, NEW f \in 1..Len(Split(line, d))
  PROVE  ElementsAt(line, {i \in DOMAIN line : line[i] # d /\ FieldOf(line, d, i) = f}) = Split(line, d)[f]
<1> DEFINE at == InOrder(Separators(line, d))
           m == Len(at)
           S == Separators(line, d)
           n == Len(line)
<1>1. n \in Nat /\ DOMAIN line = 1..n
  BY LenProperties
<1>2. /\ at \in Seq(Nat) /\ Increasing(at) /\ Elements(at) = S
      /\ m \in Nat /\ m >= 2 /\ at[1] = 0 /\ at[m] = n + 1
      /\ Split(line, d) = [k \in 1..(m - 1) |-> SubSeq(line, at[k] + 1, at[k + 1] - 1)]
  BY SplitShape
<1>3. \A k \in 1..(m - 1) :
        /\ at[k] \in 0..n /\ at[k + 1] \in 1..(n + 1) /\ at[k] < at[k + 1]
        /\ \A i \in (at[k] + 1)..(at[k + 1] - 1) : line[i] # d
  BY SplitShape
<1>4. IsFiniteSet(S) /\ S \subseteq Nat
  BY FiniteSeparators
<1>5. \A k \in 1..m : Cardinality(Below(S, at[k])) = k - 1
  BY <1>2, InOrderIs
<1>6. S = {0, n + 1} \cup {i \in 1..n : line[i] = d}
  BY <1>1 DEF Separators
<1>7. Len(Split(line, d)) = m - 1
  <2>1. Split(line, d) \in Seq(Seq(T)) /\ Len(Split(line, d)) \in Nat
    BY SplitParts
  <2>2. DOMAIN Split(line, d) = 1..(m - 1)
    BY <1>2
  <2> QED BY <1>2, <2>1, <2>2, LenProperties
<1> HIDE DEF at, m, S, n
<1>8. ASSUME NEW k \in 1..(m - 1), NEW i \in (at[k] + 1)..(at[k + 1] - 1)
      PROVE  FieldOf(line, d, i) = k /\ i \in 1..n /\ line[i] # d
  <2> DEFINE B == {j \in 1..(i - 1) : line[j] = d}
             p == at[k]
             q == at[k + 1]
  <2>1. p \in 0..n /\ q \in 1..(n + 1) /\ p < q /\ \A j \in (p + 1)..(q - 1) : line[j] # d
    BY <1>3
  <2>2. i \in (p + 1)..(q - 1)
    OBVIOUS
  <2> HIDE DEF p, q
  <2>3. i \in 1..n /\ line[i] # d /\ i \in Nat
    BY <1>1, <2>1, <2>2
  <2>4. Below(S, q) = B \cup {0}
    <3>1. ASSUME NEW y \in Below(S, q) PROVE y \in B \cup {0}
      <4>1. y \in S /\ y < q
        BY <3>1 DEF Below
      <4>2. y = 0 \/ (y \in 1..n /\ line[y] = d)
        BY <1>1, <1>6, <2>1, <4>1
      <4>3. y \in 1..n /\ line[y] = d => y \in 1..(i - 1)
        BY <1>1, <2>1, <2>2, <2>3, <4>1
      <4> QED BY <4>2, <4>3
    <3>2. ASSUME NEW y \in B \cup {0} PROVE y \in S /\ y < q
      BY <1>1, <1>6, <2>1, <2>2, <2>3
    <3> QED BY <3>1, <3>2 DEF Below
  <2>5. k + 1 \in 1..m /\ k \in Nat
    BY <1>2
  <2>6. Cardinality(Below(S, q)) = k
    <3>1. Cardinality(Below(S, at[k + 1])) = (k + 1) - 1
      BY <1>5, <2>5
    <3>2. (k + 1) - 1 = k
      BY <2>5
    <3> QED BY <3>1, <3>2 DEF q
  <2>7. IsFiniteSet(B) /\ Cardinality(B) \in Nat /\ 0 \notin B
    <3>1. i - 1 \in Nat /\ B \subseteq 1..(i - 1)
      BY <2>3
    <3>2. 0 \notin 1..(i - 1)
      BY <2>3
    <3> QED BY <3>1, <3>2, PartOfInterval
  <2> HIDE DEF B
  <2>8. Cardinality(B \cup {0}) = Cardinality(B) + 1
    BY <2>7, FS_AddElement
  <2>9. 1 + Cardinality(B) = k
    BY <2>4, <2>6, <2>7, <2>8
  <2> QED BY <2>3, <2>9 DEF FieldOf, B
<1>9. ASSUME NEW i \in 1..n, line[i] # d
      PROVE  \E k \in 1..(m - 1) : i \in (at[k] + 1)..(at[k + 1] - 1)
  <2>1. i \in Nat /\ m # 0 /\ at[1] <= i
    BY <1>1, <1>2
  <2>2. PICK k \in 1..m : at[k] <= i /\ (k = m \/ i < at[k + 1])
    BY <1>2, <2>1, Between DEF m
  <2>3. k \in 1..(m - 1)
    BY <1>1, <1>2, <2>2
  <2>4. at[k] \in S /\ at[k] \in 0..n /\ at[k + 1] \in 1..(n + 1)
    <3>1. at[k] \in Elements(at)
      BY DEF Elements, m
    <3> QED BY <1>2, <1>3, <2>3, <3>1
  <2>5. at[k] # i
    <3>1. i \notin S
      BY <1>1, <1>6, <1>9
    <3> QED BY <2>4, <3>1
  <2>6. i \in (at[k] + 1)..(at[k + 1] - 1)
    <3> DEFINE p == at[k]
               q == at[k + 1]
    <3>1. p \in 0..n /\ q \in 1..(n + 1) /\ p <= i /\ p # i /\ i < q
      BY <1>2, <2>2, <2>3, <2>4, <2>5
    <3> HIDE DEF p, q
    <3>2. i \in (p + 1)..(q - 1)
      BY <1>1, <3>1
    <3> QED BY <3>2 DEF p, q
  <2> QED BY <2>3, <2>6
<1>10. f \in 1..(m - 1)
  BY <1>7
<1>11. {i \in DOMAIN line : line[i] # d /\ FieldOf(line, d, i) = f} = (at[f] + 1)..(at[f + 1] - 1)
  <2>1. ASSUME NEW i \in 1..n, line[i] # d, FieldOf(line, d, i) = f
        PROVE  i \in (at[f] + 1)..(at[f + 1] - 1)
    <3>1. PICK k \in 1..(m - 1) : i \in (at[k] + 1)..(at[k + 1] - 1)
      BY <1>9, <2>1
    <3>2. k = f
      BY <1>8, <2>1, <3>1
    <3> QED BY <3>1, <3>2
  <2>2. ASSUME NEW i \in (at[f] + 1)..(at[f + 1] - 1)
        PROVE  i \in 1..n /\ line[i] # d /\ FieldOf(line, d, i) = f
    BY <1>8, <1>10
  <2> QED BY <1>1, <2>1, <2>2
<1>12. ElementsAt(line, (at[f] + 1)..(at[f + 1] - 1)) = SubSeq(line, at[f] + 1, at[f + 1] - 1)
  <2> DEFINE p == at[f]
             q == at[f + 1]
  <2>1. p \in 0..n /\ q \in 1..(n + 1) /\ p < q
    BY <1>3, <1>10
  <2> HIDE DEF p, q
  <2>2. p + 1 \in 1..(n + 1) /\ q - 1 \in 0..n /\ p + 1 <= (q - 1) + 1
    BY <1>1, <2>1
  <2>3. ElementsAt(line, (p + 1)..(q - 1)) = SubSeq(line, p + 1, q - 1)
    BY <1>1, <2>2, ElementsAtInterval DEF n
  <2> QED BY <2>3 DEF p, q
<1>13. Split(line, d)[f] = SubSeq(line, at[f] + 1, at[f + 1] - 1)
  BY <1>2, <1>10
<1> QED BY <1>11, <1>12, <1>13

-----------------------------------------------------------------------------
(* cut.                                                                    *)

(* Texts joined by a byte are a text.                                      *)
LEMMA JoinedText ==
  ASSUME NEW parts \in Seq(Texts), NEW sep \in Bytes
  PROVE  Join(parts, sep) \in Texts
<1> DEFINE n == Len(parts)
           ss == [k \in 1..n |-> <<sep>> \o parts[k]]
<1>1. n \in Nat /\ DOMAIN parts = 1..n
  BY LenProperties
<1>2. CASE parts = << >>
  BY <1>2 DEF Join, Texts
<1>3. CASE parts # << >>
  <2>1. n # 0
    BY <1>3, EmptySeq
  <2>2. ASSUME NEW k \in 1..n
        PROVE  ss[k] \in Seq(Bytes) /\ Len(ss[k]) \in Nat \ {0}
    <3>1. parts[k] \in Texts /\ <<sep>> \in Texts /\ Len(<<sep>>) = 1
      BY ElementOfSeq DEF Texts
    <3>2. <<sep>> \o parts[k] \in Texts /\ Len(<<sep>> \o parts[k]) = Len(<<sep>>) + Len(parts[k]) /\ Len(parts[k]) \in Nat
      BY <3>1, ConcatTexts
    <3>3. Len(<<sep>> \o parts[k]) \in Nat \ {0}
      BY <3>1, <3>2
    <3> QED BY <3>2, <3>3 DEF Texts
  <2>3. ss = [k \in 1..n |-> ss[k]]
    OBVIOUS
  <2> HIDE DEF ss
  <2>4. ss \in Seq(Seq(Bytes)) /\ Len(ss) = n
    BY <1>1, <2>2, <2>3
  <2>5. PICK f \in [0..n -> Seq(Bytes)] :
          /\ \A k \in 1..n : f[k] = f[k - 1] \o ss[k]
          /\ FlattenSeq(ss) = f[n]
    <3>1. \E f \in [0..Len(ss) -> Seq(Bytes)] :
            /\ f[0] = << >> /\ \A k \in 1..Len(ss) : f[k] = f[k - 1] \o ss[k]
            /\ FlattenSeq(ss) = f[Len(ss)]
      BY <2>4, FlattenLoop
    <3> QED BY <2>4, <3>1
  <2>6. n \in 1..n /\ n - 1 \in 0..n
    BY <1>1, <2>1
  <2>7. f[n] \in Seq(Bytes) /\ Len(f[n]) # 0
    <3>1. f[n - 1] \in Seq(Bytes) /\ ss[n] \in Seq(Bytes) /\ f[n] = f[n - 1] \o ss[n]
      BY <2>2, <2>5, <2>6
    <3>2. /\ f[n - 1] \o ss[n] \in Seq(Bytes) /\ Len(f[n - 1]) \in Nat
          /\ Len(f[n - 1] \o ss[n]) = Len(f[n - 1]) + Len(ss[n])
      BY <3>1, ConcatIs
    <3>3. Len(f[n - 1]) + Len(ss[n]) # 0
      <4>1. Len(ss[n]) \in Nat \ {0} /\ Len(f[n - 1]) \in Nat
        BY <2>2, <2>6, <3>2
      <4> DEFINE a == Len(f[n - 1])
                 b == Len(ss[n])
      <4>2. a \in Nat /\ b \in Nat \ {0}
        BY <4>1
      <4> HIDE DEF a, b
      <4>3. a + b # 0
        BY <4>2
      <4> QED BY <4>3 DEF a, b
    <3> QED BY <3>1, <3>2, <3>3
  <2>8. f[n] # << >>
    BY <2>7, EmptySeq
  <2>9. Tail(f[n]) \in Seq(Bytes)
    BY <2>7, <2>8, HeadTailProperties
  <2> QED BY <1>1, <1>3, <2>5, <2>9 DEF Join, ss, Texts
<1> QED BY <1>2, <1>3

(* CutSelects, of the lines given and the output.                          *)
CutAgrees(args, given, output) ==
  LET d == args[2][1]
      fields == [k \in DOMAIN Split(args[4], COMMA) |-> Value(Split(args[4], COMMA)[k])]
      fieldOf(line, i) == 1 + Cardinality({j \in 1..(i - 1) : line[j] = d})
      content(line, f) == ElementsAt(line, {i \in DOMAIN line : line[i] # d /\ fieldOf(line, i) = f})
      wanted(line) == ElementsAt(fields, {n \in DOMAIN fields : fields[n] <= fieldOf(line, Len(line) + 1)})
  IN  output = JoinLines([k \in DOMAIN given |->
        Join([n \in DOMAIN wanted(given[k]) |-> content(given[k], wanted(given[k])[n])], d)])

(* The fields of a line that cut finds, and those it is to find.           *)
Found(line, d, fields) ==
  LET parts == Split(line, d)
      there == ElementsAt(fields, {n \in DOMAIN fields : fields[n] <= Len(parts)})
  IN  [k \in DOMAIN there |-> parts[there[k]]]

Meant(line, d, fields) ==
  LET wanted == ElementsAt(fields, {n \in DOMAIN fields : fields[n] <= FieldOf(line, d, Len(line) + 1)})
      content(f) == ElementsAt(line, {i \in DOMAIN line : line[i] # d /\ FieldOf(line, d, i) = f})
  IN  [n \in DOMAIN wanted |-> content(wanted[n])]

(* The fields that cut takes from the split line are those found by        *)
(* counting the delimiters before each place.                              *)
LEMMA SelectedFields ==
  ASSUME NEW line \in Texts, NEW d \in Bytes,
         NEW T, T \subseteq Nat \ {0}, NEW fields \in Seq(T)
  PROVE  Found(line, d, fields) = Meant(line, d, fields) /\ Found(line, d, fields) \in Seq(Texts)
<1> DEFINE parts == Split(line, d)
           S == {n \in DOMAIN fields : fields[n] <= Len(parts)}
           there == ElementsAt(fields, S)
           wanted == ElementsAt(fields, {n \in DOMAIN fields : fields[n] <= FieldOf(line, d, Len(line) + 1)})
           content(f) == ElementsAt(line, {i \in DOMAIN line : line[i] # d /\ FieldOf(line, d, i) = f})
<1>1. FieldOf(line, d, Len(line) + 1) = Len(parts)
  BY FieldCount
<1>2. there = wanted
  BY <1>1
<1>3. parts \in Seq(Texts) /\ Len(parts) \in Nat
  BY SplitParts DEF Texts
<1>4. DOMAIN fields = 1..Len(fields)
  BY LenProperties
<1>5. S \subseteq 1..Len(fields)
  BY <1>4
<1>6. /\ there \in Seq(T) /\ Cardinality(S) \in Nat /\ DOMAIN there = 1..Cardinality(S)
      /\ \A k \in 1..Cardinality(S) : InOrder(S)[k] \in S /\ there[k] = fields[InOrder(S)[k]]
  <2> HIDE DEF S
  <2>1. ElementsAt(fields, S) \in Seq(T) /\ Cardinality(S) \in Nat
    BY <1>5, ElementsAtIs
  <2>2. DOMAIN ElementsAt(fields, S) = 1..Cardinality(S)
    BY <1>5, ElementsAtIs
  <2>3. \A k \in 1..Cardinality(S) : InOrder(S)[k] \in S /\ ElementsAt(fields, S)[k] = fields[InOrder(S)[k]]
    <3> TAKE k \in 1..Cardinality(S)
    <3>1. InOrder(S)[k] \in S
      BY <1>4, <1>5, LenProperties, Positions
    <3>2. DOMAIN InOrder(S) = 1..Cardinality(S)
      BY <1>4, <1>5, LenProperties, Positions
    <3>3. ElementsAt(fields, S)[k] = fields[InOrder(S)[k]]
      BY <3>2 DEF ElementsAt
    <3> QED BY <3>1, <3>3
  <2> QED BY <2>1, <2>2, <2>3
<1>7. ASSUME NEW k \in DOMAIN there PROVE there[k] \in 1..Len(parts)
  <2>1. InOrder(S)[k] \in S /\ there[k] = fields[InOrder(S)[k]]
    BY <1>6
  <2>2. fields[InOrder(S)[k]] <= Len(parts) /\ fields[InOrder(S)[k]] \in T
    BY <1>4, <2>1, ElementOfSeq
  <2>3. there[k] \in Nat \ {0} /\ there[k] <= Len(parts)
    BY <2>1, <2>2
  <2> HIDE DEF S, there, parts
  <2> QED BY <1>3, <2>3
<1> HIDE DEF there, wanted, S
<1>8. \A k \in DOMAIN there : parts[there[k]] = content(there[k]) /\ parts[there[k]] \in Texts
  <2> TAKE k \in DOMAIN there
  <2>1. there[k] \in 1..Len(parts)
    BY <1>7
  <2>2. parts[there[k]] \in Texts
    BY <1>3, <2>1, ElementOfSeq
  <2>3. \A f \in 1..Len(parts) : content(f) = parts[f]
    <3>1. line \in Seq(Bytes)
      BY DEF Texts
    <3> QED BY <3>1, FieldIs
  <2> QED BY <2>1, <2>2, <2>3
<1> HIDE DEF parts, content
<1>9. [k \in DOMAIN there |-> parts[there[k]]] = [n \in DOMAIN wanted |-> content(wanted[n])]
  BY <1>2, <1>8
<1>10. [k \in DOMAIN there |-> parts[there[k]]] \in Seq(Texts)
  BY <1>6, <1>8
<1> QED BY <1>2, <1>9, <1>10 DEF there, wanted, parts, content, S, Found, Meant

(* cut joins, of every line, the fields asked for that the line has.       *)
LEMMA CutIs ==
  ASSUME NEW text \in Texts, NEW args \in Seq(Texts), ValidCut(args)
  PROVE  LET parts == Split(args[4], COMMA)
             stdout == Cut(text, args[2][1], [k \in DOMAIN parts |-> Value(parts[k])])
         IN  stdout \in Texts /\ CutAgrees(args, SplitLines(text), stdout)
<1> DEFINE parts == Split(args[4], COMMA)
           fields == [k \in DOMAIN parts |-> Value(parts[k])]
           d == args[2][1]
           lines == SplitLines(text)
           stdout == Cut(text, d, fields)
<1>1. Len(args) = 4 /\ 2 \in 1..Len(args) /\ 4 \in 1..Len(args) /\ args[2] # << >>
  BY DEF ValidCut
<1>2. args[2] \in Texts /\ args[4] \in Texts
  BY <1>1, ElementOfSeq
<1>3. d \in Bytes
  <2> DEFINE a == args[2]
  <2>1. a \in Seq(Bytes) /\ a # << >>
    BY <1>1, <1>2 DEF Texts
  <2> HIDE DEF a
  <2>2. a[1] \in Bytes
    <3>1. Len(a) \in Nat /\ Len(a) # 0
      BY <2>1, LenProperties, EmptySeq
    <3>2. 1 \in 1..Len(a)
      BY <3>1
    <3> QED BY <2>1, <3>2, ElementOfSeq
  <2> QED BY <2>2 DEF a
<1>4. parts \in Seq(Texts) /\ Len(parts) \in Nat /\ DOMAIN parts = 1..Len(parts)
  <2>1. args[4] \in Seq(Bytes)
    BY <1>2 DEF Texts
  <2>2. parts \in Seq(Seq(Bytes))
    BY <2>1, SplitParts
  <2> HIDE DEF parts
  <2> QED BY <2>2, LenProperties DEF Texts
<1>5. \A k \in DOMAIN parts : Value(parts[k]) \in 1..1024
  <2>1. \A field \in ToSet(parts) : Value(field) \in 1..1024
    BY DEF ValidCut
  <2>2. \A k \in DOMAIN parts : parts[k] \in ToSet(parts)
    <3> HIDE DEF parts
    <3> QED BY DEF ToSet
  <2> HIDE DEF parts
  <2> QED BY <2>1, <2>2
<1> HIDE DEF parts
<1>6. fields \in Seq(1..1024)
  BY <1>4, <1>5
<1>7. 1..1024 \subseteq Nat \ {0}
  OBVIOUS
<1>8. lines \in Seq(Texts) /\ Len(lines) \in Nat /\ DOMAIN lines = 1..Len(lines)
  BY LinesType, LenProperties DEF Lines
<1> DEFINE found(line) == Found(line, d, fields)
           meant(line) == Meant(line, d, fields)
<1>9. stdout = JoinLines([k \in DOMAIN lines |-> Join(found(lines[k]), d)])
  BY DEF Cut, Found
<1>10. CutAgrees(args, lines, stdout) <=>
         stdout = JoinLines([k \in DOMAIN lines |-> Join(meant(lines[k]), d)])
  BY DEF CutAgrees, Meant, FieldOf, parts
<1>11. \A line \in Texts : found(line) = meant(line) /\ found(line) \in Seq(Texts)
  <2> HIDE DEF fields, d
  <2> DEFINE T == 1..1024
  <2>1. T \subseteq Nat \ {0} /\ fields \in Seq(T)
    BY <1>6, <1>7
  <2> HIDE DEF T
  <2> TAKE line \in Texts
  <2>2. found(line) = meant(line)
    BY <1>3, <2>1, SelectedFields
  <2>3. found(line) \in Seq(Texts)
    BY <1>3, <2>1, SelectedFields
  <2> QED BY <2>2, <2>3
<1> HIDE DEF lines, stdout, fields, d, found, meant
<1>12. \A k \in DOMAIN lines : found(lines[k]) = meant(lines[k]) /\ found(lines[k]) \in Seq(Texts)
  BY <1>8, <1>11, ElementOfSeq
<1>13. [k \in DOMAIN lines |-> Join(found(lines[k]), d)] = [k \in DOMAIN lines |-> Join(meant(lines[k]), d)]
  BY <1>12
<1>14. [k \in DOMAIN lines |-> Join(found(lines[k]), d)] \in Seq(Texts)
  <2>1. \A k \in DOMAIN lines : Join(found(lines[k]), d) \in Texts
    BY <1>3, <1>12, JoinedText
  <2> QED BY <1>8, <2>1
<1>15. stdout \in Texts
  BY <1>9, <1>14, JoinStep, ByteTypes DEF Texts
<1>16. CutAgrees(args, lines, stdout)
  BY <1>9, <1>10, <1>13
<1> QED BY <1>15, <1>16 DEF stdout, lines, fields, parts, d

-----------------------------------------------------------------------------
(* wc.                                                                     *)

(* Where the parts of a text stand in it: each after its place.            *)
Places(text, sep) == InOrder(Separators(text, sep))

(* The parts of a text stand in it one after another, each after its       *)
(* separator, and leave out no other place.                                *)
LEMMA SplitPlaces ==
  ASSUME NEW T, NEW text \in Seq(T), NEW sep
  PROVE  LET parts == Split(text, sep)
             at == Places(text, sep)
         IN
         /\ \A k \in 1..Len(parts) :
              /\ at[k] \in Nat /\ Len(parts[k]) \in Nat
              /\ at[k] = 0 \/ (at[k] \in 1..Len(text) /\ text[at[k]] = sep)
              /\ \A p \in 1..Len(parts[k]) :
                   at[k] + p \in 1..Len(text) /\ parts[k][p] = text[at[k] + p] /\ parts[k][p] # sep
         /\ \A j, k \in 1..Len(parts) : j < k => at[j] + Len(parts[j]) < at[k]
         /\ \A i \in 1..Len(text) : text[i] # sep => \E k \in 1..Len(parts) : i - at[k] \in 1..Len(parts[k])
<1> DEFINE parts == Split(text, sep)
           at == Places(text, sep)
           m == Len(at)
           n == Len(text)
           S == Separators(text, sep)
<1>1. n \in Nat /\ DOMAIN text = 1..n
  BY LenProperties
<1>2. /\ at \in Seq(Nat) /\ Increasing(at) /\ Elements(at) = S
      /\ m \in Nat /\ m >= 2 /\ at[1] = 0 /\ at[m] = n + 1
      /\ parts = [k \in 1..(m - 1) |-> SubSeq(text, at[k] + 1, at[k + 1] - 1)]
      /\ \A k \in 1..(m - 1) :
           /\ at[k] \in 0..n /\ at[k + 1] \in 1..(n + 1) /\ at[k] < at[k + 1]
           /\ \A i \in (at[k] + 1)..(at[k + 1] - 1) : text[i] # sep
  BY SplitShape DEF Places
<1>3. S = {0, n + 1} \cup {i \in 1..n : text[i] = sep}
  BY <1>1 DEF Separators
<1>4. Len(parts) = m - 1
  <2>1. parts \in Seq(Seq(T))
    BY SplitParts
  <2>2. DOMAIN parts = 1..(m - 1)
    BY <1>2
  <2>3. DOMAIN parts = 1..Len(parts) /\ Len(parts) \in Nat /\ m - 1 \in Nat
    BY <1>2, <2>1, LenProperties
  <2> HIDE DEF m
  <2> QED BY <2>2, <2>3
<1> HIDE DEF m, n, S, at, parts
<1>5. ASSUME NEW k \in 1..(m - 1)
      PROVE  /\ at[k] \in Nat /\ Len(parts[k]) = at[k + 1] - at[k] - 1 /\ Len(parts[k]) \in Nat
             /\ at[k] = 0 \/ (at[k] \in 1..n /\ text[at[k]] = sep)
             /\ \A p \in 1..Len(parts[k]) :
                  at[k] + p \in 1..n /\ parts[k][p] = text[at[k] + p] /\ parts[k][p] # sep
  <2> DEFINE a == at[k]
             b == at[k + 1]
             part == parts[k]
  <2>1. a \in 0..n /\ b \in 1..(n + 1) /\ a < b /\ \A i \in (a + 1)..(b - 1) : text[i] # sep
    BY <1>2
  <2>2. a \in S
    <3>1. k \in 1..Len(at)
      BY <1>2 DEF m
    <3> QED BY <1>2, <3>1 DEF Elements
  <2>3. part = SubSeq(text, a + 1, b - 1)
    BY <1>2
  <2> HIDE DEF a, b, part
  <2>4. /\ Len(part) = b - a - 1 /\ \A p \in 1..(b - a - 1) : part[p] = text[a + p]
    <3>1. a + 1 \in 1..(n + 1) /\ b - 1 \in 0..n /\ (a + 1 <= b - 1 \/ b - 1 = a)
      BY <1>1, <2>1
    <3> DEFINE u == a + 1
               v == b - 1
    <3>2. u \in 1..(n + 1) /\ v \in 0..n /\ b - a - 1 = IF u <= v THEN v - u + 1 ELSE 0
      BY <1>1, <2>1
    <3>3. \A p \in 1..(b - a - 1) : p \in 1..(v - u + 1) /\ u + p - 1 = a + p
      BY <1>1, <2>1
    <3> HIDE DEF u, v
    <3>4. /\ Len(SubSeq(text, u, v)) = IF u <= v THEN v - u + 1 ELSE 0
          /\ \A p \in 1..(v - u + 1) : SubSeq(text, u, v)[p] = text[u + p - 1]
      BY <3>2, SubSeqProperties DEF n
    <3>5. part = SubSeq(text, u, v)
      BY <2>3 DEF u, v
    <3> QED BY <3>2, <3>3, <3>4, <3>5
  <2>5. Len(part) \in Nat /\ a \in Nat
    BY <1>1, <2>1, <2>4
  <2>6. a = 0 \/ (a \in 1..n /\ text[a] = sep)
    <3>1. a # n + 1
      BY <1>1, <2>1
    <3> QED BY <1>3, <2>2, <3>1
  <2>7. ASSUME NEW p \in 1..(b - a - 1)
        PROVE  a + p \in 1..n /\ part[p] = text[a + p] /\ part[p] # sep
    <3>1. a + p \in 1..n /\ a + p \in (a + 1)..(b - 1)
      BY <1>1, <2>1
    <3> QED BY <2>1, <2>4, <3>1
  <2> QED BY <2>4, <2>5, <2>6, <2>7 DEF a, b, part
<1>6. ASSUME NEW j \in 1..(m - 1), NEW k \in 1..(m - 1), j < k
      PROVE  at[j] + Len(parts[j]) < at[k]
  <2>1. j + 1 \in 1..m /\ k \in 1..m /\ (j + 1 = k \/ j + 1 < k)
    BY <1>2, <1>6
  <2>2. at[j + 1] <= at[k]
    <3>1. at[j + 1] \in Nat /\ at[k] \in Nat
      BY <1>2, <2>1, ElementOfSeq DEF m
    <3>2. j + 1 < k => at[j + 1] < at[k]
      BY <1>2, <2>1 DEF Increasing, m
    <3> QED BY <2>1, <3>1, <3>2
  <2>3. at[j + 1] \in Nat /\ at[k] \in Nat /\ at[j] \in Nat
    <3>1. j \in 1..m
      BY <1>2
    <3> QED BY <1>2, <2>1, <3>1, ElementOfSeq DEF m
  <2>4. Len(parts[j]) = at[j + 1] - at[j] - 1
    BY <1>5
  <2> DEFINE a == at[j]
             b == at[j + 1]
             c == at[k]
  <2>5. a \in Nat /\ b \in Nat /\ c \in Nat /\ b <= c
    BY <2>2, <2>3
  <2> HIDE DEF a, b, c
  <2>6. a + (b - a - 1) < c
    BY <2>5
  <2> QED BY <2>4, <2>6 DEF a, b, c
<1>7. ASSUME NEW i \in 1..n, text[i] # sep
      PROVE  \E k \in 1..(m - 1) : i - at[k] \in 1..Len(parts[k])
  <2>1. i \in Nat /\ m # 0 /\ at[1] <= i
    BY <1>1, <1>2
  <2>2. PICK k \in 1..m : at[k] <= i /\ (k = m \/ i < at[k + 1])
    BY <1>2, <2>1, Between DEF m
  <2>3. k \in 1..(m - 1)
    BY <1>1, <1>2, <2>2
  <2>4. at[k] # i
    BY <1>5, <1>7, <2>1, <2>3
  <2>5. i - at[k] \in 1..Len(parts[k])
    <3> DEFINE a == at[k]
               b == at[k + 1]
    <3>1. a \in 0..n /\ b \in 1..(n + 1) /\ a <= i /\ a # i /\ i < b
      <4>1. a \in 0..n /\ b \in 1..(n + 1)
        BY <1>2, <2>3
      <4>2. k # m
        BY <1>2, <2>3
      <4> QED BY <2>2, <2>4, <4>1, <4>2
    <3> HIDE DEF a, b
    <3>2. i - a \in 1..(b - a - 1)
      BY <1>1, <3>1
    <3>3. Len(parts[k]) = b - a - 1
      BY <1>5, <2>3 DEF a, b
    <3> QED BY <3>2, <3>3 DEF a
  <2> QED BY <2>3, <2>5
<1> QED BY <1>4, <1>5, <1>6, <1>7 DEF n, at, parts

(* Where the words of a text begin.                                        *)
WordStarts(text) == {i \in DOMAIN text : ~Blank(text[i]) /\ (i = 1 \/ Blank(text[i - 1]))}

(* The parts of a line that are words.                                     *)
WordParts(line) == {j \in DOMAIN Split(line, SPACE) : Split(line, SPACE)[j] # << >>}

(* Within a line, white space is the space.                                *)
LEMMA Blanks ==
  ASSUME NEW line \in Texts, Free(line, NL), NEW p \in 1..Len(line)
  PROVE  Blank(line[p]) <=> line[p] = SPACE
BY DEF Blank, Free

(* The words of a line, split at spaces, are where its words start, one    *)
(* for one.                                                                *)
LEMMA WordsOfLine ==
  ASSUME NEW line \in Texts, Free(line, NL)
  PROVE  LET at == Places(line, SPACE)
         IN  /\ \A j \in WordParts(line) : at[j] \in Nat /\ at[j] + 1 \in WordStarts(line)
             /\ \A p \in WordStarts(line) : \E j \in WordParts(line) : at[j] + 1 = p
             /\ \A i, j \in WordParts(line) : at[i] = at[j] => i = j
<1> DEFINE at == Places(line, SPACE)
           parts == Split(line, SPACE)
           n == Len(line)
<1>1. n \in Nat /\ DOMAIN line = 1..n /\ line \in Seq(Bytes)
  BY LenProperties DEF Texts
<1>2. /\ \A k \in 1..Len(parts) :
           /\ at[k] \in Nat /\ Len(parts[k]) \in Nat
           /\ at[k] = 0 \/ (at[k] \in 1..n /\ line[at[k]] = SPACE)
           /\ \A p \in 1..Len(parts[k]) :
                at[k] + p \in 1..n /\ parts[k][p] = line[at[k] + p] /\ parts[k][p] # SPACE
      /\ \A j, k \in 1..Len(parts) : j < k => at[j] + Len(parts[j]) < at[k]
      /\ \A i \in 1..n : line[i] # SPACE => \E k \in 1..Len(parts) : i - at[k] \in 1..Len(parts[k])
  BY <1>1, SplitPlaces
<1>3. parts \in Seq(Seq(Bytes)) /\ Len(parts) \in Nat /\ DOMAIN parts = 1..Len(parts)
  <2>1. parts \in Seq(Seq(Bytes))
    BY <1>1, SplitParts
  <2> HIDE DEF parts
  <2> QED BY <2>1, LenProperties
<1>4. WordParts(line) = {j \in 1..Len(parts) : parts[j] # << >>}
  BY <1>3 DEF WordParts
<1>5. \A p \in 1..n : Blank(line[p]) <=> line[p] = SPACE
  BY Blanks
<1> HIDE DEF at, parts, n
<1>6. ASSUME NEW j \in 1..Len(parts)
      PROVE  parts[j] # << >> <=> 1 \in 1..Len(parts[j])
  <2>1. parts[j] \in Seq(Bytes) /\ Len(parts[j]) \in Nat
    BY <1>2, <1>3, ElementOfSeq
  <2>2. parts[j] = << >> <=> Len(parts[j]) = 0
    BY <2>1, EmptySeq
  <2>3. Len(parts[j]) # 0 <=> 1 \in 1..Len(parts[j])
    BY <2>1
  <2> QED BY <2>2, <2>3
<1>7. ASSUME NEW j \in WordParts(line)
      PROVE  at[j] \in Nat /\ at[j] + 1 \in WordStarts(line)
  <2>1. j \in 1..Len(parts) /\ 1 \in 1..Len(parts[j])
    BY <1>4, <1>6
  <2> DEFINE a == at[j]
             i == a + 1
  <2>2. a \in Nat /\ (a = 0 \/ (a \in 1..n /\ line[a] = SPACE))
    BY <1>2, <2>1
  <2>3. i \in 1..n /\ line[i] # SPACE
    BY <1>2, <2>1
  <2> HIDE DEF a
  <2>4. i - 1 = a
    BY <2>2
  <2>5. ~Blank(line[i]) /\ (i = 1 \/ Blank(line[i - 1]))
    <3>1. a = 0 => i = 1
      BY <2>2
    <3>2. a # 0 => Blank(line[a])
      BY <2>2 DEF Blank
    <3> QED BY <1>5, <2>3, <2>4, <3>1, <3>2
  <2>6. i \in WordStarts(line)
    BY <1>1, <2>3, <2>5 DEF WordStarts
  <2> QED BY <2>2, <2>6 DEF a
<1>8. ASSUME NEW p \in WordStarts(line)
      PROVE  \E j \in WordParts(line) : at[j] + 1 = p
  <2>1. p \in 1..n /\ ~Blank(line[p]) /\ (p = 1 \/ Blank(line[p - 1]))
    BY <1>1 DEF WordStarts
  <2>2. PICK j \in 1..Len(parts) : p - at[j] \in 1..Len(parts[j])
    <3>1. line[p] # SPACE
      BY <2>1 DEF Blank
    <3> QED BY <1>2, <2>1, <3>1
  <2> DEFINE a == at[j]
  <2>3. a \in Nat /\ Len(parts[j]) \in Nat
    BY <1>2
  <2>4. \A q \in 1..Len(parts[j]) : a + q \in 1..n /\ ~Blank(line[a + q])
    <3> TAKE q \in 1..Len(parts[j])
    <3>1. a + q \in 1..n /\ parts[j][q] = line[a + q] /\ parts[j][q] # SPACE
      BY <1>2
    <3> QED BY <1>5, <3>1
  <2>5. p - a \in 1..Len(parts[j])
    BY <2>2
  <2> HIDE DEF a
  <2>6. a + 1 = p
    <3> SUFFICES ASSUME a + 1 # p PROVE FALSE
      OBVIOUS
    <3>1. p - a - 1 \in 1..Len(parts[j]) /\ a + (p - a - 1) = p - 1 /\ p # 1
      BY <1>1, <2>1, <2>3, <2>5
    <3>2. ~Blank(line[a + (p - a - 1)])
      BY <2>4, <3>1
    <3>3. ~Blank(line[p - 1])
      BY <3>1, <3>2
    <3> QED BY <2>1, <3>1, <3>3
  <2>7. 1 \in 1..Len(parts[j])
    BY <1>1, <2>1, <2>3, <2>5
  <2>8. j \in WordParts(line)
    BY <1>4, <1>6, <2>7
  <2> QED BY <2>6, <2>8 DEF a
<1>9. ASSUME NEW i \in WordParts(line), NEW j \in WordParts(line), at[i] = at[j]
      PROVE  i = j
  <2>1. i \in 1..Len(parts) /\ j \in 1..Len(parts)
    BY <1>4
  <2>2. at[i] \in Nat /\ at[j] \in Nat /\ Len(parts[i]) \in Nat /\ Len(parts[j]) \in Nat
    BY <1>2, <2>1
  <2>3. (i < j => at[i] + Len(parts[i]) < at[j]) /\ (j < i => at[j] + Len(parts[j]) < at[i])
    BY <1>2, <2>1
  <2>4. ~(i < j) /\ ~(j < i)
    <3> DEFINE a == at[i]
               b == at[j]
               u == Len(parts[i])
               v == Len(parts[j])
    <3>1. a \in Nat /\ b \in Nat /\ u \in Nat /\ v \in Nat /\ a = b
      BY <1>9, <2>2
    <3> HIDE DEF a, b, u, v
    <3>2. ~(a + u < b) /\ ~(b + v < a)
      BY <3>1
    <3> QED BY <2>3, <3>2 DEF a, b, u, v
  <2> QED BY <1>3, <2>1, <2>4
<1> QED BY <1>7, <1>8, <1>9 DEF at

(* A text without the end of its last line.                                *)
Body(text) == IF Last(text) = NL THEN Front(text) ELSE text

(* The line feed at the end of a text starts no word.                      *)
LEMMA BodyWords ==
  ASSUME NEW text \in Texts, text # << >>
  PROVE  Body(text) \in Texts /\ SplitLines(text) = Split(Body(text), NL) /\ WordStarts(text) = WordStarts(Body(text))
<1> DEFINE body == Body(text)
<1>1. /\ Front(text) \in Texts /\ Len(text) \in Nat \ {0} /\ Len(Front(text)) = Len(text) - 1
      /\ \A i \in 1..(Len(text) - 1) : Front(text)[i] = text[i]
  BY FrontLast DEF Texts
<1>2. body \in Texts /\ SplitLines(text) = Split(body, NL)
  BY <1>1 DEF Body, SplitLines
<1>3. WordStarts(text) = WordStarts(body)
  <2>1. CASE Last(text) # NL
    BY <2>1 DEF Body
  <2>2. CASE Last(text) = NL
    <3> DEFINE n == Len(text)
               front == Front(text)
    <3>1. body = front
      BY <2>2 DEF Body
    <3>2. text[n] = NL
      BY <2>2 DEF Last
    <3>3. DOMAIN text = 1..n /\ DOMAIN front = 1..(n - 1)
      BY <1>1, LenProperties DEF Texts
    <3>4. \A i \in 1..(n - 1) : front[i] = text[i]
      BY <1>1
    <3>5. n \in Nat \ {0}
      BY <1>1
    <3> HIDE DEF n, front
    <3>6. ASSUME NEW i \in 1..n
          PROVE  i \in WordStarts(text) <=> i \in WordStarts(front)
      <4>1. CASE i = n
        <5>1. Blank(text[i]) /\ i \notin 1..(n - 1)
          BY <3>2, <3>5, <4>1 DEF Blank
        <5> QED BY <3>3, <5>1 DEF WordStarts
      <4>2. CASE i # n
        <5>1. i \in 1..(n - 1) /\ (i # 1 => i - 1 \in 1..(n - 1))
          BY <3>5, <4>2
        <5>2. front[i] = text[i] /\ (i # 1 => front[i - 1] = text[i - 1])
          BY <3>4, <5>1
        <5> QED BY <3>3, <5>1, <5>2 DEF WordStarts
      <4> QED BY <4>1, <4>2
    <3>7. WordStarts(text) \subseteq 1..n /\ WordStarts(front) \subseteq 1..n
      <4>1. 1..(n - 1) \subseteq 1..n
        BY <3>5
      <4> QED BY <3>3, <4>1 DEF WordStarts
    <3> QED BY <3>1, <3>6, <3>7
  <2> QED BY <2>1, <2>2
<1> QED BY <1>2, <1>3

(* The words of the lines, each by its line and its place among the parts. *)
LineWords(lines) ==
  LET parts(k) == Split(lines[k], SPACE)
  IN  UNION { {k} \X {j \in DOMAIN parts(k) : parts(k)[j] # << >>} : k \in DOMAIN lines }

(* Where the word w of the lines of a text begins.                         *)
WordAt(body, w) == Places(body, NL)[w[1]] + (Places(Split(body, NL)[w[1]], SPACE)[w[2]] + 1)

(* The words of the lines are where the words of the text start, one for   *)
(* one.                                                                    *)
LEMMA WordsOfBody ==
  ASSUME NEW body \in Texts
  PROVE  LET W == LineWords(Split(body, NL))
         IN  /\ \A w \in W : WordAt(body, w) \in WordStarts(body)
             /\ \A i \in WordStarts(body) : \E w \in W : WordAt(body, w) = i
             /\ \A v, w \in W : WordAt(body, v) = WordAt(body, w) => v = w
<1> DEFINE lines == Split(body, NL)
           W == LineWords(lines)
           at == Places(body, NL)
           in(k) == Places(lines[k], SPACE)
           m == Len(lines)
           n == Len(body)
<1>1. n \in Nat /\ DOMAIN body = 1..n /\ body \in Seq(Bytes)
  BY LenProperties DEF Texts
<1>2. /\ \A k \in 1..m :
           /\ at[k] \in Nat /\ Len(lines[k]) \in Nat
           /\ at[k] = 0 \/ (at[k] \in 1..n /\ body[at[k]] = NL)
           /\ \A p \in 1..Len(lines[k]) :
                at[k] + p \in 1..n /\ lines[k][p] = body[at[k] + p] /\ lines[k][p] # NL
      /\ \A j, k \in 1..m : j < k => at[j] + Len(lines[j]) < at[k]
      /\ \A i \in 1..n : body[i] # NL => \E k \in 1..m : i - at[k] \in 1..Len(lines[k])
  BY <1>1, SplitPlaces
<1>3. lines \in Seq(Texts) /\ m \in Nat /\ DOMAIN lines = 1..m /\ \A k \in 1..m : Free(lines[k], NL)
  <2>1. lines \in Seq(Seq(Bytes)) /\ \A k \in 1..m : Free(lines[k], NL)
    BY <1>1, SplitParts
  <2> HIDE DEF lines
  <2> QED BY <2>1, LenProperties DEF Texts
<1>4. \A k \in 1..m : /\ \A j \in WordParts(lines[k]) : in(k)[j] \in Nat /\ in(k)[j] + 1 \in WordStarts(lines[k])
                      /\ \A p \in WordStarts(lines[k]) : \E j \in WordParts(lines[k]) : in(k)[j] + 1 = p
                      /\ \A i, j \in WordParts(lines[k]) : in(k)[i] = in(k)[j] => i = j
  <2> HIDE DEF lines
  <2> TAKE k \in 1..m
  <2>1. lines[k] \in Texts /\ Free(lines[k], NL)
    BY <1>3, ElementOfSeq
  <2> QED BY <2>1, WordsOfLine
<1>5. \A w : w \in W <=> \E k \in 1..m : \E j \in WordParts(lines[k]) : w = <<k, j>>
  <2> HIDE DEF lines
  <2>1. W = UNION { {k} \X WordParts(lines[k]) : k \in 1..m }
    BY <1>3 DEF LineWords, WordParts
  <2> HIDE DEF W
  <2> QED BY <2>1
<1>6. \A k \in 1..m : \A j \in WordParts(lines[k]) : WordAt(body, <<k, j>>) = at[k] + (in(k)[j] + 1)
  BY DEF WordAt
<1>7. \A k \in 1..m : DOMAIN lines[k] = 1..Len(lines[k])
  <2> HIDE DEF lines
  <2> QED BY <1>3, ElementOfSeq, LenProperties DEF Texts
<1> HIDE DEF lines, W, at, in, m, n
<1>8. ASSUME NEW k \in 1..m, NEW p \in 1..Len(lines[k])
      PROVE  p \in WordStarts(lines[k]) <=> at[k] + p \in WordStarts(body)
  <2> DEFINE a == at[k]
             line == lines[k]
  <2>1. a \in Nat /\ (a = 0 \/ (a \in 1..n /\ body[a] = NL)) /\ Len(line) \in Nat
    BY <1>2
  <2>2. \A q \in 1..Len(line) : a + q \in 1..n /\ line[q] = body[a + q] /\ line[q] # NL
    BY <1>2
  <2>3. DOMAIN line = 1..Len(line) /\ p \in 1..Len(line)
    BY <1>7
  <2> HIDE DEF a, line
  <2>4. a + p \in 1..n /\ line[p] = body[a + p]
    BY <2>2, <2>3
  <2>5. CASE p = 1
    <3>1. (a + p) - 1 = a /\ (a = 0 => a + p = 1)
      BY <2>1, <2>5
    <3>2. a + p = 1 \/ Blank(body[(a + p) - 1])
      BY <2>1, <3>1 DEF Blank
    <3>3. p \in WordStarts(line) <=> ~Blank(line[p])
      BY <2>3, <2>5 DEF WordStarts
    <3>4. a + p \in WordStarts(body) <=> ~Blank(body[a + p])
      <4> DEFINE i == a + p
      <4>1. i \in 1..n
        BY <2>4
      <4>3. i = 1 \/ Blank(body[i - 1])
        BY <3>2
      <4> HIDE DEF i
      <4>2. i \in WordStarts(body) <=> ~Blank(body[i])
        BY <1>1, <4>1, <4>3 DEF WordStarts
      <4> QED BY <4>2 DEF i
    <3> QED BY <2>4, <3>3, <3>4 DEF a, line
  <2>6. CASE p # 1
    <3>1. p - 1 \in 1..Len(line) /\ a + (p - 1) = (a + p) - 1 /\ a + p # 1
      BY <2>1, <2>3, <2>6
    <3>2. line[p - 1] = body[(a + p) - 1]
      BY <2>2, <3>1
    <3>3. p \in WordStarts(line) <=> ~Blank(line[p]) /\ Blank(line[p - 1])
      BY <2>3, <2>6 DEF WordStarts
    <3>4. a + p \in WordStarts(body) <=> ~Blank(body[a + p]) /\ Blank(body[(a + p) - 1])
      <4> DEFINE i == a + p
      <4>1. i \in 1..n /\ i # 1
        BY <2>4, <3>1
      <4> HIDE DEF i
      <4>2. i \in WordStarts(body) <=> ~Blank(body[i]) /\ Blank(body[i - 1])
        BY <1>1, <4>1 DEF WordStarts
      <4> QED BY <4>2 DEF i
    <3> QED BY <2>4, <3>2, <3>3, <3>4 DEF a, line
  <2> QED BY <2>5, <2>6
<1>9. ASSUME NEW k \in 1..m, NEW j \in WordParts(lines[k])
      PROVE  in(k)[j] + 1 \in 1..Len(lines[k]) /\ at[k] + (in(k)[j] + 1) \in WordStarts(body)
  <2>1. in(k)[j] + 1 \in WordStarts(lines[k])
    BY <1>4
  <2>2. in(k)[j] + 1 \in 1..Len(lines[k])
    BY <1>7, <2>1 DEF WordStarts
  <2> QED BY <1>8, <2>1, <2>2
<1>10. ASSUME NEW i \in WordStarts(body)
       PROVE  \E w \in W : WordAt(body, w) = i
  <2>1. i \in 1..n /\ body[i] # NL
    BY <1>1 DEF WordStarts, Blank
  <2>2. PICK k \in 1..m : i - at[k] \in 1..Len(lines[k])
    BY <1>2, <2>1
  <2> DEFINE p == i - at[k]
  <2>3. p \in 1..Len(lines[k]) /\ at[k] + p = i
    <3>1. at[k] \in Nat
      BY <1>2
    <3> QED BY <1>1, <2>1, <2>2, <3>1
  <2> HIDE DEF p
  <2>4. p \in WordStarts(lines[k])
    BY <1>8, <2>3
  <2>5. PICK j \in WordParts(lines[k]) : in(k)[j] + 1 = p
    BY <1>4, <2>4
  <2>6. <<k, j>> \in W /\ WordAt(body, <<k, j>>) = i
    BY <1>5, <1>6, <2>3, <2>5
  <2> QED BY <2>6
<1>11. ASSUME NEW v \in W, NEW w \in W, WordAt(body, v) = WordAt(body, w)
       PROVE  v = w
  <2>1. PICK k1 \in 1..m : \E j \in WordParts(lines[k1]) : v = <<k1, j>>
    BY <1>5
  <2>2. PICK j1 \in WordParts(lines[k1]) : v = <<k1, j1>>
    BY <2>1
  <2>3. PICK k2 \in 1..m : \E j \in WordParts(lines[k2]) : w = <<k2, j>>
    BY <1>5
  <2>4. PICK j2 \in WordParts(lines[k2]) : w = <<k2, j2>>
    BY <2>3
  <2> DEFINE a == at[k1]
             b == at[k2]
             p == in(k1)[j1] + 1
             q == in(k2)[j2] + 1
             x == Len(lines[k1])
             y == Len(lines[k2])
  <2>5. a + p = b + q
    BY <1>6, <1>11, <2>2, <2>4
  <2>6. a \in Nat /\ b \in Nat /\ x \in Nat /\ y \in Nat /\ p \in 1..x /\ q \in 1..y
    BY <1>2, <1>9
  <2>7. (k1 < k2 => a + x < b) /\ (k2 < k1 => b + y < a)
    BY <1>2
  <2>8. ~(a + x < b) /\ ~(b + y < a)
    <3> HIDE DEF a, b, p, q, x, y
    <3> QED BY <2>5, <2>6
  <2>9. k1 = k2
    BY <1>3, <2>7, <2>8
  <2>10. in(k1)[j1] = in(k2)[j2]
    <3>1. in(k1)[j1] \in Nat /\ in(k2)[j2] \in Nat
      BY <1>4
    <3>2. p = q
      <4>1. a = b
        BY <2>9
      <4> HIDE DEF a, b, p, q
      <4> QED BY <2>5, <2>6, <4>1
    <3> QED BY <3>1, <3>2
  <2>11. j1 = j2
    BY <1>4, <2>9, <2>10
  <2> QED BY <2>2, <2>4, <2>9, <2>11
<1>12. \A w \in W : WordAt(body, w) \in WordStarts(body)
  BY <1>5, <1>6, <1>9
<1> QED BY <1>10, <1>11, <1>12 DEF W, lines

(* wc counts words from start to start, or line by line.                   *)
LEMMA WordsAgree ==
  ASSUME NEW text \in Texts
  PROVE  Cardinality(WordStarts(text)) = Cardinality(LineWords(SplitLines(text)))
<1>1. CASE text = << >>
  <2>1. WordStarts(text) = {}
    BY <1>1 DEF WordStarts
  <2>2. SplitLines(text) = << >>
    BY <1>1 DEF SplitLines
  <2>3. LineWords(<< >>) = {}
    BY DEF LineWords
  <2> QED BY <2>1, <2>2, <2>3
<1>2. CASE text # << >>
  <2> DEFINE body == Body(text)
             lines == Split(body, NL)
             W == LineWords(lines)
             S == WordStarts(body)
             H == [w \in W |-> WordAt(body, w)]
  <2>1. body \in Texts /\ SplitLines(text) = lines /\ WordStarts(text) = S
    BY <1>2, BodyWords
  <2>2. /\ \A w \in W : WordAt(body, w) \in S
        /\ \A i \in S : \E w \in W : WordAt(body, w) = i
        /\ \A v, w \in W : WordAt(body, v) = WordAt(body, w) => v = w
    <3> HIDE DEF body
    <3> QED BY <2>1, WordsOfBody
  <2>3. IsFiniteSet(S)
    <3> HIDE DEF body
    <3>1. Len(body) \in Nat /\ S \subseteq 1..Len(body)
      BY <2>1, LenProperties DEF WordStarts, Texts
    <3> HIDE DEF S
    <3> QED BY <3>1, PartOfInterval
  <2> HIDE DEF W, S, lines, body
  <2>4. H \in Bijection(W, S)
    <3>1. H \in [W -> S] /\ \A w \in W : H[w] = WordAt(body, w)
      BY <2>2
    <3> HIDE DEF H
    <3>2. \A v, w \in W : H[v] = H[w] => v = w
      BY <2>2, <3>1
    <3>3. \A i \in S : \E w \in W : H[w] = i
      BY <2>2, <3>1
    <3> QED BY <3>1, <3>2, <3>3, Fun_IsBij
  <2>5. ExistsBijection(S, W)
    <3>1. ExistsBijection(W, S)
      BY <2>4 DEF ExistsBijection
    <3> QED BY <3>1, Fun_ExistsBijSymmetric
  <2>6. Cardinality(S) = Cardinality(W)
    BY <2>3, <2>5, FS_Bijection
  <2> QED BY <2>1, <2>6 DEF W
<1> QED BY <1>1, <1>2

(* WcCounts, of the lines given and the output.                            *)
WcAgrees(args, input, given, output) ==
  LET parts(k) == Split(given[k], SPACE)
      words == UNION { {k} \X {j \in DOMAIN parts(k) : parts(k)[j] # << >>} : k \in DOMAIN given }
  IN  output = Counts(args,
        [lines |-> Len(given), words |-> Cardinality(words), bytes |-> Len(input)])

(* What wc prints is a text.                                               *)
LEMMA CountsText ==
  ASSUME NEW args \in Seq(Texts), NEW c \in [lines : Nat, words : Nat, bytes : Nat]
  PROVE  Counts(args, c) \in Texts
<1> DEFINE number(option) == CASE option = DashL -> c.lines [] option = DashW -> c.words [] OTHER -> c.bytes
           order == IF args = << >> THEN <<DashL, DashW, DashC>> ELSE args
           numbers == [k \in DOMAIN order |-> Decimal[number(order[k])]]
<1>1. \A option : number(option) \in Nat
  <2> TAKE option
  <2>1. CASE option = DashL
    <3>1. DashL # DashW
      BY DEF DashL, DashW
    <3> QED BY <2>1, <3>1
  <2>2. CASE option = DashW
    <3>1. DashL # DashW
      BY DEF DashL, DashW
    <3> QED BY <2>2, <3>1
  <2>3. CASE option # DashL /\ option # DashW
    BY <2>3
  <2> QED BY <2>1, <2>2, <2>3
<1>2. \E n \in Nat : DOMAIN order = 1..n
  <2>1. CASE args = << >>
    <3>1. DOMAIN order = 1..3
      BY <2>1
    <3> QED BY <3>1
  <2>2. CASE args # << >>
    BY <2>2, LenProperties
  <2> QED BY <2>1, <2>2
<1>3. Counts(args, c) = Append(Join(numbers, SPACE), NL)
  BY DEF Counts
<1> HIDE DEF number, order
<1>4. numbers \in Seq(Texts)
  <2>1. PICK n \in Nat : DOMAIN order = 1..n
    BY <1>2
  <2>2. \A k \in 1..n : Decimal[number(order[k])] \in Texts
    BY <1>1, DecimalFree
  <2>3. [k \in 1..n |-> Decimal[number(order[k])]] \in Seq(Texts)
    BY <2>2
  <2> QED BY <2>1, <2>3
<1> HIDE DEF numbers
<1>5. Join(numbers, SPACE) \in Texts
  BY <1>4, JoinedText, ByteTypes
<1>6. Append(Join(numbers, SPACE), NL) \in Texts
  BY <1>5, ByteTypes, AppendProperties DEF Texts
<1> QED BY <1>3, <1>6

(* wc counts lines, words and bytes as they are counted line by line.      *)
LEMMA WcIs ==
  ASSUME NEW text \in Texts, NEW args \in Seq(Texts)
  PROVE  LET stdout == Counts(args, WordCount(text))
         IN  stdout \in Texts /\ WcAgrees(args, text, SplitLines(text), stdout)
<1> DEFINE c == WordCount(text)
           lines == SplitLines(text)
<1>1. Len(lines) = c.lines /\ Len(lines) \in Nat
  BY LineCount
<1>2. c.words = Cardinality(WordStarts(text)) /\ c.bytes = Len(text)
  BY DEF WordCount, WordStarts
<1>3. Len(text) \in Nat /\ Cardinality(WordStarts(text)) \in Nat
  <2>1. Len(text) \in Nat /\ WordStarts(text) \subseteq 1..Len(text)
    BY LenProperties DEF WordStarts, Texts
  <2> QED BY <2>1, PartOfInterval
<1>4. c.words = Cardinality(LineWords(lines))
  BY <1>2, WordsAgree
<1>5. c = [lines |-> c.lines, words |-> c.words, bytes |-> c.bytes]
  BY DEF WordCount
<1> HIDE DEF c
<1>6. c = [lines |-> Len(lines), words |-> Cardinality(LineWords(lines)), bytes |-> Len(text)]
  BY <1>1, <1>2, <1>4, <1>5
<1>7. c \in [lines : Nat, words : Nat, bytes : Nat]
  BY <1>1, <1>2, <1>3, <1>5
<1>8. Counts(args, c) \in Texts
  BY <1>7, CountsText
<1>9. WcAgrees(args, text, lines, Counts(args, c))
  <2> HIDE DEF lines
  <2> QED BY <1>6 DEF WcAgrees, LineWords
<1> QED BY <1>8, <1>9 DEF c, lines

-----------------------------------------------------------------------------
(* The order of texts.                                                     *)

(* x comes before y because of the place k.                                *)
Before(x, y, k) ==
  /\ k \in 1..Len(y) /\ k <= Len(x) + 1
  /\ \A i \in 1..(k - 1) : x[i] = y[i]
  /\ k <= Len(x) => x[k] < y[k]

(* Equal beginnings are equal place by place.                              *)
LEMMA SameBeginning ==
  ASSUME NEW x \in Texts, NEW y \in Texts, NEW n \in Nat, n <= Len(x), n <= Len(y)
  PROVE  SubSeq(x, 1, n) = SubSeq(y, 1, n) <=> \A i \in 1..n : x[i] = y[i]
<1>1. x \in Seq(Bytes) /\ y \in Seq(Bytes) /\ Len(x) \in Nat /\ Len(y) \in Nat
  BY LenProperties DEF Texts
<1>2. n \in 0..Len(x) /\ n \in 0..Len(y)
  BY <1>1
<1>3. SubSeq(x, 1, n) \in Seq(Bytes) /\ Len(SubSeq(x, 1, n)) = n /\ \A i \in 1..n : SubSeq(x, 1, n)[i] = x[i]
  BY <1>1, <1>2, Beginnings DEF Upto
<1>4. SubSeq(y, 1, n) \in Seq(Bytes) /\ Len(SubSeq(y, 1, n)) = n /\ \A i \in 1..n : SubSeq(y, 1, n)[i] = y[i]
  BY <1>1, <1>2, Beginnings DEF Upto
<1> DEFINE u == SubSeq(x, 1, n)
           v == SubSeq(y, 1, n)
<1>5. /\ u \in Seq(Bytes) /\ Len(u) = n /\ \A i \in 1..n : u[i] = x[i]
      /\ v \in Seq(Bytes) /\ Len(v) = n /\ \A i \in 1..n : v[i] = y[i]
  BY <1>3, <1>4
<1> HIDE DEF u, v
<1>6. ASSUME \A i \in 1..n : x[i] = y[i] PROVE u = v
  BY <1>5, <1>6, SeqEqual
<1>7. ASSUME u = v, NEW i \in 1..n PROVE x[i] = y[i]
  BY <1>5, <1>7
<1>8. u = v <=> \A i \in 1..n : x[i] = y[i]
  BY <1>6, <1>7
<1> QED BY <1>8 DEF u, v

(* TextLess is decided by the first place where two texts differ.          *)
LEMMA TextLessIs ==
  ASSUME NEW x \in Texts, NEW y \in Texts
  PROVE  TextLess(x, y) <=> \E k \in 1..Len(y) : Before(x, y, k)
<1>1. DOMAIN y = 1..Len(y) /\ Len(x) \in Nat /\ Len(y) \in Nat
  BY LenProperties DEF Texts
<1>2. ASSUME NEW k \in 1..Len(y)
      PROVE  Before(x, y, k) <=>
               /\ k <= Len(x) + 1 /\ SubSeq(x, 1, k - 1) = SubSeq(y, 1, k - 1)
               /\ k <= Len(x) => x[k] < y[k]
  <2> SUFFICES ASSUME k <= Len(x) + 1
               PROVE  SubSeq(x, 1, k - 1) = SubSeq(y, 1, k - 1) <=> \A i \in 1..(k - 1) : x[i] = y[i]
    BY DEF Before
  <2> DEFINE n == k - 1
  <2>1. n \in Nat /\ n <= Len(x) /\ n <= Len(y)
    BY <1>1
  <2> HIDE DEF n
  <2>2. SubSeq(x, 1, n) = SubSeq(y, 1, n) <=> \A i \in 1..n : x[i] = y[i]
    BY <2>1, SameBeginning
  <2> QED BY <2>2 DEF n
<1> QED BY <1>1, <1>2 DEF TextLess

(* The bytes of a text are numbers.                                        *)
LEMMA BytesAre ==
  ASSUME NEW x \in Texts
  PROVE  Len(x) \in Nat /\ \A i \in 1..Len(x) : x[i] \in Nat
<1>1. Bytes \subseteq Nat
  BY DEF Bytes
<1> QED BY <1>1, LenProperties, ElementOfSeq DEF Texts

(* Of two texts at most one comes before the other.                        *)
LEMMA TextLessAsymmetric ==
  ASSUME NEW x \in Texts, NEW y \in Texts, TextLess(x, y)
  PROVE  ~TextLess(y, x)
<1>1. PICK j \in 1..Len(y) : Before(x, y, j)
  BY TextLessIs
<1> SUFFICES ASSUME NEW k \in 1..Len(x), Before(y, x, k) PROVE FALSE
  BY TextLessIs
<1> DEFINE m == Len(x)
           n == Len(y)
<1>2. m \in Nat /\ n \in Nat /\ (\A i \in 1..m : x[i] \in Nat) /\ \A i \in 1..n : y[i] \in Nat
  BY BytesAre
<1>3. /\ j \in 1..n /\ j <= m + 1 /\ (\A i \in 1..(j - 1) : x[i] = y[i]) /\ (j <= m => x[j] < y[j])
      /\ k \in 1..m /\ k <= n + 1 /\ (\A i \in 1..(k - 1) : y[i] = x[i]) /\ (k <= n => y[k] < x[k])
  BY <1>1 DEF Before
<1> HIDE DEF m, n
<1>4. CASE j < k
  <2>1. j \in 1..(k - 1) /\ j <= m /\ j \in 1..m
    BY <1>2, <1>3, <1>4
  <2>2. y[j] = x[j] /\ x[j] < y[j] /\ x[j] \in Nat
    BY <1>2, <1>3, <2>1
  <2> QED BY <2>2
<1>5. CASE k < j
  <2>1. k \in 1..(j - 1) /\ k <= n /\ k \in 1..n
    BY <1>2, <1>3, <1>5
  <2>2. x[k] = y[k] /\ y[k] < x[k] /\ y[k] \in Nat
    BY <1>2, <1>3, <2>1
  <2> QED BY <2>2
<1>6. CASE j = k
  <2>1. k \in 1..m /\ k \in 1..n /\ k <= m /\ k <= n
    BY <1>2, <1>3, <1>6
  <2>2. x[k] < y[k] /\ y[k] < x[k] /\ x[k] \in Nat /\ y[k] \in Nat
    BY <1>2, <1>3, <1>6, <2>1
  <2> QED BY <2>2
<1>7. j < k \/ k < j \/ j = k
  BY <1>2, <1>3
<1> QED BY <1>4, <1>5, <1>6, <1>7

(* What is before z, and not before y, has y before z.                     *)
LEMMA TextLessBetween ==
  ASSUME NEW x \in Texts, NEW y \in Texts, NEW z \in Texts, TextLess(x, z)
  PROVE  TextLess(x, y) \/ TextLess(y, z)
<1> DEFINE m == Len(x)
           n == Len(y)
           o == Len(z)
<1>1. PICK k \in 1..o : Before(x, z, k)
  BY TextLessIs
<1>2. /\ m \in Nat /\ n \in Nat /\ o \in Nat
      /\ \A i \in 1..m : x[i] \in Nat
      /\ \A i \in 1..n : y[i] \in Nat
      /\ \A i \in 1..o : z[i] \in Nat
  BY BytesAre
<1>3. k <= m + 1 /\ (\A i \in 1..(k - 1) : x[i] = z[i]) /\ (k <= m => x[k] < z[k])
  BY <1>1 DEF Before
<1> DEFINE S == {i \in 1..(k - 1) : i > n \/ y[i] # z[i]}
<1>4. CASE S = {}
  <2>1. \A i \in 1..(k - 1) : i <= n /\ y[i] = z[i] /\ y[i] = x[i]
    <3> TAKE i \in 1..(k - 1)
    <3>1. ~(i > n) /\ y[i] = z[i] /\ x[i] = z[i]
      BY <1>3, <1>4
    <3> HIDE DEF n
    <3> QED BY <1>2, <3>1
  <2>2. k <= n + 1
    <3> HIDE DEF n, S
    <3>1. k - 1 = 0 \/ k - 1 \in 1..(k - 1)
      BY <1>2
    <3>2. k - 1 \in 1..(k - 1) => k - 1 <= n
      BY <2>1
    <3>3. k - 1 <= n
      BY <1>2, <3>1, <3>2
    <3> QED BY <1>2, <3>3
  <2>3. CASE k <= n /\ (k <= m => x[k] < y[k])
    <3>1. k \in 1..n
      BY <1>2, <2>3
    <3>2. Before(x, y, k)
      BY <1>3, <2>1, <2>3, <3>1 DEF Before
    <3> QED BY <3>1, <3>2, TextLessIs
  <2>4. CASE k <= n => y[k] < z[k]
    <3>1. Before(y, z, k)
      BY <2>1, <2>2, <2>4 DEF Before
    <3> QED BY <3>1, TextLessIs
  <2>5. (k <= n /\ (k <= m => x[k] < y[k])) \/ (k <= n => y[k] < z[k])
    <3> SUFFICES ASSUME k <= n, k <= m, ~(x[k] < y[k]) PROVE y[k] < z[k]
      OBVIOUS
    <3>1. k \in 1..n /\ k \in 1..m
      BY <1>2
    <3>2. x[k] < z[k] /\ x[k] \in Nat /\ y[k] \in Nat /\ z[k] \in Nat /\ ~(x[k] < y[k])
      BY <1>2, <1>3, <3>1
    <3> QED BY <3>2
  <2> QED BY <2>3, <2>4, <2>5
<1>5. CASE S # {}
  <2> DEFINE j == Min(S)
  <2>1. j \in S /\ \A i \in S : j <= i
    <3>1. S \subseteq 1..(k - 1) /\ k - 1 \in Nat
      BY <1>2
    <3> HIDE DEF S
    <3>2. IsFiniteSet(S) /\ S \subseteq Nat
      <4>1. IsFiniteSet(S)
        BY <3>1, PartOfInterval
      <4>2. 1..(k - 1) \subseteq Nat
        OBVIOUS
      <4> QED BY <3>1, <4>1, <4>2
    <3> QED BY <1>5, <3>2, Extremes
  <2> HIDE DEF j
  <2>2. j \in 1..(k - 1) /\ (j > n \/ y[j] # z[j])
    BY <2>1
  <2>3. \A i \in 1..(j - 1) : i <= n /\ y[i] = z[i] /\ y[i] = x[i]
    <3> TAKE i \in 1..(j - 1)
    <3>1. i \in 1..(k - 1) /\ ~(j <= i)
      <4> HIDE DEF S
      <4> QED BY <1>2, <2>2
    <3>2. i \notin S
      BY <2>1, <3>1
    <3>3. ~(i > n) /\ y[i] = z[i] /\ x[i] = z[i]
      BY <1>3, <3>1, <3>2
    <3> HIDE DEF n
    <3> QED BY <1>2, <3>3
  <2>4. j <= n + 1 /\ j \in 1..o /\ j \in 1..m /\ j <= m
    <3> HIDE DEF n, m, o, S
    <3>1. j - 1 = 0 \/ j - 1 \in 1..(j - 1)
      BY <1>2, <2>2
    <3>2. j - 1 <= n
      BY <1>2, <2>2, <2>3, <3>1
    <3> QED BY <1>2, <1>3, <2>2, <3>2
  <2>5. x[j] = z[j]
    BY <1>3, <2>2
  <2>6. CASE j <= n /\ x[j] < y[j]
    <3>1. j \in 1..n
      BY <1>2, <2>4, <2>6
    <3>2. Before(x, y, j)
      BY <2>3, <2>4, <2>6, <3>1 DEF Before
    <3> QED BY <3>1, <3>2, TextLessIs
  <2>7. CASE j <= n => y[j] < z[j]
    <3>1. Before(y, z, j)
      BY <2>3, <2>4, <2>7 DEF Before
    <3> QED BY <2>4, <3>1, TextLessIs
  <2>8. (j <= n /\ x[j] < y[j]) \/ (j <= n => y[j] < z[j])
    <3> SUFFICES ASSUME j <= n, ~(x[j] < y[j]) PROVE y[j] < z[j]
      OBVIOUS
    <3>1. j \in 1..n /\ ~(j > n)
      BY <1>2, <2>4
    <3>2. y[j] # z[j] /\ x[j] = z[j] /\ y[j] \in Nat /\ z[j] \in Nat /\ ~(x[j] < y[j])
      BY <1>2, <2>2, <2>4, <2>5, <3>1
    <3> QED BY <3>2
  <2> QED BY <2>6, <2>7, <2>8
<1> QED BY <1>4, <1>5

-----------------------------------------------------------------------------
(* sort.                                                                   *)

(* A line is placed after the last one that it is not less than.           *)
LEMMA PlaceIs ==
  ASSUME NEW s \in Seq(Texts), NEW line \in Texts, NEW numeric
  PROVE  \E p \in 0..Len(s) :
           LET u == SubSeq(s, 1, p)
               v == SubSeq(s, p + 1, Len(s))
           IN  /\ u \in Seq(Texts) /\ v \in Seq(Texts) /\ s = u \o v /\ Len(u) = p /\ Len(v) = Len(s) - p
               /\ \A k \in 1..p : u[k] = s[k]
               /\ \A k \in 1..(Len(s) - p) : v[k] = s[p + k]
               /\ Place(s, line, numeric) = (u \o <<line>>) \o v
               /\ \A k \in (p + 1)..Len(s) : Less(line, s[k], numeric)
               /\ p # 0 => ~Less(line, s[p], numeric)
<1> DEFINE n == Len(s)
           S == {0} \cup {k \in DOMAIN s : ~Less(line, s[k], numeric)}
           p == Max(S)
           u == SubSeq(s, 1, p)
           v == SubSeq(s, p + 1, n)
<1>1. n \in Nat /\ DOMAIN s = 1..n
  BY LenProperties
<1>2. p \in S /\ \A k \in S : k <= p
  <2> DEFINE B == {k \in DOMAIN s : ~Less(line, s[k], numeric)}
  <2>1. B \subseteq 1..n
    BY <1>1
  <2> HIDE DEF B, n
  <2>2. IsFiniteSet(B) /\ B \subseteq Nat
    <3>1. IsFiniteSet(B)
      BY <1>1, <2>1, PartOfInterval
    <3>2. 1..n \subseteq Nat
      BY <1>1
    <3> QED BY <2>1, <3>1, <3>2
  <2> DEFINE C == {0} \cup B
  <2>3. IsFiniteSet(C) /\ C \subseteq Nat /\ C # {}
    <3>1. C = B \cup {0}
      OBVIOUS
    <3>2. IsFiniteSet(B \cup {0})
      BY <2>2, FS_AddElement
    <3>3. C \subseteq Nat
      BY <2>2
    <3>4. C # {}
      OBVIOUS
    <3> HIDE DEF C
    <3> QED BY <3>1, <3>2, <3>3, <3>4
  <2>4. S = C
    BY DEF B
  <2> HIDE DEF C, S
  <2>5. Max(C) \in C /\ \A k \in C : k <= Max(C)
    BY <2>3, Extremes
  <2> QED BY <2>4, <2>5
<1>3. p \in 0..n /\ (p # 0 => ~Less(line, s[p], numeric))
  <2> HIDE DEF p
  <2>1. p = 0 \/ (p \in 1..n /\ ~Less(line, s[p], numeric))
    BY <1>1, <1>2
  <2> QED BY <1>1, <2>1
<1>4. \A k \in (p + 1)..n : Less(line, s[k], numeric)
  <2> HIDE DEF p
  <2> TAKE k \in (p + 1)..n
  <2>1. k \in 1..n /\ ~(k <= p)
    BY <1>1, <1>3
  <2>2. k \notin S
    BY <1>2, <2>1
  <2> QED BY <1>1, <2>1, <2>2
<1>5. Place(s, line, numeric) = (u \o <<line>>) \o v
  <2>1. Place(s, line, numeric) = InsertAt(s, p + 1, line)
    BY DEF Place
  <2> HIDE DEF p, n
  <2>2. InsertAt(s, p + 1, line) = SubSeq(s, 1, (p + 1) - 1) \o <<line>> \o SubSeq(s, p + 1, n)
    BY DEF InsertAt, n
  <2>3. (p + 1) - 1 = p
    BY <1>1, <1>3
  <2> QED BY <2>1, <2>2, <2>3
<1> HIDE DEF p, S
<1>6. u \in Seq(Texts) /\ Len(u) = p /\ \A k \in 1..p : u[k] = s[k]
  BY <1>1, <1>3, Beginnings DEF Upto
<1>7. v \in Seq(Texts) /\ Len(v) = n - p /\ \A k \in 1..(n - p) : v[k] = s[p + k]
  <2> DEFINE a == p + 1
  <2>1. a \in 1..(n + 1) /\ (IF a <= n THEN n - a + 1 ELSE 0) = n - p /\ n - a + 1 = n - p
    <3>1. p \in 0..n /\ n \in Nat /\ p \in Nat
      BY <1>1, <1>3
    <3> HIDE DEF n, v
    <3>2. a \in 1..(n + 1)
      BY <3>1
    <3>3. n - a + 1 = n - p
      BY <3>1
    <3>4. ~(a <= n) => n - p = 0
      BY <3>1
    <3> QED BY <3>2, <3>3, <3>4
  <2>2. \A k \in 1..(n - p) : a + k - 1 = p + k
    BY <1>1, <1>3
  <2> HIDE DEF a
  <2>3. /\ SubSeq(s, a, n) \in Seq(Texts)
        /\ Len(SubSeq(s, a, n)) = IF a <= n THEN n - a + 1 ELSE 0
        /\ \A k \in 1..(n - a + 1) : SubSeq(s, a, n)[k] = s[a + k - 1]
    BY <1>1, <2>1, SubSeqProperties
  <2>4. v = SubSeq(s, a, n)
    BY DEF a
  <2> HIDE DEF v
  <2> QED BY <2>1, <2>2, <2>3, <2>4
<1> HIDE DEF u, v
<1>8. s = u \o v
  <2>1. /\ u \o v \in Seq(Texts) /\ Len(u \o v) = Len(u) + Len(v)
        /\ \A i \in 1..Len(u) : (u \o v)[i] = u[i]
        /\ \A i \in 1..Len(v) : (u \o v)[Len(u) + i] = v[i]
    <3>1. u \in Seq(Texts) /\ v \in Seq(Texts)
      BY <1>6, <1>7
    <3> QED BY <3>1, ConcatIs
  <2>2. Len(u \o v) = n
    <3>1. p + (n - p) = n
      BY <1>1, <1>3
    <3> QED BY <1>6, <1>7, <2>1, <3>1
  <2>3. ASSUME NEW i \in 1..n PROVE (u \o v)[i] = s[i]
    <3>1. CASE i \in 1..p
      BY <1>6, <2>1, <3>1
    <3>2. CASE i \in (p + 1)..n
      <4>1. i - p \in 1..(n - p) /\ p + (i - p) = i
        BY <1>1, <1>3, <3>2
      <4>2. (u \o v)[p + (i - p)] = v[i - p] /\ v[i - p] = s[p + (i - p)]
        BY <1>6, <1>7, <2>1, <4>1
      <4> QED BY <4>1, <4>2
    <3>3. i \in 1..p \/ i \in (p + 1)..n
      BY <1>1, <1>3
    <3> QED BY <3>1, <3>2, <3>3
  <2> QED BY <2>1, <2>2, <2>3, SeqEqual DEF n
<1> QED BY <1>3, <1>4, <1>5, <1>6, <1>7, <1>8 DEF u, v, n

(* Placing a line keeps the order of lines none of which is less.          *)
LEMMA PlaceKeeps ==
  ASSUME NEW s \in Seq(Texts), NEW line \in Texts, NEW numeric,
         NEW K, \A x, y \in K : ~Less(x, y, numeric)
  PROVE  /\ Place(s, line, numeric) \in Seq(Texts)
         /\ Chosen(Place(s, line, numeric), K) = Chosen(Append(s, line), K)
<1>1. PICK p \in 0..Len(s) :
           LET u == SubSeq(s, 1, p)
               v == SubSeq(s, p + 1, Len(s))
           IN  /\ u \in Seq(Texts) /\ v \in Seq(Texts) /\ s = u \o v /\ Len(u) = p /\ Len(v) = Len(s) - p
               /\ \A k \in 1..p : u[k] = s[k]
               /\ \A k \in 1..(Len(s) - p) : v[k] = s[p + k]
               /\ Place(s, line, numeric) = (u \o <<line>>) \o v
               /\ \A k \in (p + 1)..Len(s) : Less(line, s[k], numeric)
               /\ p # 0 => ~Less(line, s[p], numeric)
  BY PlaceIs
<1> DEFINE n == Len(s)
           u == SubSeq(s, 1, p)
           v == SubSeq(s, p + 1, n)
<1>2. /\ u \in Seq(Texts) /\ v \in Seq(Texts) /\ s = u \o v /\ Len(v) = n - p
      /\ Place(s, line, numeric) = (u \o <<line>>) \o v
      /\ \A k \in 1..(n - p) : v[k] = s[p + k]
      /\ \A k \in (p + 1)..n : Less(line, s[k], numeric)
  BY <1>1
<1>3. n \in Nat /\ p \in 0..n
  BY <1>1, LenProperties
<1> HIDE DEF u, v, n
<1>4. \A k \in 1..Len(v) : Less(line, v[k], numeric)
  <2> TAKE k \in 1..Len(v)
  <2>1. k \in 1..(n - p) /\ p + k \in (p + 1)..n
    BY <1>2, <1>3
  <2> QED BY <1>2, <2>1
<1>5. u \o <<line>> = Append(u, line) /\ Append(u, line) \in Seq(Texts)
  BY <1>2, AppendIsConcat, AppendProperties
<1>6. Place(s, line, numeric) = Append(u, line) \o v /\ Append(u, line) \o v \in Seq(Texts)
  BY <1>2, <1>5, ConcatProperties
<1>7. Chosen(Append(u, line) \o v, K) = Chosen(Append(u, line), K) \o Chosen(v, K)
  <2>1. \A a, b \in Seq(Texts) : Chosen(a \o b, K) = Chosen(a, K) \o Chosen(b, K)
    BY ChosenConcat
  <2> QED BY <1>2, <1>5, <2>1
<1>8. Chosen(s, K) = Chosen(u, K) \o Chosen(v, K)
  BY <1>2, ChosenConcat
<1>9. /\ Chosen(Append(s, line), K) = IF line \in K THEN Append(Chosen(s, K), line) ELSE Chosen(s, K)
      /\ Chosen(Append(u, line), K) = IF line \in K THEN Append(Chosen(u, K), line) ELSE Chosen(u, K)
  <2>1. \A a \in Seq(Texts) : Chosen(Append(a, line), K) = IF line \in K THEN Append(Chosen(a, K), line) ELSE Chosen(a, K)
    BY ChosenStep
  <2> QED BY <1>2, <2>1
<1>10. CASE line \notin K
  BY <1>6, <1>7, <1>8, <1>9, <1>10
<1>11. CASE line \in K
  <2>1. \A k \in 1..Len(v) : v[k] \notin K
    BY <1>4, <1>11
  <2>2. Chosen(v, K) = << >>
    BY <1>2, <2>1, ChosenNone
  <2>3. Chosen(u, K) \in Seq(Texts)
    BY <1>2, ChosenType
  <2>4. Chosen(u, K) \o << >> = Chosen(u, K) /\ Append(Chosen(u, K), line) \in Seq(Texts)
    BY <2>3, ConcatEmptySeq, AppendProperties
  <2>5. Append(Chosen(u, K), line) \o << >> = Append(Chosen(u, K), line)
    BY <2>4, ConcatEmptySeq
  <2> QED BY <1>6, <1>7, <1>8, <1>9, <1>11, <2>2, <2>4, <2>5
<1> QED BY <1>6, <1>10, <1>11

(* Whether the comparison is an order of the lines of G.                   *)
Orders(G, numeric) ==
  /\ \A x, y \in G : Less(x, y, numeric) => ~Less(y, x, numeric)
  /\ \A x, y, z \in G : Less(x, z, numeric) => Less(x, y, numeric) \/ Less(y, z, numeric)

Ordered(s, numeric) == \A j \in 1..Len(s) : \A i \in 1..(j - 1) : ~Less(s[j], s[i], numeric)

(* Placing a line keeps sorted lines sorted, where the comparison is an    *)
(* order.                                                                  *)
LEMMA PlaceOrders ==
  ASSUME NEW s \in Seq(Texts), NEW line \in Texts, NEW numeric,
         NEW G, line \in G, \A k \in 1..Len(s) : s[k] \in G,
         Orders(G, numeric), Ordered(s, numeric)
  PROVE  /\ Ordered(Place(s, line, numeric), numeric)
         /\ Len(Place(s, line, numeric)) = Len(s) + 1
         /\ \A k \in 1..(Len(s) + 1) : Place(s, line, numeric)[k] \in G
<1>1. PICK p \in 0..Len(s) :
           LET u == SubSeq(s, 1, p)
               v == SubSeq(s, p + 1, Len(s))
           IN  /\ u \in Seq(Texts) /\ v \in Seq(Texts) /\ s = u \o v /\ Len(u) = p /\ Len(v) = Len(s) - p
               /\ \A k \in 1..p : u[k] = s[k]
               /\ \A k \in 1..(Len(s) - p) : v[k] = s[p + k]
               /\ Place(s, line, numeric) = (u \o <<line>>) \o v
               /\ \A k \in (p + 1)..Len(s) : Less(line, s[k], numeric)
               /\ p # 0 => ~Less(line, s[p], numeric)
  BY PlaceIs
<1> DEFINE n == Len(s)
           u == SubSeq(s, 1, p)
           v == SubSeq(s, p + 1, n)
           w == Append(u, line)
           r == Place(s, line, numeric)
<1>2. /\ u \in Seq(Texts) /\ v \in Seq(Texts) /\ Len(u) = p /\ Len(v) = n - p
      /\ r = (u \o <<line>>) \o v
      /\ \A k \in 1..p : u[k] = s[k]
      /\ \A k \in 1..(n - p) : v[k] = s[p + k]
      /\ \A k \in (p + 1)..n : Less(line, s[k], numeric)
      /\ p # 0 => ~Less(line, s[p], numeric)
  BY <1>1
<1>3. n \in Nat /\ p \in 0..n /\ p \in Nat
  BY <1>1, LenProperties
<1> HIDE DEF u, v, n, r
<1>4. /\ u \o <<line>> = w /\ w \in Seq(Texts) /\ Len(w) = p + 1 /\ w[p + 1] = line
      /\ \A k \in 1..p : w[k] = u[k]
  BY <1>2, AppendIsConcat, AppendProperties
<1> HIDE DEF w
<1>5. /\ Len(r) = n + 1 /\ r[p + 1] = line
      /\ \A k \in 1..p : r[k] = s[k]
      /\ \A k \in (p + 2)..(n + 1) : r[k] = s[k - 1]
  <2>1. r = w \o v
    BY <1>2, <1>4
  <2>2. /\ Len(w \o v) = Len(w) + Len(v)
        /\ \A k \in 1..Len(w) : (w \o v)[k] = w[k]
        /\ \A k \in 1..Len(v) : (w \o v)[Len(w) + k] = v[k]
    <3>1. w \in Seq(Texts) /\ v \in Seq(Texts)
      BY <1>2, <1>4
    <3> QED BY <3>1, ConcatIs
  <2>3. Len(w) = p + 1 /\ Len(v) = n - p /\ (p + 1) + (n - p) = n + 1
    BY <1>2, <1>3, <1>4
  <2>4. Len(r) = n + 1
    BY <2>1, <2>2, <2>3
  <2>5. r[p + 1] = line
    <3>1. p + 1 \in 1..(p + 1)
      BY <1>3
    <3> QED BY <1>4, <2>1, <2>2, <2>3, <3>1
  <2>6. ASSUME NEW k \in 1..p PROVE r[k] = s[k]
    <3>1. k \in 1..(p + 1)
      BY <1>3
    <3> QED BY <1>2, <1>4, <2>1, <2>2, <2>3, <3>1
  <2>7. ASSUME NEW k \in (p + 2)..(n + 1) PROVE r[k] = s[k - 1]
    <3> DEFINE j == k - (p + 1)
    <3>1. j \in 1..(n - p) /\ (p + 1) + j = k /\ p + j = k - 1
      BY <1>3
    <3> HIDE DEF j
    <3>2. r[(p + 1) + j] = v[j] /\ v[j] = s[p + j]
      BY <1>2, <2>1, <2>2, <2>3, <3>1
    <3> QED BY <3>1, <3>2
  <2> QED BY <2>4, <2>5, <2>6, <2>7
<1>6. \A k \in 1..n : s[k] \in G
  BY DEF n
<1>7. /\ \A x, y \in G : Less(x, y, numeric) => ~Less(y, x, numeric)
      /\ \A x, y, z \in G : Less(x, z, numeric) => Less(x, y, numeric) \/ Less(y, z, numeric)
  BY DEF Orders
<1>8. \A j \in 1..n : \A i \in 1..(j - 1) : ~Less(s[j], s[i], numeric)
  BY DEF Ordered, n
<1>9. ASSUME NEW i \in 1..p PROVE ~Less(line, s[i], numeric)
  <2>1. p # 0 /\ p \in 1..n /\ i \in 1..n
    BY <1>3
  <2>2. ~Less(line, s[p], numeric) /\ s[p] \in G /\ s[i] \in G
    BY <1>2, <1>6, <2>1
  <2>3. CASE i = p
    BY <2>2, <2>3
  <2>4. CASE i # p
    <3>1. i \in 1..(p - 1)
      BY <1>3, <2>4
    <3>2. ~Less(s[p], s[i], numeric)
      BY <1>8, <2>1, <3>1
    <3> QED BY <1>7, <2>2, <3>2
  <2> QED BY <2>3, <2>4
<1>10. ASSUME NEW j \in 1..(n + 1), NEW i \in 1..(j - 1)
       PROVE  ~Less(r[j], r[i], numeric)
  <2>1. CASE j \in 1..p
    <3>1. i \in 1..p /\ j \in 1..n
      BY <1>3, <2>1
    <3> QED BY <1>5, <1>8, <2>1, <3>1
  <2>2. CASE j = p + 1
    <3>1. i \in 1..p
      BY <1>3, <2>2
    <3> QED BY <1>5, <1>9, <2>2, <3>1
  <2>3. CASE j \in (p + 2)..(n + 1)
    <3>1. j - 1 \in (p + 1)..n /\ j - 1 \in 1..n
      BY <1>3, <2>3
    <3>2. r[j] = s[j - 1]
      BY <1>5, <2>3
    <3>3. CASE i \in 1..p
      <4>1. i \in 1..((j - 1) - 1)
        BY <1>3, <2>3, <3>3
      <4> QED BY <1>5, <1>8, <3>1, <3>2, <3>3, <4>1
    <3>4. CASE i = p + 1
      <4>1. Less(line, s[j - 1], numeric) /\ s[j - 1] \in G
        BY <1>2, <1>6, <3>1
      <4> QED BY <1>5, <1>7, <3>2, <3>4, <4>1
    <3>5. CASE i \in (p + 2)..(n + 1)
      <4>1. i - 1 \in 1..((j - 1) - 1)
        BY <1>3, <2>3, <3>5
      <4>2. r[i] = s[i - 1]
        BY <1>5, <3>5
      <4> QED BY <1>8, <3>1, <3>2, <4>1, <4>2
    <3>6. i \in 1..p \/ i = p + 1 \/ i \in (p + 2)..(n + 1)
      BY <1>3
    <3> QED BY <3>3, <3>4, <3>5, <3>6
  <2>4. j \in 1..p \/ j = p + 1 \/ j \in (p + 2)..(n + 1)
    BY <1>3
  <2> QED BY <2>1, <2>2, <2>3, <2>4
<1>11. ASSUME NEW k \in 1..(n + 1) PROVE r[k] \in G
  <2>1. k \in 1..p \/ k = p + 1 \/ k \in (p + 2)..(n + 1)
    BY <1>3
  <2>2. CASE k \in 1..p
    <3>1. k \in 1..n
      BY <1>3, <2>2
    <3> QED BY <1>5, <1>6, <2>2, <3>1
  <2>3. CASE k = p + 1
    BY <1>5, <2>3
  <2>4. CASE k \in (p + 2)..(n + 1)
    <3>1. k - 1 \in 1..n
      BY <1>3, <2>4
    <3> QED BY <1>5, <1>6, <2>4, <3>1
  <2> QED BY <2>1, <2>2, <2>3, <2>4
<1>12. Ordered(r, numeric)
  BY <1>5, <1>10 DEF Ordered
<1> QED BY <1>5, <1>11, <1>12 DEF r, n

(* Numbers have the order of their values, other lines that of their text. *)
LEMMA LessOrders ==
  ASSUME NEW G, G \subseteq Texts, NEW numeric \in BOOLEAN,
         \/ numeric /\ \A x \in G : IsNumber(TrimSpace(x)) /\ Value(TrimSpace(x)) \in Nat
         \/ ~numeric
         \/ \A x \in G : ~IsNumber(TrimSpace(x))
  PROVE  Orders(G, numeric)
<1>1. CASE numeric /\ \A x \in G : IsNumber(TrimSpace(x)) /\ Value(TrimSpace(x)) \in Nat
  <2>1. \A x, y \in G : /\ Less(x, y, numeric) <=> Value(TrimSpace(x)) < Value(TrimSpace(y))
                        /\ Value(TrimSpace(x)) \in Nat /\ Value(TrimSpace(y)) \in Nat
    BY <1>1 DEF Less
  <2>2. ASSUME NEW x \in G, NEW y \in G, Less(x, y, numeric)
        PROVE  ~Less(y, x, numeric)
    <3> DEFINE a == Value(TrimSpace(x))
               b == Value(TrimSpace(y))
    <3>1. a \in Nat /\ b \in Nat /\ a < b /\ (Less(y, x, numeric) <=> b < a)
      BY <2>1, <2>2
    <3> HIDE DEF a, b
    <3> QED BY <3>1
  <2>3. ASSUME NEW x \in G, NEW y \in G, NEW z \in G, Less(x, z, numeric)
        PROVE  Less(x, y, numeric) \/ Less(y, z, numeric)
    <3> DEFINE a == Value(TrimSpace(x))
               b == Value(TrimSpace(y))
               c == Value(TrimSpace(z))
    <3>1. /\ a \in Nat /\ b \in Nat /\ c \in Nat /\ a < c
          /\ (Less(x, y, numeric) <=> a < b) /\ (Less(y, z, numeric) <=> b < c)
      BY <2>1, <2>3
    <3> HIDE DEF a, b, c
    <3> QED BY <3>1
  <2> QED BY <2>2, <2>3 DEF Orders
<1>2. CASE ~numeric \/ \A x \in G : ~IsNumber(TrimSpace(x))
  <2>1. \A x, y \in G : Less(x, y, numeric) <=> TextLess(x, y)
    BY <1>2 DEF Less
  <2>2. \A x, y \in G : TextLess(x, y) => ~TextLess(y, x)
    BY TextLessAsymmetric
  <2>3. \A x, y, z \in G : TextLess(x, z) => TextLess(x, y) \/ TextLess(y, z)
    BY TextLessBetween
  <2> QED BY <2>1, <2>2, <2>3 DEF Orders
<1> QED BY <1>1, <1>2

(* The lines in the order that sort gives them, placed one after another.  *)
SortedLines(lines, numeric) ==
  LET upto[i \in 0..Len(lines)] == IF i = 0 THEN << >> ELSE Place(upto[i - 1], lines[i], numeric)
  IN  upto[Len(lines)]

(* Placing a line gives lines.                                             *)
LEMMA PlaceType ==
  ASSUME NEW s \in Seq(Texts), NEW line \in Texts, NEW numeric
  PROVE  Place(s, line, numeric) \in Seq(Texts)
<1> DEFINE K == {}
<1>1. \A x, y \in K : ~Less(x, y, numeric)
  OBVIOUS
<1> HIDE DEF K
<1> QED BY <1>1, PlaceKeeps

(* Sort places one line after another.                                     *)
LEMMA SortLoop ==
  ASSUME NEW lines \in Seq(Texts), NEW numeric
  PROVE  \E f \in [0..Len(lines) -> Seq(Texts)] :
           /\ f[0] = << >> /\ \A i \in 1..Len(lines) : f[i] = Place(f[i - 1], lines[i], numeric)
           /\ SortedLines(lines, numeric) = f[Len(lines)]
<1> DEFINE n == Len(lines)
           Rec(h) == h = [i \in 0..n |-> IF i = 0 THEN << >> ELSE Place(h[i - 1], lines[i], numeric)]
           upto == CHOOSE h : Rec(h)
           step == [i \in 1..n |-> [s \in Seq(Texts) |-> Place(s, lines[i], numeric)]]
<1>1. n \in Nat /\ \A i \in 1..n : lines[i] \in Texts
  BY ElementOfSeq, LenProperties
<1>2. << >> \in Seq(Texts)
  OBVIOUS
<1>3. PICK f : LoopComputes(f, n, Seq(Texts), << >>, step)
  <2>1. \A i \in 1..n, s \in Seq(Texts) : Place(s, lines[i], numeric) \in Seq(Texts)
    BY <1>1, PlaceType
  <2>2. step \in [1..n -> [Seq(Texts) -> Seq(Texts)]]
    BY <2>1
  <2> HIDE DEF step, n
  <2> QED BY <1>1, <1>2, <2>2, LoopExists
<1>4. f \in [0..n -> Seq(Texts)] /\ f[0] = << >>
  BY <1>3 DEF LoopComputes
<1>5. SortedLines(lines, numeric) = upto[n]
  BY DEF SortedLines
<1> HIDE DEF n
<1>6. ASSUME NEW i \in 1..n PROVE f[i] = Place(f[i - 1], lines[i], numeric)
  <2>1. i - 1 \in 0..n
    BY <1>1
  <2>2. f[i - 1] \in Seq(Texts)
    BY <1>4, <2>1
  <2>3. f[i] = step[i][f[i - 1]]
    BY <1>3 DEF LoopComputes
  <2> QED BY <2>2, <2>3
<1>7. Rec(f)
  <2>1. f = [i \in 0..n |-> f[i]]
    BY <1>4
  <2>2. \A i \in 0..n : f[i] = IF i = 0 THEN << >> ELSE Place(f[i - 1], lines[i], numeric)
    <3> TAKE i \in 0..n
    <3>1. i = 0 \/ i \in 1..n
      BY <1>1
    <3> QED BY <1>4, <1>6, <3>1
  <2> QED BY <2>1, <2>2
<1>8. Rec(upto)
  <2> HIDE DEF Rec
  <2> QED BY <1>7
<1> HIDE DEF upto
<1>9. \A i \in 0..n : upto[i] = IF i = 0 THEN << >> ELSE Place(upto[i - 1], lines[i], numeric)
  BY <1>8
<1>10. upto[n] = f[n]
  <2> DEFINE S == {i \in 0..n : upto[i] = f[i]}
  <2>1. 0 \in S
    <3>1. 0 \in 0..n
      BY <1>1
    <3> QED BY <1>4, <1>9, <3>1
  <2>2. ASSUME NEW i \in 1..n, i - 1 \in S PROVE i \in S
    <3>1. i \in 0..n /\ i # 0 /\ upto[i - 1] = f[i - 1]
      BY <1>1, <2>2
    <3> QED BY <1>6, <1>9, <3>1
  <2>3. 0..n \subseteq S
    <3> HIDE DEF S
    <3> QED BY <1>1, <2>1, <2>2, IntervalInduction
  <2>4. n \in 0..n
    BY <1>1
  <2> QED BY <2>3, <2>4
<1>11. SortedLines(lines, numeric) = f[n]
  BY <1>5, <1>10
<1> QED BY <1>4, <1>6, <1>11 DEF n

(* Sorting keeps, of lines none of which is less than another, all in      *)
(* their order; and it sorts where the comparison is an order.             *)
LEMMA SortedIs ==
  ASSUME NEW lines \in Seq(Texts), NEW numeric
  PROVE  LET sorted == SortedLines(lines, numeric)
         IN  /\ sorted \in Seq(Texts)
             /\ \A K : (\A x, y \in K : ~Less(x, y, numeric)) => Chosen(sorted, K) = Chosen(lines, K)
             /\ \A G : (\A k \in 1..Len(lines) : lines[k] \in G) /\ Orders(G, numeric) => Ordered(sorted, numeric)
<1> DEFINE n == Len(lines)
           sorted == SortedLines(lines, numeric)
<1>1. PICK f \in [0..n -> Seq(Texts)] :
           /\ f[0] = << >> /\ \A i \in 1..n : f[i] = Place(f[i - 1], lines[i], numeric)
           /\ sorted = f[n]
  BY SortLoop
<1>2. n \in Nat /\ \A i \in 1..n : lines[i] \in Texts
  BY ElementOfSeq, LenProperties
<1>3. /\ Upto(lines, 0) = << >> /\ Upto(lines, n) = lines
      /\ \A i \in 0..n : Upto(lines, i) \in Seq(Texts)
      /\ \A i \in 1..n : Upto(lines, i) = Append(Upto(lines, i - 1), lines[i])
  BY Beginnings
<1> HIDE DEF n, sorted
<1>4. n \in 0..n /\ 0 \in 0..n /\ \A i \in 1..n : i \in 0..n /\ i - 1 \in 0..n
  BY <1>2
<1>5. ASSUME NEW K, \A x, y \in K : ~Less(x, y, numeric)
      PROVE  Chosen(sorted, K) = Chosen(lines, K)
  <2> DEFINE S == {i \in 0..n : Chosen(f[i], K) = Chosen(Upto(lines, i), K)}
  <2>1. 0 \in S
    BY <1>1, <1>3, <1>4
  <2>2. ASSUME NEW i \in 1..n, i - 1 \in S PROVE i \in S
    <3> DEFINE s == f[i - 1]
               t == Upto(lines, i - 1)
               e == lines[i]
    <3>1. s \in Seq(Texts) /\ t \in Seq(Texts) /\ e \in Texts /\ Chosen(s, K) = Chosen(t, K)
      BY <1>1, <1>2, <1>3, <1>4, <2>2
    <3>2. f[i] = Place(s, e, numeric) /\ Upto(lines, i) = Append(t, e)
      BY <1>1, <1>3
    <3> HIDE DEF s, t, e
    <3>3. Chosen(Place(s, e, numeric), K) = Chosen(Append(s, e), K)
      BY <1>5, <3>1, PlaceKeeps
    <3>4. \A a \in Seq(Texts) : Chosen(Append(a, e), K) = IF e \in K THEN Append(Chosen(a, K), e) ELSE Chosen(a, K)
      BY <3>1, ChosenStep
    <3>5. Chosen(Append(s, e), K) = Chosen(Append(t, e), K)
      BY <3>1, <3>4
    <3> QED BY <1>4, <3>2, <3>3, <3>5
  <2>3. 0..n \subseteq S
    <3> HIDE DEF S
    <3> QED BY <1>2, <2>1, <2>2, IntervalInduction
  <2>4. n \in S
    BY <1>4, <2>3
  <2> QED BY <1>1, <1>3, <2>4
<1>6. ASSUME NEW G, \A k \in 1..n : lines[k] \in G, Orders(G, numeric)
      PROVE  Ordered(sorted, numeric)
  <2> DEFINE S == {i \in 0..n : Ordered(f[i], numeric) /\ \A k \in 1..Len(f[i]) : f[i][k] \in G}
  <2>1. 0 \in S
    <3>1. Len(<< >>) = 0 /\ 1..0 = {}
      OBVIOUS
    <3>2. Ordered(<< >>, numeric) /\ \A k \in 1..Len(<< >>) : << >>[k] \in G
      BY <3>1 DEF Ordered
    <3> QED BY <1>1, <1>4, <3>2
  <2>2. ASSUME NEW i \in 1..n, i - 1 \in S PROVE i \in S
    <3> DEFINE s == f[i - 1]
               e == lines[i]
               r == Place(s, e, numeric)
    <3>1. /\ s \in Seq(Texts) /\ e \in Texts /\ e \in G /\ Ordered(s, numeric)
          /\ \A k \in 1..Len(s) : s[k] \in G
      BY <1>1, <1>2, <1>4, <1>6, <2>2
    <3>2. f[i] = r
      BY <1>1
    <3> HIDE DEF s, e
    <3>3. /\ Ordered(r, numeric) /\ Len(r) = Len(s) + 1
          /\ \A k \in 1..(Len(s) + 1) : r[k] \in G
      BY <1>6, <3>1, PlaceOrders
    <3> HIDE DEF r
    <3> QED BY <1>4, <3>2, <3>3
  <2>3. 0..n \subseteq S
    <3> HIDE DEF S
    <3> QED BY <1>2, <2>1, <2>2, IntervalInduction
  <2>4. n \in S
    BY <1>4, <2>3
  <2> QED BY <1>1, <2>4
<1>7. sorted \in Seq(Texts)
  BY <1>1, <1>4
<1> QED BY <1>5, <1>6, <1>7 DEF n, sorted

(* A trimmed line is a text.                                               *)
LEMMA TrimType ==
  ASSUME NEW line \in Texts
  PROVE  TrimSpace(line) \in Texts
<1> DEFINE solid == {i \in DOMAIN line : line[i] # SPACE}
           n == Len(line)
<1>1. n \in Nat /\ DOMAIN line = 1..n /\ line \in Seq(Bytes)
  BY LenProperties DEF Texts
<1>2. CASE solid = {}
  BY <1>2 DEF TrimSpace, Texts
<1>3. CASE solid # {}
  <2>1. solid \subseteq 1..n
    BY <1>1
  <2>2. TrimSpace(line) = SubSeq(line, Min(solid), Max(solid))
    BY <1>3 DEF TrimSpace
  <2> HIDE DEF solid, n
  <2>3. IsFiniteSet(solid) /\ solid \subseteq Nat
    <3>1. IsFiniteSet(solid)
      BY <1>1, <2>1, PartOfInterval
    <3>2. 1..n \subseteq Nat
      BY <1>1
    <3> QED BY <2>1, <3>1, <3>2
  <2>4. Min(solid) \in solid /\ Max(solid) \in solid
    BY <1>3, <2>3, Extremes
  <2> DEFINE a == Min(solid)
             b == Max(solid)
  <2>5. a \in 1..n /\ b \in 1..n
    BY <2>1, <2>4
  <2> HIDE DEF a, b
  <2>6. a \in 1..(n + 1) /\ b \in 0..n
    BY <1>1, <2>5
  <2>7. SubSeq(line, a, b) \in Seq(Bytes)
    <3>1. \A k \in a..b : line[k] \in Bytes
      <4>1. \A k \in a..b : k \in 1..n
        BY <1>1, <2>5
      <4> QED BY <1>1, <4>1, ElementOfSeq DEF n
    <3> QED BY <1>1, <2>5, <3>1, SubSeqProperties DEF n
  <2> QED BY <2>2, <2>7 DEF a, b, Texts
<1> QED BY <1>2, <1>3

(* A line that is a number has a value.                                    *)
LEMMA ValueOfLine ==
  ASSUME NEW line \in Texts, IsNumber(TrimSpace(line))
  PROVE  Value(TrimSpace(line)) \in Nat
BY TrimType, NumberTypes

(* No line is less than itself.                                            *)
LEMMA LessIrreflexive ==
  ASSUME NEW x \in Texts, NEW numeric
  PROVE  ~Less(x, x, numeric)
<1>1. ~TextLess(x, x)
  BY TextLessAsymmetric
<1>2. CASE numeric /\ IsNumber(TrimSpace(x))
  <2> DEFINE v == Value(TrimSpace(x))
  <2>1. v \in Nat
    BY <1>2, ValueOfLine
  <2>2. Less(x, x, numeric) <=> v < v
    BY <1>2 DEF Less
  <2> HIDE DEF v
  <2> QED BY <2>1, <2>2
<1>3. CASE ~(numeric /\ IsNumber(TrimSpace(x)))
  BY <1>1, <1>3 DEF Less
<1> QED BY <1>2, <1>3

(* How often x is in s.                                                    *)
LEMMA ChosenCounts ==
  ASSUME NEW s \in Seq(Texts), NEW x
  PROVE  LET S == {i \in DOMAIN s : s[i] = x}
         IN  Cardinality(S) = Len(Chosen(s, {x})) /\ IsFiniteSet(S) /\ (S = {} <=> Cardinality(S) = 0)
<1> DEFINE S == {i \in DOMAIN s : s[i] = x}
<1>1. S = {i \in DOMAIN s : s[i] \in {x}}
  OBVIOUS
<1>2. S \subseteq 1..Len(s) /\ Len(s) \in Nat
  BY LenProperties
<1>3. Chosen(s, {x}) = ElementsAt(s, S)
  BY <1>1 DEF Chosen
<1> HIDE DEF S
<1>4. Len(ElementsAt(s, S)) = Cardinality(S)
  BY <1>2, ElementsAtIs
<1>5. IsFiniteSet(S)
  BY <1>2, PartOfInterval
<1>6. S = {} <=> Cardinality(S) = 0
  BY <1>5, FS_EmptySet
<1> QED BY <1>3, <1>4, <1>5, <1>6 DEF S

(* Sequences with the same occurrences of each text have the same bag.     *)
LEMMA SameBag ==
  ASSUME NEW s \in Seq(Texts), NEW t \in Seq(Texts), \A x \in Texts : Chosen(s, {x}) = Chosen(t, {x})
  PROVE  ToBag(s) = ToBag(t) /\ ToSet(s) = ToSet(t)
<1> DEFINE In(q, x) == {i \in DOMAIN q : q[i] = x}
<1>1. \A x \in Texts : Cardinality(In(s, x)) = Cardinality(In(t, x)) /\ (In(s, x) = {} <=> In(t, x) = {})
  BY ChosenCounts
<1>2. /\ \A i \in DOMAIN s : s[i] \in Texts
      /\ \A i \in DOMAIN t : t[i] \in Texts
  BY ElementOfSeq, LenProperties
<1>3. ToSet(s) = {x \in Texts : In(s, x) # {}}
  BY <1>2 DEF ToSet
<1>4. ToSet(t) = {x \in Texts : In(t, x) # {}}
  BY <1>2 DEF ToSet
<1>5. ToSet(s) = ToSet(t)
  BY <1>1, <1>3, <1>4
<1>6. Range(s) = ToSet(s) /\ Range(t) = ToSet(t)
  BY DEF Range, ToSet
<1>7. \A x \in ToSet(s) : x \in Texts
  BY <1>3
<1>8. ToBag(s) = [x \in ToSet(s) |-> Cardinality(In(s, x))] /\ ToBag(t) = [x \in ToSet(t) |-> Cardinality(In(t, x))]
  BY <1>6 DEF ToBag
<1> HIDE DEF In
<1> QED BY <1>1, <1>5, <1>7, <1>8

(* Reversing turns the order and keeps the elements.                       *)
LEMMA ReverseIs ==
  ASSUME NEW s \in Seq(Texts)
  PROVE  /\ Reverse(s) \in Seq(Texts) /\ Len(Reverse(s)) = Len(s) /\ Reverse(Reverse(s)) = s
         /\ \A i \in 1..Len(s) : Len(s) - i + 1 \in 1..Len(s) /\ Reverse(s)[i] = s[Len(s) - i + 1]
         /\ ToBag(Reverse(s)) = ToBag(s)
<1> DEFINE n == Len(s)
           r == Reverse(s)
<1>1. n \in Nat /\ DOMAIN s = 1..n
  BY LenProperties
<1>2. r = [i \in 1..n |-> s[(n - i) + 1]]
  BY DEF Reverse
<1> HIDE DEF n, r
<1>3. \A i \in 1..n : (n - i) + 1 \in 1..n /\ n - ((n - i) + 1) + 1 = i
  BY <1>1
<1>4. r \in Seq(Texts) /\ Len(r) = n /\ DOMAIN r = 1..n
  <2>1. \A i \in 1..n : s[(n - i) + 1] \in Texts
    BY <1>3, ElementOfSeq DEF n
  <2> QED BY <1>1, <1>2, <2>1
<1>5. \A i \in 1..n : r[i] = s[(n - i) + 1] /\ r[(n - i) + 1] = s[i]
  BY <1>2, <1>3
<1>6. Reverse(r) = s
  <2>1. Reverse(r) = [i \in 1..n |-> r[(n - i) + 1]]
    BY <1>4 DEF Reverse
  <2>2. Reverse(r) = [i \in 1..n |-> s[i]]
    BY <1>5, <2>1
  <2>3. s = [i \in 1..n |-> s[i]]
    BY <1>1
  <2> QED BY <2>2, <2>3
<1> DEFINE In(q, x) == {i \in DOMAIN q : q[i] = x}
<1>7. ASSUME NEW x
      PROVE  Cardinality(In(r, x)) = Cardinality(In(s, x))
  <2> DEFINE A == In(s, x)
             B == In(r, x)
             H == [i \in A |-> (n - i) + 1]
  <2>1. A = {i \in 1..n : s[i] = x} /\ B = {i \in 1..n : r[i] = x}
    BY <1>1, <1>4
  <2> HIDE DEF A, B
  <2>2. H \in [A -> B] /\ \A i \in A : H[i] = (n - i) + 1
    BY <1>3, <1>5, <2>1
  <2> HIDE DEF H
  <2>3. \A i, j \in A : H[i] = H[j] => i = j
    <3>1. \A i, j \in 1..n : (n - i) + 1 = (n - j) + 1 => i = j
      BY <1>1
    <3> QED BY <2>1, <2>2, <3>1
  <2>4. \A j \in B : \E i \in A : H[i] = j
    <3> TAKE j \in B
    <3>1. (n - j) + 1 \in A /\ H[(n - j) + 1] = j
      BY <1>1, <1>3, <1>5, <2>1, <2>2
    <3> QED BY <3>1
  <2>5. H \in Bijection(A, B)
    BY <2>2, <2>3, <2>4, Fun_IsBij
  <2>6. IsFiniteSet(A)
    <3>1. A \subseteq 1..n
      BY <2>1
    <3> QED BY <1>1, <3>1, PartOfInterval
  <2>7. Cardinality(B) = Cardinality(A)
    BY <2>5, <2>6, FS_Bijection DEF ExistsBijection
  <2> QED BY <2>7 DEF A, B
<1>8. Range(r) = Range(s)
  <2>1. Range(r) = {r[i] : i \in 1..n} /\ Range(s) = {s[i] : i \in 1..n}
    BY <1>1, <1>4 DEF Range
  <2> QED BY <1>3, <1>5, <2>1
<1>9. ToBag(r) = ToBag(s)
  <2>1. ToBag(r) = [x \in Range(r) |-> Cardinality(In(r, x))] /\ ToBag(s) = [x \in Range(s) |-> Cardinality(In(s, x))]
    BY DEF ToBag
  <2> HIDE DEF In
  <2> QED BY <1>7, <1>8, <2>1
<1>10. \A i \in 1..n : n - i + 1 \in 1..n /\ r[i] = s[n - i + 1]
  <2>1. \A i \in 1..n : n - i + 1 = (n - i) + 1
    BY <1>1
  <2> QED BY <1>3, <1>5, <2>1
<1> QED BY <1>4, <1>6, <1>9, <1>10 DEF n, r

(* SortOrders, of the lines given and the lines shown.                     *)
SortAgrees(args, given, shown) ==
  LET numeric == DashN \in ToSet(args) /\ \E k \in DOMAIN given : IsNumber(TrimSpace(given[k]))
      mixed   == numeric /\ \E k \in DOMAIN given : ~IsNumber(TrimSpace(given[k]))
      upwards == IF DashR \in ToSet(args) THEN Reverse(shown) ELSE shown
      key(line) == IF numeric THEN Value(TrimSpace(line)) ELSE 0
  IN  /\ ToBag(shown) = ToBag(given)
      /\ mixed \/ \A j \in DOMAIN upwards : \A i \in 1..(j - 1) :
           IF numeric THEN key(upwards[i]) <= key(upwards[j]) ELSE ~TextLess(upwards[j], upwards[i])
      /\ numeric /\ ~mixed => \A line \in ToSet(given) :
           LET equals(lines) == ElementsAt(lines, {k \in DOMAIN lines : key(lines[k]) = key(line)})
           IN  equals(upwards) = equals(given)

(* Sorting loses and invents no line.                                      *)
LEMMA SortedBag ==
  ASSUME NEW given \in Seq(Texts), NEW numeric
  PROVE  LET sorted == SortedLines(given, numeric)
         IN  ToBag(sorted) = ToBag(given) /\ ToSet(sorted) = ToSet(given)
<1> DEFINE sorted == SortedLines(given, numeric)
<1>1. /\ sorted \in Seq(Texts)
      /\ \A K : (\A x, y \in K : ~Less(x, y, numeric)) => Chosen(sorted, K) = Chosen(given, K)
  BY SortedIs
<1> HIDE DEF sorted
<1>2. ASSUME NEW x \in Texts PROVE Chosen(sorted, {x}) = Chosen(given, {x})
  <2>1. \A y, z \in {x} : ~Less(y, z, numeric)
    BY LessIrreflexive
  <2> QED BY <1>1, <2>1
<1>3. ToBag(sorted) = ToBag(given) /\ ToSet(sorted) = ToSet(given)
  BY <1>1, <1>2, SameBag
<1> QED BY <1>3 DEF sorted

(* The order of the lines, when all of them are numbers or none is.        *)
LEMMA SortedOrder ==
  ASSUME NEW given \in Seq(Texts), NEW numeric \in BOOLEAN, NEW byValue \in BOOLEAN,
         byValue => numeric /\ \A k \in 1..Len(given) : IsNumber(TrimSpace(given[k])),
         ~byValue => ~numeric \/ \A k \in 1..Len(given) : ~IsNumber(TrimSpace(given[k]))
  PROVE  LET sorted == SortedLines(given, numeric)
         IN  \A j \in 1..Len(sorted) : \A i \in 1..(j - 1) :
               IF byValue THEN Value(TrimSpace(sorted[i])) <= Value(TrimSpace(sorted[j]))
               ELSE ~TextLess(sorted[j], sorted[i])
<1> DEFINE sorted == SortedLines(given, numeric)
           G == ToSet(given)
<1>1. DOMAIN given = 1..Len(given) /\ Len(given) \in Nat
  BY LenProperties
<1>2. G \subseteq Texts /\ \A k \in 1..Len(given) : given[k] \in G
  BY <1>1, ElementOfSeq DEF ToSet
<1>3. \A x \in G : \E k \in 1..Len(given) : x = given[k]
  BY <1>1 DEF ToSet
<1>4. /\ sorted \in Seq(Texts)
      /\ Orders(G, numeric) => Ordered(sorted, numeric)
  <2>1. /\ sorted \in Seq(Texts)
        /\ \A H : (\A k \in 1..Len(given) : given[k] \in H) /\ Orders(H, numeric) => Ordered(sorted, numeric)
    BY SortedIs
  <2> HIDE DEF sorted, G
  <2> QED BY <1>2, <2>1
<1>5. ToSet(sorted) = G
  BY SortedBag
<1> HIDE DEF sorted, G
<1>6. \A k \in 1..Len(sorted) : sorted[k] \in G /\ sorted[k] \in Texts
  <2>1. DOMAIN sorted = 1..Len(sorted)
    BY <1>4, LenProperties
  <2> QED BY <1>2, <1>5, <2>1 DEF ToSet
<1>7. CASE byValue
  <2>1. \A x \in G : IsNumber(TrimSpace(x))
    BY <1>3, <1>7
  <2>2. \A x \in G : Value(TrimSpace(x)) \in Nat
    BY <1>2, <2>1, ValueOfLine
  <2>3. Ordered(sorted, numeric)
    BY <1>2, <1>4, <1>7, <2>1, <2>2, LessOrders
  <2>4. ASSUME NEW j \in 1..Len(sorted), NEW i \in 1..(j - 1)
        PROVE  Value(TrimSpace(sorted[i])) <= Value(TrimSpace(sorted[j]))
    <3>1. i \in 1..Len(sorted)
      <4>1. Len(sorted) \in Nat
        BY <1>4, LenProperties
      <4> QED BY <4>1
    <3> DEFINE x == sorted[j]
               y == sorted[i]
    <3>2. x \in G /\ y \in G /\ ~Less(x, y, numeric)
      BY <1>6, <2>3, <3>1 DEF Ordered
    <3> DEFINE a == Value(TrimSpace(x))
               b == Value(TrimSpace(y))
    <3>3. a \in Nat /\ b \in Nat /\ IsNumber(TrimSpace(x)) /\ IsNumber(TrimSpace(y))
      BY <2>1, <2>2, <3>2
    <3>4. ~(a < b)
      BY <1>7, <3>2, <3>3 DEF Less
    <3> HIDE DEF a, b
    <3>5. b <= a
      BY <3>3, <3>4
    <3> QED BY <3>5 DEF a, b
  <2> QED BY <1>7, <2>4 DEF sorted
<1>8. CASE ~byValue
  <2>1. ~numeric \/ \A x \in G : ~IsNumber(TrimSpace(x))
    BY <1>3, <1>8
  <2>2. Ordered(sorted, numeric)
    BY <1>2, <1>4, <2>1, LessOrders
  <2>3. ASSUME NEW j \in 1..Len(sorted), NEW i \in 1..(j - 1)
        PROVE  ~TextLess(sorted[j], sorted[i])
    <3>1. i \in 1..Len(sorted)
      <4>1. Len(sorted) \in Nat
        BY <1>4, LenProperties
      <4> QED BY <4>1
    <3>2. sorted[j] \in G /\ sorted[i] \in G /\ ~Less(sorted[j], sorted[i], numeric)
      BY <1>6, <2>2, <3>1 DEF Ordered
    <3> QED BY <2>1, <3>2 DEF Less
  <2> QED BY <1>8, <2>3 DEF sorted
<1> QED BY <1>7, <1>8

(* Numbers of one value stay in the order given.                           *)
LEMMA SortedStable ==
  ASSUME NEW given \in Seq(Texts), \A k \in 1..Len(given) : IsNumber(TrimSpace(given[k])), NEW v
  PROVE  LET sorted == SortedLines(given, TRUE)
         IN  ElementsAt(sorted, {k \in DOMAIN sorted : Value(TrimSpace(sorted[k])) = v})
               = ElementsAt(given, {k \in DOMAIN given : Value(TrimSpace(given[k])) = v})
<1> DEFINE sorted == SortedLines(given, TRUE)
           K == {x \in ToSet(given) : Value(TrimSpace(x)) = v}
<1>1. DOMAIN given = 1..Len(given)
  BY LenProperties
<1>2. /\ \A k \in DOMAIN given : given[k] \in ToSet(given)
      /\ \A x \in ToSet(given) : x \in Texts /\ IsNumber(TrimSpace(x))
  BY <1>1, ElementOfSeq DEF ToSet
<1>3. \A x \in ToSet(given) : Value(TrimSpace(x)) \in Nat
  BY <1>2, ValueOfLine
<1>4. \A x, y \in K : ~Less(x, y, TRUE)
  <2> TAKE x \in K, y \in K
  <2> DEFINE a == Value(TrimSpace(x))
             b == Value(TrimSpace(y))
  <2>1. a \in Nat /\ b = a
    BY <1>3
  <2>2. Less(x, y, TRUE) <=> a < b
    BY <1>2 DEF Less
  <2> HIDE DEF a, b
  <2>3. ~(a < b)
    BY <2>1
  <2> QED BY <2>2, <2>3
<1>5. Chosen(sorted, K) = Chosen(given, K)
  <2>1. \A H : (\A x, y \in H : ~Less(x, y, TRUE)) => Chosen(sorted, H) = Chosen(given, H)
    BY SortedIs
  <2> HIDE DEF sorted, K
  <2> QED BY <1>4, <2>1
<1>6. ToSet(sorted) = ToSet(given)
  BY SortedBag
<1> HIDE DEF sorted
<1>7. \A k \in DOMAIN sorted : sorted[k] \in ToSet(given)
  BY <1>6 DEF ToSet
<1>8. {k \in DOMAIN sorted : sorted[k] \in K} = {k \in DOMAIN sorted : Value(TrimSpace(sorted[k])) = v}
  BY <1>7
<1>9. {k \in DOMAIN given : given[k] \in K} = {k \in DOMAIN given : Value(TrimSpace(given[k])) = v}
  BY <1>2
<1> HIDE DEF K
<1> QED BY <1>5, <1>8, <1>9 DEF Chosen, sorted

(* Sorted lines are lines, reversed or not.                                *)
LEMMA SortedLinesType ==
  ASSUME NEW given \in Lines, NEW numeric
  PROVE  SortedLines(given, numeric) \in Lines /\ Reverse(SortedLines(given, numeric)) \in Lines
<1> DEFINE sorted == SortedLines(given, numeric)
           back == Reverse(sorted)
<1>1. given \in Seq(Texts) /\ \A k \in 1..Len(given) : Free(given[k], NL)
  BY DEF Lines
<1>2. \A x \in ToSet(given) : Free(x, NL)
  BY <1>1, LenProperties DEF ToSet
<1>3. sorted \in Seq(Texts)
  BY <1>1, SortedIs
<1>4. ToSet(sorted) = ToSet(given)
  BY <1>1, SortedBag
<1> HIDE DEF sorted
<1>5. back \in Seq(Texts) /\ Len(back) = Len(sorted)
      /\ \A i \in 1..Len(sorted) : Len(sorted) - i + 1 \in 1..Len(sorted) /\ back[i] = sorted[Len(sorted) - i + 1]
  BY <1>3, ReverseIs
<1> HIDE DEF back
<1>6. \A k \in 1..Len(sorted) : Free(sorted[k], NL)
  <2>1. DOMAIN sorted = 1..Len(sorted)
    BY <1>3, LenProperties
  <2>2. \A k \in 1..Len(sorted) : sorted[k] \in ToSet(sorted)
    BY <2>1 DEF ToSet
  <2> QED BY <1>2, <1>4, <2>2
<1>7. \A k \in 1..Len(back) : Free(back[k], NL)
  BY <1>5, <1>6
<1> QED BY <1>3, <1>5, <1>6, <1>7 DEF Lines, sorted, back

(* sort is a permutation, ordered and, by value, stable, as SortOrders     *)
(* says.                                                                   *)
LEMMA SortIs ==
  ASSUME NEW text \in Texts, NEW args \in Seq(Texts)
  PROVE  LET stdout == Sort(text, DashR \in ToSet(args), DashN \in ToSet(args))
         IN  stdout \in Texts /\ SortAgrees(args, SplitLines(text), SplitLines(stdout))
<1> DEFINE given == SplitLines(text)
           n == DashN \in ToSet(args)
           back == DashR \in ToSet(args)
           sorted == SortedLines(given, n)
           shown == IF back THEN Reverse(sorted) ELSE sorted
           stdout == Sort(text, back, n)
<1>1. given \in Lines /\ given \in Seq(Texts) /\ n \in BOOLEAN /\ DOMAIN given = 1..Len(given)
  <2>1. given \in Lines /\ given \in Seq(Texts)
    BY LinesType DEF Lines
  <2> HIDE DEF given
  <2> QED BY <2>1, LenProperties
<1>2. stdout = JoinLines(shown)
  BY DEF Sort, SortedLines
<1>3. sorted \in Lines /\ Reverse(sorted) \in Lines /\ sorted \in Seq(Texts)
  <2> HIDE DEF given, n
  <2>1. sorted \in Lines /\ Reverse(sorted) \in Lines
    BY <1>1, SortedLinesType
  <2> HIDE DEF sorted
  <2> QED BY <2>1 DEF Lines
<1>4. shown \in Lines
  <2> HIDE DEF sorted
  <2> QED BY <1>3
<1>5. stdout \in Texts /\ SplitLines(stdout) = shown
  <2> HIDE DEF shown, stdout
  <2> QED BY <1>2, <1>4, LinesRestored
<1> DEFINE numeric == n /\ \E k \in DOMAIN given : IsNumber(TrimSpace(given[k]))
           mixed == numeric /\ \E k \in DOMAIN given : ~IsNumber(TrimSpace(given[k]))
           upwards == IF back THEN Reverse(shown) ELSE shown
           key(line) == IF numeric THEN Value(TrimSpace(line)) ELSE 0
<1> HIDE DEF stdout, given, n, back
<1>6. upwards = sorted
  <2> HIDE DEF sorted
  <2>1. Reverse(Reverse(sorted)) = sorted
    BY <1>3, ReverseIs
  <2> QED BY <2>1
<1>7. ToBag(shown) = ToBag(given)
  <2>1. ToBag(sorted) = ToBag(given)
    BY <1>1, SortedBag
  <2> HIDE DEF sorted
  <2>2. ToBag(Reverse(sorted)) = ToBag(sorted)
    BY <1>3, ReverseIs
  <2> QED BY <2>1, <2>2
<1> HIDE DEF shown, upwards
<1>8. ASSUME ~mixed
      PROVE  \A j \in DOMAIN upwards : \A i \in 1..(j - 1) :
           IF numeric THEN key(upwards[i]) <= key(upwards[j]) ELSE ~TextLess(upwards[j], upwards[i])
  <2>1. numeric \in BOOLEAN
    OBVIOUS
  <2>2. numeric => n /\ \A k \in 1..Len(given) : IsNumber(TrimSpace(given[k]))
    BY <1>1, <1>8
  <2>3. ~numeric => ~n \/ \A k \in 1..Len(given) : ~IsNumber(TrimSpace(given[k]))
    BY <1>1
  <2>4. DOMAIN sorted = 1..Len(sorted)
    <3> HIDE DEF sorted
    <3> QED BY <1>3, LenProperties
  <2> HIDE DEF numeric
  <2>5. \A j \in 1..Len(sorted) : \A i \in 1..(j - 1) :
          IF numeric THEN Value(TrimSpace(sorted[i])) <= Value(TrimSpace(sorted[j]))
          ELSE ~TextLess(sorted[j], sorted[i])
    BY <1>1, <2>1, <2>2, <2>3, SortedOrder
  <2> HIDE DEF sorted
  <2> QED BY <1>6, <2>4, <2>5
<1>9. ASSUME numeric, ~mixed, NEW line \in ToSet(given)
      PROVE  ElementsAt(upwards, {k \in DOMAIN upwards : key(upwards[k]) = key(line)})
               = ElementsAt(given, {k \in DOMAIN given : key(given[k]) = key(line)})
  <2>1. n = TRUE /\ \A k \in 1..Len(given) : IsNumber(TrimSpace(given[k]))
    BY <1>1, <1>9
  <2>2. \A x : key(x) = Value(TrimSpace(x))
    BY <1>9
  <2>3. LET s == SortedLines(given, TRUE)
        IN  \A v : ElementsAt(s, {k \in DOMAIN s : Value(TrimSpace(s[k])) = v})
                     = ElementsAt(given, {k \in DOMAIN given : Value(TrimSpace(given[k])) = v})
    BY <1>1, <2>1, SortedStable
  <2>4. upwards = SortedLines(given, TRUE)
    BY <1>6, <2>1
  <2> HIDE DEF key, numeric, sorted
  <2> QED BY <2>2, <2>3, <2>4
<1>10. SortAgrees(args, given, shown)
  <2> HIDE DEF given, shown
  <2> QED BY <1>7, <1>8, <1>9 DEF SortAgrees, upwards, n, back
<1> QED BY <1>5, <1>10 DEF stdout, given, n, back

-----------------------------------------------------------------------------
(* Answers.                                                                *)

(* TrReplaces, of the input and the output.                                *)
TrAgrees(args, input, output) ==
  LET from == args[1]
      to   == args[2]
      image[i \in 0..Len(from)] ==
        IF i = 0 THEN [c \in Bytes |-> c]
        ELSE [image[i - 1] EXCEPT ![from[i]] = to[Least(i, Len(to))]]
  IN  IF from = DashD
      THEN output = FlattenSeq([i \in DOMAIN input |->
             IF Contains(to, input[i]) THEN << >> ELSE <<input[i]>>])
      ELSE output = [i \in DOMAIN input |-> image[Len(from)][input[i]]]

(* What an answer shows of the text, unless it is marked as truncated.     *)
Complete(c, r) ==
  ~r.truncated =>
    /\ c.tool \in {"cat", "head_file", "tail_file"} /\ r.ok => SplitLines(r.output) = SplitLines(c.input)
    /\ c.tool \in {"grep"} /\ r.ok =>
         LET given == SplitLines(c.input)
             hits == InOrder({k \in DOMAIN given : HasText(given[k], c.args[1])})
         IN  SplitLines(r.output) = [k \in DOMAIN hits |-> Decimal[hits[k]] \o <<COLON>> \o given[hits[k]]]

Agree(c, r) ==
  ~r.truncated =>
    /\ c.tool \in {"sort"} /\ r.ok => SortAgrees(c.args, SplitLines(c.input), SplitLines(r.output))
    /\ c.tool \in {"uniq"} /\ r.ok => UniqAgrees(c.args, SplitLines(c.input), SplitLines(r.output))
    /\ c.tool \in {"wc"} /\ r.ok => WcAgrees(c.args, c.input, SplitLines(c.input), r.output)
    /\ c.tool \in {"head", "tail"} /\ r.ok => EndsAgree(c.tool, c.args, SplitLines(c.input), SplitLines(r.output))
    /\ c.tool \in {"cut"} /\ r.ok => CutAgrees(c.args, SplitLines(c.input), r.output)
    /\ c.tool \in {"tr"} /\ r.ok => TrAgrees(c.args, c.input, r.output)

(* UnflaggedIsComplete, as a statement of the last call and its answer.    *)
LEMMA CompleteStated ==
  /\ UnflaggedIsComplete <=> Complete(call, reply)
  /\ UnflaggedIsComplete' <=> Complete(call', reply')
BY DEF UnflaggedIsComplete, Complete, Answered, Given, Shown

(* CommandsAgree, as a statement of the last call and its answer.          *)
LEMMA AgreeStated ==
  /\ CommandsAgree <=> Agree(call, reply)
  /\ CommandsAgree' <=> Agree(call', reply')
<1>1. /\ SortOrders <=> SortAgrees(call.args, SplitLines(call.input), SplitLines(reply.output))
      /\ SortOrders' <=> SortAgrees(call'.args, SplitLines(call'.input), SplitLines(reply'.output))
  BY DEF SortOrders, SortAgrees, Given, Shown
<1>2. /\ UniqMerges <=> UniqAgrees(call.args, SplitLines(call.input), SplitLines(reply.output))
      /\ UniqMerges' <=> UniqAgrees(call'.args, SplitLines(call'.input), SplitLines(reply'.output))
  BY DEF UniqMerges, UniqAgrees, Given, Shown
<1>3. /\ WcCounts <=> WcAgrees(call.args, call.input, SplitLines(call.input), reply.output)
      /\ WcCounts' <=> WcAgrees(call'.args, call'.input, SplitLines(call'.input), reply'.output)
  BY DEF WcCounts, WcAgrees, Given
<1>4. /\ EndsShown <=> EndsAgree(call.tool, call.args, SplitLines(call.input), SplitLines(reply.output))
      /\ EndsShown' <=> EndsAgree(call'.tool, call'.args, SplitLines(call'.input), SplitLines(reply'.output))
  BY DEF EndsShown, EndsAgree, Given, Shown
<1>5. /\ CutSelects <=> CutAgrees(call.args, SplitLines(call.input), reply.output)
      /\ CutSelects' <=> CutAgrees(call'.args, SplitLines(call'.input), reply'.output)
  BY DEF CutSelects, CutAgrees, Given
<1>6. /\ TrReplaces <=> TrAgrees(call.args, call.input, reply.output)
      /\ TrReplaces' <=> TrAgrees(call'.args, call'.input, reply'.output)
  BY DEF TrReplaces, TrAgrees
<1> QED BY <1>1, <1>2, <1>3, <1>4, <1>5, <1>6 DEF CommandsAgree, Agree, Answered

(* What every reachable state has: the text of an answer may be given to   *)
(* the next command.                                                       *)
TextInv ==
  /\ file \in Texts
  /\ reply.output \in Texts
  /\ Complete(call, reply)
  /\ Agree(call, reply)

(* An answer to a call.                                                    *)
Called(tool, args, input) == [tool |-> tool, args |-> args, input |-> input]

Correct(tool, args, input, answer) ==
  /\ answer.output \in Texts
  /\ Complete(Called(tool, args, input), answer)
  /\ Agree(Called(tool, args, input), answer)

(* A step that answers a call correctly keeps the invariant.               *)
LEMMA Responded ==
  ASSUME TextInv, NEW tool, NEW args, NEW input, NEW answer,
         Respond(tool, args, input, answer), Correct(tool, args, input, answer)
  PROVE  TextInv'
<1>1. file' = file /\ call' = Called(tool, args, input) /\ reply' = answer
  BY DEF Respond, Called
<1>2. TextInv' <=> file' \in Texts /\ reply'.output \in Texts /\ Complete(call', reply') /\ Agree(call', reply')
  BY DEF TextInv
<1> QED BY <1>1, <1>2 DEF Correct, TextInv

(* A refusal is correct: it shows nothing.                                 *)
LEMMA RefusedIsCorrect ==
  ASSUME NEW tool, NEW args, NEW input
  PROVE  Correct(tool, args, input, Refused)
<1>1. Refused.ok = FALSE /\ Refused.output = << >>
  BY DEF Refused
<1>2. << >> \in Texts
  BY DEF Texts
<1> QED BY <1>1, <1>2 DEF Correct, Complete, Agree

(* The clamp of callTool raises the flag when it cuts.                     *)
LEMMA AnswerIs ==
  ASSUME NEW text \in Texts, NEW dropped \in BOOLEAN
  PROVE  /\ Answer(text, dropped).output \in Texts
         /\ ~Answer(text, dropped).truncated => ~dropped /\ Answer(text, dropped).output = text
<1> DEFINE n == Len(text)
           t == Clamp(text, MaxResultBytes)
<1>1. n \in Nat
  BY LenProperties DEF Texts
<1>2. t \in Texts /\ (n <= MaxResultBytes => t = text)
  BY LimitTypes, ClampIs DEF Texts
<1>3. Answer(text, dropped).output = t /\ Answer(text, dropped).truncated = (dropped \/ n > MaxResultBytes)
  BY DEF Answer
<1> HIDE DEF n, t
<1>4. ~(n > MaxResultBytes) => n <= MaxResultBytes
  BY <1>1, LimitTypes
<1> QED BY <1>2, <1>3, <1>4

(* A tool on a file that shows all lines, or says that it does not.        *)
LEMMA FileAnswer ==
  ASSUME NEW tool \in {"cat", "head_file", "tail_file"}, NEW args, NEW input, NEW text \in Texts, NEW dropped \in BOOLEAN,
         ~dropped => SplitLines(text) = SplitLines(input)
  PROVE  Correct(tool, args, input, Answer(text, dropped))
<1> DEFINE a == Answer(text, dropped)
           c == Called(tool, args, input)
<1>1. a.output \in Texts /\ (~a.truncated => ~dropped /\ a.output = text)
  BY AnswerIs
<1>2. c.tool = tool /\ c.input = input
  BY DEF Called
<1> HIDE DEF a, c
<1>3. Complete(c, a)
  BY <1>1, <1>2 DEF Complete
<1>4. Agree(c, a)
  BY <1>2 DEF Agree
<1> QED BY <1>1, <1>3, <1>4 DEF Correct, a, c

(* The lines that match, each with its number.                             *)
Matches(text, pattern) ==
  LET lines == SplitLines(text)
      hits  == InOrder({k \in DOMAIN lines : HasText(lines[k], pattern)})
  IN  [k \in DOMAIN hits |-> Decimal[hits[k]] \o <<COLON>> \o lines[hits[k]]]

(* GrepIs, of the matching lines.                                          *)
LEMMA GrepShows ==
  ASSUME NEW text \in Texts, NEW pattern, NEW max \in Nat
  PROVE  LET found == Grep(text, pattern, max)
         IN  /\ found.text \in Texts /\ found.truncated \in BOOLEAN
             /\ ~found.truncated => SplitLines(found.text) = Matches(text, pattern)
BY GrepIs DEF Matches

(* grep answers correctly if what it reads is the input, or is flagged.    *)
LEMMA GrepAnswered ==
  ASSUME NEW args, NEW input \in Texts, NEW text \in Texts, NEW dropped \in BOOLEAN,
         args[1] \in Texts, args[2] \in Nat,
         ~dropped => text = input
  PROVE  Correct("grep", args, input, GrepAnswer([text |-> text, truncated |-> dropped], args[1], args[2]))
<1> DEFINE max == Least(args[2], MaxGrepMatches)
           found == Grep(text, args[1], max)
           a == Answer(found.text, dropped \/ found.truncated)
           c == Called("grep", args, input)
           g == GrepAnswer([text |-> text, truncated |-> dropped], args[1], args[2])
<1>1. g = IF args[1] = << >> THEN Refused ELSE a
  BY DEF GrepAnswer
<1>2. max \in Nat
  BY LimitTypes, LeastIs
<1> HIDE DEF max
<1>3. found.text \in Texts /\ found.truncated \in BOOLEAN /\ (~found.truncated => SplitLines(found.text) = Matches(text, args[1]))
  <2> HIDE DEF found, a, c, g
  <2> QED BY <1>2, GrepShows DEF found
<1> HIDE DEF found
<1>4. a.output \in Texts /\ (~a.truncated => ~dropped /\ ~found.truncated /\ a.output = found.text)
  <2>1. (dropped \/ found.truncated) \in BOOLEAN
    OBVIOUS
  <2> QED BY <1>3, <2>1, AnswerIs
<1>5. c.tool = "grep" /\ c.args = args /\ c.input = input
  BY DEF Called
<1> HIDE DEF a, c, g
<1>6. ~a.truncated => SplitLines(a.output) = Matches(input, args[1])
  <2> QED BY <1>3, <1>4
<1>7. Complete(c, a)
  BY <1>5, <1>6 DEF Complete, Matches
<1>8. Agree(c, a)
  BY <1>5 DEF Agree
<1>9. Correct("grep", args, input, a)
  BY <1>4, <1>7, <1>8 DEF Correct, c
<1> QED BY <1>1, <1>9, RefusedIsCorrect DEF g

-----------------------------------------------------------------------------
(* The tools on a file.                                                    *)

(* cat keeps the invariant: each of its four limits raises the flag.       *)
LEMMA CatKeeps == TextInv /\ Cat => TextInv'
<1> SUFFICES ASSUME TextInv, Cat PROVE TextInv'
  OBVIOUS
<1>1. PICK args \in Arguments["cat"] :
        LET read  == ReadFile(Least(args[1], MaxFileReadBytes))
            lines == SplitLines(read.text)
            whole == JoinLines(ClampLines(lines))
        IN  Respond("cat", args, file,
              Answer(Clamp(whole, args[1]), read.truncated \/ ClampLines(lines) # lines \/ Len(whole) > args[1]))
  BY DEF Cat
<1> DEFINE limit == Least(args[1], MaxFileReadBytes)
           text == Clamp(file, limit)
           more == Len(file) > limit
           lines == SplitLines(text)
           whole == JoinLines(ClampLines(lines))
           shown == Clamp(whole, args[1])
           dropped == more \/ ClampLines(lines) # lines \/ Len(whole) > args[1]
<1>2. Respond("cat", args, file, Answer(shown, dropped))
  BY <1>1 DEF ReadFile
<1>3. args[1] \in Nat /\ limit \in Nat
  <2>1. args[1] \in Nat
    BY ArgumentsAssumption, SMT
  <2> QED BY <2>1, LimitTypes, LeastIs
<1>4. file \in Texts
  BY DEF TextInv
<1> HIDE DEF limit
<1>5. text \in Texts /\ Len(file) \in Nat /\ (~more => text = file)
  <2>1. file \in Seq(Bytes) /\ Len(file) \in Nat
    BY <1>4, LenProperties DEF Texts
  <2>2. text \in Seq(Bytes) /\ (Len(file) <= limit => text = file)
    BY <1>3, <2>1, ClampIs
  <2>3. ~more => Len(file) <= limit
    BY <1>3, <2>1
  <2> HIDE DEF more, text
  <2> QED BY <2>1, <2>2, <2>3 DEF Texts
<1> HIDE DEF text, more
<1>6. lines \in Lines
  BY <1>5, LinesType
<1> HIDE DEF lines
<1>7. ClampLines(lines) \in Lines
  BY <1>6, ClampedLines
<1>8. whole \in Texts /\ (ClampLines(lines) = lines => SplitLines(whole) = lines)
  BY <1>7, LinesRestored
<1> HIDE DEF whole
<1>9. shown \in Texts /\ (~(Len(whole) > args[1]) => shown = whole)
  <2>1. whole \in Seq(Bytes) /\ Len(whole) \in Nat
    BY <1>8, LenProperties DEF Texts
  <2>2. shown \in Seq(Bytes) /\ (Len(whole) <= args[1] => shown = whole)
    BY <1>3, <2>1, ClampIs
  <2>3. ~(Len(whole) > args[1]) => Len(whole) <= args[1]
    BY <1>3, <2>1
  <2> HIDE DEF shown
  <2> QED BY <2>2, <2>3 DEF Texts
<1> HIDE DEF shown
<1>10. ~dropped => SplitLines(shown) = SplitLines(file)
  BY <1>5, <1>8, <1>9 DEF lines
<1>11. dropped \in BOOLEAN
  BY DEF more
<1> HIDE DEF dropped
<1>12. Correct("cat", args, file, Answer(shown, dropped))
  BY <1>9, <1>10, <1>11, FileAnswer
<1> QED BY <1>2, <1>12, Responded

(* What the tools read of the file.                                        *)
LEMMA ReadIs ==
  ASSUME TextInv
  PROVE  LET read == ReadFile(MaxFileReadBytes)
         IN  /\ read.text \in Texts /\ read.truncated \in BOOLEAN
             /\ ~read.truncated => read.text = file
             /\ read = [text |-> read.text, truncated |-> read.truncated]
<1> DEFINE read == ReadFile(MaxFileReadBytes)
           text == Clamp(file, MaxFileReadBytes)
<1>1. read = [text |-> text, truncated |-> Len(file) > MaxFileReadBytes]
  BY DEF ReadFile
<1>2. file \in Seq(Bytes) /\ Len(file) \in Nat
  BY LenProperties DEF TextInv, Texts
<1>3. text \in Seq(Bytes) /\ (Len(file) <= MaxFileReadBytes => text = file)
  BY <1>2, LimitTypes, ClampIs
<1>4. ~(Len(file) > MaxFileReadBytes) => Len(file) <= MaxFileReadBytes
  BY <1>2, LimitTypes
<1> DEFINE more == Len(file) > MaxFileReadBytes
<1>5. more \in BOOLEAN
  OBVIOUS
<1>6. read.text = text /\ read.truncated = more /\ read = [text |-> read.text, truncated |-> read.truncated]
  <2> HIDE DEF read, text
  <2> QED BY <1>1
<1>7. text \in Texts /\ (~more => text = file)
  <2> HIDE DEF text
  <2> QED BY <1>3, <1>4 DEF Texts
<1> HIDE DEF text, more
<1>8. /\ read.text \in Texts /\ read.truncated \in BOOLEAN
      /\ ~read.truncated => read.text = file
      /\ read = [text |-> read.text, truncated |-> read.truncated]
  <2> HIDE DEF read
  <2> QED BY <1>5, <1>6, <1>7
<1> QED BY <1>8

(* The tool head keeps it.                                                 *)
LEMMA HeadFileKeeps == TextInv /\ HeadFile => TextInv'
<1> SUFFICES ASSUME TextInv, HeadFile PROVE TextInv'
  OBVIOUS
<1> DEFINE read == ReadFile(MaxFileReadBytes)
<1>1. PICK args \in Arguments["head_file"] :
        Respond("head_file", args, file,
          Answer(HeadLines(read.text, args[1]).text, read.truncated \/ HeadLines(read.text, args[1]).truncated))
  BY DEF HeadFile
<1>2. read.text \in Texts /\ read.truncated \in BOOLEAN /\ (~read.truncated => read.text = file)
  BY ReadIs
<1>3. args[1] \in Nat
  BY ArgumentsAssumption, SMT
<1> HIDE DEF read
<1> DEFINE head == HeadLines(read.text, args[1])
           dropped == read.truncated \/ head.truncated
<1>4. head.text \in Texts /\ head.truncated \in BOOLEAN /\ (~head.truncated => SplitLines(head.text) = SplitLines(read.text))
  BY <1>2, <1>3, HeadIs
<1>5. Respond("head_file", args, file, Answer(head.text, dropped))
  BY <1>1
<1> HIDE DEF head
<1>6. dropped \in BOOLEAN /\ (~dropped => SplitLines(head.text) = SplitLines(file))
  BY <1>2, <1>4
<1> HIDE DEF dropped
<1>7. Correct("head_file", args, file, Answer(head.text, dropped))
  BY <1>4, <1>6, FileAnswer
<1> QED BY <1>5, <1>7, Responded

(* The tool tail keeps it.                                                 *)
LEMMA TailFileKeeps == TextInv /\ TailFile => TextInv'
<1> SUFFICES ASSUME TextInv, TailFile PROVE TextInv'
  OBVIOUS
<1> DEFINE read == ReadFile(MaxFileReadBytes)
<1>1. PICK args \in Arguments["tail_file"] :
        Respond("tail_file", args, file,
          Answer(TailLines(read.text, args[1]).text, read.truncated \/ TailLines(read.text, args[1]).truncated))
  BY DEF TailFile
<1>2. read.text \in Texts /\ read.truncated \in BOOLEAN /\ (~read.truncated => read.text = file)
  BY ReadIs
<1>3. args[1] \in Nat
  BY ArgumentsAssumption, SMT
<1> HIDE DEF read
<1> DEFINE tail == TailLines(read.text, args[1])
           dropped == read.truncated \/ tail.truncated
<1>4. tail.text \in Texts /\ tail.truncated \in BOOLEAN /\ (~tail.truncated => SplitLines(tail.text) = SplitLines(read.text))
  BY <1>2, <1>3, TailIs
<1>5. Respond("tail_file", args, file, Answer(tail.text, dropped))
  BY <1>1
<1> HIDE DEF tail
<1>6. dropped \in BOOLEAN /\ (~dropped => SplitLines(tail.text) = SplitLines(file))
  BY <1>2, <1>4
<1> HIDE DEF dropped
<1>7. Correct("tail_file", args, file, Answer(tail.text, dropped))
  BY <1>4, <1>6, FileAnswer
<1> QED BY <1>5, <1>7, Responded

(* grep on a path keeps it.                                                *)
LEMMA GrepFileKeeps == TextInv /\ GrepFile => TextInv'
<1> SUFFICES ASSUME TextInv, GrepFile PROVE TextInv'
  OBVIOUS
<1> DEFINE read == ReadFile(MaxFileReadBytes)
<1>1. PICK args \in Arguments["grep"] : Respond("grep", args, file, GrepAnswer(read, args[1], args[2]))
  BY DEF GrepFile
<1>2. /\ read.text \in Texts /\ read.truncated \in BOOLEAN /\ (~read.truncated => read.text = file)
      /\ read = [text |-> read.text, truncated |-> read.truncated]
  BY ReadIs
<1>3. args[1] \in Texts /\ args[2] \in Nat
  BY ArgumentsAssumption, SMT
<1>4. file \in Texts
  BY DEF TextInv
<1> HIDE DEF read
<1>5. Correct("grep", args, file, GrepAnswer([text |-> read.text, truncated |-> read.truncated], args[1], args[2]))
  BY <1>2, <1>3, <1>4, GrepAnswered
<1>6. Correct("grep", args, file, GrepAnswer(read, args[1], args[2]))
  BY <1>2, <1>5
<1> QED BY <1>1, <1>6, Responded

(* grep on a text keeps it, a text that is too long being refused.         *)
LEMMA GrepTextKeeps == TextInv /\ GrepText => TextInv'
<1> SUFFICES ASSUME TextInv, GrepText PROVE TextInv'
  OBVIOUS
<1>1. PICK args \in Arguments["grep"], text \in {file, reply.output} :
        Respond("grep", args, text,
          IF Len(text) > MaxFileReadBytes THEN Refused
          ELSE GrepAnswer([text |-> text, truncated |-> FALSE], args[1], args[2]))
  BY DEF GrepText
<1>2. text \in Texts
  BY DEF TextInv
<1>3. args[1] \in Texts /\ args[2] \in Nat
  BY ArgumentsAssumption, SMT
<1>4. Correct("grep", args, text, GrepAnswer([text |-> text, truncated |-> FALSE], args[1], args[2]))
  BY <1>2, <1>3, GrepAnswered
<1>5. Correct("grep", args, text, Refused)
  BY RefusedIsCorrect
<1> QED BY <1>1, <1>4, <1>5, Responded

-----------------------------------------------------------------------------
(* The commands, and what holds of every behaviour.                        *)

(* The commands of coreutils_run.                                          *)
Commands == {"sort", "uniq", "wc", "tr", "head", "tail", "cut"}

(* What a command prints of its input is right.                            *)
Computes(name, args, input, output) ==
  Agree(Called(name, args, input), [ok |-> TRUE, output |-> output, truncated |-> FALSE])

(* coreutils_run keeps it if the command computes what it should of the    *)
(* input it is let to see.                                                 *)
LEMMA RunKeeps ==
  ASSUME TextInv, NEW name \in Commands, NEW valid, NEW args, NEW stdin \in Texts, NEW stdout,
         Run(name, valid, args, stdin, stdout),
         valid /\ Len(stdin) <= MaxStdin => stdout \in Texts /\ Computes(name, args, stdin, stdout)
  PROVE  TextInv'
<1> DEFINE a == [ok |-> TRUE, output |-> Clamp(stdout, MaxStdout), truncated |-> Len(stdout) > MaxStdout]
           c == Called(name, args, stdin)
<1>1. Respond(name, args, stdin, IF ~valid \/ Len(stdin) > MaxStdin THEN Refused ELSE a)
  BY DEF Run
<1>2. Correct(name, args, stdin, Refused)
  BY RefusedIsCorrect
<1>3. ~(~valid \/ Len(stdin) > MaxStdin) => valid /\ Len(stdin) <= MaxStdin
  <2>1. Len(stdin) \in Nat
    BY LenProperties DEF Texts
  <2>2. MaxStdin \in Nat
    BY LimitTypes
  <2>3. ~(Len(stdin) > MaxStdin) => Len(stdin) <= MaxStdin
    BY <2>1, <2>2
  <2> QED BY <2>3
<1>4. ASSUME valid /\ Len(stdin) <= MaxStdin PROVE Correct(name, args, stdin, a)
  <2>1. stdout \in Texts /\ Computes(name, args, stdin, stdout)
    BY <1>4
  <2>2. /\ Clamp(stdout, MaxStdout) \in Texts
        /\ ~(Len(stdout) > MaxStdout) => Clamp(stdout, MaxStdout) = stdout
    <3>1. stdout \in Seq(Bytes) /\ Len(stdout) \in Nat /\ MaxStdout \in Nat
      BY <2>1, LenProperties, LimitTypes DEF Texts
    <3>2. Clamp(stdout, MaxStdout) \in Seq(Bytes) /\ (Len(stdout) <= MaxStdout => Clamp(stdout, MaxStdout) = stdout)
      BY <3>1, ClampIs
    <3>3. ~(Len(stdout) > MaxStdout) => Len(stdout) <= MaxStdout
      BY <3>1
    <3> QED BY <3>2, <3>3 DEF Texts
  <2>3. a.ok = TRUE /\ a.output = Clamp(stdout, MaxStdout) /\ a.truncated = (Len(stdout) > MaxStdout)
    OBVIOUS
  <2>4. c.tool = name /\ c.tool \in Commands
    BY DEF Called
  <2> DEFINE whole == [ok |-> TRUE, output |-> stdout, truncated |-> FALSE]
  <2>5. whole.ok = TRUE /\ whole.output = stdout /\ whole.truncated = FALSE
    OBVIOUS
  <2>6. Agree(c, whole)
    BY <2>1 DEF Computes
  <2> HIDE DEF a, c, whole
  <2>7. ~a.truncated => a.output = whole.output /\ a.ok = whole.ok /\ ~whole.truncated
    BY <2>2, <2>3, <2>5
  <2>8. Agree(c, a)
    BY <2>6, <2>7 DEF Agree
  <2>9. Complete(c, a)
    BY <2>4 DEF Complete, Commands
  <2> QED BY <2>2, <2>3, <2>8, <2>9 DEF Correct, c
<1> HIDE DEF a, c
<1>5. CASE ~valid \/ Len(stdin) > MaxStdin
  BY <1>1, <1>2, <1>5, Responded
<1>6. CASE ~(~valid \/ Len(stdin) > MaxStdin)
  BY <1>1, <1>3, <1>4, <1>6, Responded
<1> QED BY <1>5, <1>6

(* A command may be given any text there is.                               *)
LEMMA StdinIsText ==
  ASSUME TextInv
  PROVE  \A stdin \in Stdin : stdin \in Texts
BY DEF TextInv, Stdin

(* ... and arguments that are texts.                                       *)
LEMMA ArgumentsAreTexts ==
  ASSUME NEW tool \in Commands, NEW args \in Arguments[tool]
  PROVE  args \in Seq(Texts)
<1>1. Arguments[tool] \subseteq Seq(Texts)
  BY ArgumentsAssumption, SMT DEF Commands
<1> QED BY <1>1

(* sort keeps the invariant.                                               *)
LEMMA SortKeeps == TextInv /\ RunSort => TextInv'
<1> SUFFICES ASSUME TextInv, RunSort PROVE TextInv'
  OBVIOUS
<1>1. PICK args \in Arguments["sort"], stdin \in Stdin :
        Run("sort", ValidSort(args), args, stdin, Sort(stdin, DashR \in ToSet(args), DashN \in ToSet(args)))
  BY DEF RunSort
<1> DEFINE stdout == Sort(stdin, DashR \in ToSet(args), DashN \in ToSet(args))
<1>2. stdin \in Texts /\ args \in Seq(Texts)
  BY StdinIsText, ArgumentsAreTexts DEF Commands
<1>3. stdout \in Texts /\ SortAgrees(args, SplitLines(stdin), SplitLines(stdout))
  BY <1>2, SortIs
<1>4. Run("sort", ValidSort(args), args, stdin, stdout)
  BY <1>1
<1> HIDE DEF stdout
<1>5. Computes("sort", args, stdin, stdout)
  BY <1>3 DEF Computes, Agree, Called
<1> QED BY <1>2, <1>3, <1>4, <1>5, RunKeeps DEF Commands

(* uniq keeps it.                                                          *)
LEMMA UniqKeeps == TextInv /\ RunUniq => TextInv'
<1> SUFFICES ASSUME TextInv, RunUniq PROVE TextInv'
  OBVIOUS
<1>1. PICK args \in Arguments["uniq"], stdin \in Stdin :
        Run("uniq", ValidUniq(args), args, stdin, Uniq(stdin, Len(args) = 1))
  BY DEF RunUniq
<1> DEFINE stdout == Uniq(stdin, Len(args) = 1)
<1>2. stdin \in Texts
  BY StdinIsText
<1>3. ASSUME ValidUniq(args), Len(stdin) <= MaxStdin
      PROVE  stdout \in Texts /\ UniqAgrees(args, SplitLines(stdin), SplitLines(stdout))
  <2>1. args \in {<< >>, <<DashC>>}
    BY <1>3 DEF ValidUniq
  <2> QED BY <1>2, <1>3, <2>1, UniqIs
<1>4. Run("uniq", ValidUniq(args), args, stdin, stdout)
  BY <1>1
<1> HIDE DEF stdout
<1>5. ValidUniq(args) /\ Len(stdin) <= MaxStdin => Computes("uniq", args, stdin, stdout)
  BY <1>3 DEF Computes, Agree, Called
<1> QED BY <1>2, <1>3, <1>4, <1>5, RunKeeps DEF Commands

(* wc keeps it.                                                            *)
LEMMA WcKeeps == TextInv /\ RunWC => TextInv'
<1> SUFFICES ASSUME TextInv, RunWC PROVE TextInv'
  OBVIOUS
<1>1. PICK args \in Arguments["wc"], stdin \in Stdin :
        Run("wc", ValidWC(args), args, stdin, Counts(args, WordCount(stdin)))
  BY DEF RunWC
<1> DEFINE stdout == Counts(args, WordCount(stdin))
<1>2. stdin \in Texts /\ args \in Seq(Texts)
  BY StdinIsText, ArgumentsAreTexts DEF Commands
<1>3. stdout \in Texts /\ WcAgrees(args, stdin, SplitLines(stdin), stdout)
  BY <1>2, WcIs
<1>4. Run("wc", ValidWC(args), args, stdin, stdout)
  BY <1>1
<1> HIDE DEF stdout
<1>5. Computes("wc", args, stdin, stdout)
  BY <1>3 DEF Computes, Agree, Called
<1> QED BY <1>2, <1>3, <1>4, <1>5, RunKeeps DEF Commands

(* The command head keeps it.                                              *)
LEMMA HeadKeeps == TextInv /\ RunHead => TextInv'
<1> SUFFICES ASSUME TextInv, RunHead PROVE TextInv'
  OBVIOUS
<1>1. PICK args \in Arguments["head"], stdin \in Stdin :
        Run("head", ValidLineCount(args), args, stdin, HeadLines(stdin, Value(args[2])).text)
  BY DEF RunHead
<1> DEFINE stdout == HeadLines(stdin, Value(args[2])).text
<1>2. stdin \in Texts /\ args \in Seq(Texts)
  BY StdinIsText, ArgumentsAreTexts DEF Commands
<1>3. ASSUME ValidLineCount(args)
      PROVE  stdout \in Texts /\ EndsAgree("head", args, SplitLines(stdin), SplitLines(stdout))
  BY <1>2, <1>3, HeadShown
<1>4. Run("head", ValidLineCount(args), args, stdin, stdout)
  BY <1>1
<1> HIDE DEF stdout
<1>5. ValidLineCount(args) => Computes("head", args, stdin, stdout)
  BY <1>3 DEF Computes, Agree, Called
<1> QED BY <1>2, <1>3, <1>4, <1>5, RunKeeps DEF Commands

(* The command tail keeps it.                                              *)
LEMMA TailKeeps == TextInv /\ RunTail => TextInv'
<1> SUFFICES ASSUME TextInv, RunTail PROVE TextInv'
  OBVIOUS
<1>1. PICK args \in Arguments["tail"], stdin \in Stdin :
        Run("tail", ValidLineCount(args), args, stdin, TailLines(stdin, Value(args[2])).text)
  BY DEF RunTail
<1> DEFINE stdout == TailLines(stdin, Value(args[2])).text
<1>2. stdin \in Texts /\ args \in Seq(Texts)
  BY StdinIsText, ArgumentsAreTexts DEF Commands
<1>3. ASSUME ValidLineCount(args)
      PROVE  stdout \in Texts /\ EndsAgree("tail", args, SplitLines(stdin), SplitLines(stdout))
  BY <1>2, <1>3, TailShown
<1>4. Run("tail", ValidLineCount(args), args, stdin, stdout)
  BY <1>1
<1> HIDE DEF stdout
<1>5. ValidLineCount(args) => Computes("tail", args, stdin, stdout)
  BY <1>3 DEF Computes, Agree, Called
<1> QED BY <1>2, <1>3, <1>4, <1>5, RunKeeps DEF Commands

(* cut keeps it.                                                           *)
LEMMA CutKeeps == TextInv /\ RunCut => TextInv'
<1> SUFFICES ASSUME TextInv, RunCut PROVE TextInv'
  OBVIOUS
<1>1. PICK args \in Arguments["cut"], stdin \in Stdin :
        LET parts == Split(args[4], COMMA)
        IN  Run("cut", ValidCut(args), args, stdin,
                Cut(stdin, args[2][1], [k \in DOMAIN parts |-> Value(parts[k])]))
  BY DEF RunCut
<1> DEFINE parts == Split(args[4], COMMA)
           stdout == Cut(stdin, args[2][1], [k \in DOMAIN parts |-> Value(parts[k])])
<1>2. stdin \in Texts /\ args \in Seq(Texts)
  BY StdinIsText, ArgumentsAreTexts DEF Commands
<1>3. ASSUME ValidCut(args)
      PROVE  stdout \in Texts /\ CutAgrees(args, SplitLines(stdin), stdout)
  BY <1>2, <1>3, CutIs
<1>4. Run("cut", ValidCut(args), args, stdin, stdout)
  BY <1>1
<1> HIDE DEF stdout
<1>5. ValidCut(args) => Computes("cut", args, stdin, stdout)
  BY <1>3 DEF Computes, Agree, Called
<1> QED BY <1>2, <1>3, <1>4, <1>5, RunKeeps DEF Commands

(* tr keeps it, both ways.                                                 *)
LEMMA TrKeeps == TextInv /\ RunTr => TextInv'
<1> SUFFICES ASSUME TextInv, RunTr PROVE TextInv'
  OBVIOUS
<1>1. PICK args \in Arguments["tr"], stdin \in Stdin :
        LET delete == args[1] = DashD
            sets   == IF delete THEN args[2] # << >> ELSE args[1] # << >> /\ args[2] # << >>
        IN  Run("tr", ValidTr(args) /\ sets, args, stdin,
                IF delete THEN Delete(stdin, args[2]) ELSE Translate(stdin, args[1], args[2]))
  BY DEF RunTr
<1> DEFINE delete == args[1] = DashD
           sets == IF delete THEN args[2] # << >> ELSE args[1] # << >> /\ args[2] # << >>
           stdout == IF delete THEN Delete(stdin, args[2]) ELSE Translate(stdin, args[1], args[2])
<1>2. stdin \in Texts /\ args \in Seq(Texts)
  BY StdinIsText, ArgumentsAreTexts DEF Commands
<1>3. ASSUME ValidTr(args) /\ sets
      PROVE  stdout \in Texts /\ TrAgrees(args, stdin, stdout)
  <2>1. args[1] \in Texts /\ args[2] \in Texts
    <3>1. 1 \in 1..Len(args) /\ 2 \in 1..Len(args)
      BY <1>3 DEF ValidTr
    <3> QED BY <1>2, <3>1, ElementOfSeq
  <2>2. CASE delete
    <3>1. /\ Delete(stdin, args[2]) \in Texts
          /\ Delete(stdin, args[2]) =
               FlattenSeq([i \in DOMAIN stdin |-> IF Contains(args[2], stdin[i]) THEN << >> ELSE <<stdin[i]>>])
      BY <1>2, <2>1, DeleteIs
    <3>2. stdout = Delete(stdin, args[2])
      BY <2>2
    <3> QED BY <2>2, <3>1, <3>2 DEF TrAgrees
  <2>3. CASE ~delete
    <3>1. args[2] # << >>
      BY <1>3, <2>3
    <3>2. /\ Translate(stdin, args[1], args[2]) \in Texts
          /\ Translate(stdin, args[1], args[2]) =
               [i \in DOMAIN stdin |-> Image(args[1], args[2])[Len(args[1])][stdin[i]]]
      BY <1>2, <2>1, <3>1, TranslateIs
    <3>3. stdout = Translate(stdin, args[1], args[2])
      BY <2>3
    <3> QED BY <2>3, <3>2, <3>3 DEF TrAgrees, Image
  <2> QED BY <2>2, <2>3
<1>4. Run("tr", ValidTr(args) /\ sets, args, stdin, stdout)
  BY <1>1
<1> HIDE DEF stdout, sets
<1>5. ValidTr(args) /\ sets => Computes("tr", args, stdin, stdout)
  BY <1>3 DEF Computes, Agree, Called
<1> DEFINE valid == ValidTr(args) /\ sets
<1>6. Run("tr", valid, args, stdin, stdout) /\ (valid => stdout \in Texts /\ Computes("tr", args, stdin, stdout))
  BY <1>3, <1>4, <1>5
<1> HIDE DEF valid
<1> QED BY <1>2, <1>6, RunKeeps DEF Commands

(* A refused call keeps it.                                                *)
LEMMA RefuseKeeps == TextInv /\ Refuse => TextInv'
BY Responded, RefusedIsCorrect DEF Refuse

(* The file is a text at first, and nothing was answered.                  *)
LEMMA InitIsText == Init => TextInv
<1> SUFFICES ASSUME Init PROVE TextInv
  OBVIOUS
<1>1. file \in Texts
  BY FilesAssumption DEF Init
<1>2. << >> \in Texts
  BY DEF Texts
<1>3. reply.output = << >> /\ call.tool = "none"
  BY DEF Init
<1>4. Complete(call, reply) /\ Agree(call, reply)
  BY <1>3 DEF Complete, Agree
<1> QED BY <1>1, <1>2, <1>3, <1>4 DEF TextInv

(* Where nothing changes, it holds on.                                     *)
LEMMA StutterKeeps == TextInv /\ UNCHANGED vars => TextInv'
<1> SUFFICES ASSUME TextInv, UNCHANGED vars PROVE TextInv'
  OBVIOUS
<1>1. file' = file /\ call' = call /\ reply' = reply
  BY DEF vars
<1>2. TextInv' <=> file' \in Texts /\ reply'.output \in Texts /\ Complete(call', reply') /\ Agree(call', reply')
  BY DEF TextInv
<1> QED BY <1>1, <1>2 DEF TextInv

(* Whatever calls follow one another, and whichever output is given to the *)
(* next command: the file and every answer are texts, and the last answer  *)
(* is complete or flagged and is what its command should give.             *)
THEOREM TextCorrect == Spec => []TextInv
<1>1. TextInv /\ [Next]_vars => TextInv'
  BY CatKeeps, HeadFileKeeps, TailFileKeeps, GrepFileKeeps, GrepTextKeeps, SortKeeps, UniqKeeps, WcKeeps,
     TrKeeps, HeadKeeps, TailKeeps, CutKeeps, RefuseKeeps, StutterKeeps DEF Next
<1> QED BY InitIsText, <1>1, PTL DEF Spec

(* For files, arguments and limits of any size: a file tool or grep whose  *)
(* answer is not marked as truncated has shown all the lines, or all       *)
(* matches, in full (internal/mcpserver/tools.go:445-582,                  *)
(* coreutils/text.go, coreutils/search.go).                                *)
THEOREM ReadersMayRelyOnTheFlag == Spec => []UnflaggedIsComplete
<1>1. TextInv => UnflaggedIsComplete
  BY CompleteStated DEF TextInv
<1> QED BY TextCorrect, <1>1, PTL

(* For inputs of any size up to the 64 KiB of the schema and any           *)
(* arguments: sort, uniq, wc, head, tail, cut and tr give what their       *)
(* second definitions say (internal/mcpserver/tools.go:197-226,            *)
(* coreutils/command.go, coreutils/text.go).                               *)
THEOREM CommandsCompute == Spec => []CommandsAgree
<1>1. TextInv => CommandsAgree
  BY AgreeStated DEF TextInv
<1> QED BY TextCorrect, <1>1, PTL
==============================================================================
