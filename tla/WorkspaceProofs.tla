-------------------------- MODULE WorkspaceProofs --------------------------
(***************************************************************************)
(* Proofs about WorkspaceTools: the tree, then the contents, then finds.   *)
(*                                                                         *)
(* The workspace stays a tree, for every set of workers, names, requests   *)
(* and initial workspaces.  A rename is the hard step: it moves a whole    *)
(* directory.  RenameKeepsTree says IsTree of names instead of paths       *)
(* (TreeOfNames), in which a rename is four cases by the depths of source  *)
(* and target, each of them first-order over names.  WorkspaceInv adds     *)
(* what the steps rely on: nodes of the tree are stored, links lead to the *)
(* root's entries, and no call holds a root it must not move or remove.    *)
(***************************************************************************)
EXTENDS WorkspaceTools, SequenceTheorems, FiniteSetTheorems, TLAPS

(* Paths and their prefixes. *)
LEMMA PathShape ==
  ASSUME NEW p \in Path
  PROVE  \/ p = Root /\ Len(p) = 0
         \/ \E n \in Names : p = <<n>> /\ Len(p) = 1
         \/ \E n, m \in Names : p = <<n, m>> /\ Len(p) = 2
  BY DEF Path, Root

LEMMA ShortSequences ==
  ASSUME NEW S, NEW s \in Seq(S)
  PROVE  /\ Len(s) = 1 => s = <<s[1]>>
         /\ Len(s) = 2 => s = <<s[1], s[2]>>
         /\ Len(s) = 3 => s = <<s[1], s[2], s[3]>>
  <1>1. Len(s) = 1 => s = <<s[1]>>
    OBVIOUS
  <1>2. Len(s) = 2 => s = <<s[1], s[2]>>
    OBVIOUS
  <1>3. Len(s) = 3 => s = <<s[1], s[2], s[3]>>
    OBVIOUS
  <1> QED
    BY <1>1, <1>2, <1>3

LEMMA SubSeqOfElement ==
  ASSUME NEW S, NEW s \in Seq(S), NEW i \in 1..Len(s)
  PROVE  SubSeq(s, i, i) = <<s[i]>>
  <1>1. s[i] \in S /\ i \in Int
    BY ElementOfSeq
  <1>2. \A j \in i..i : s[j] \in S
    BY <1>1
  <1>3. /\ SubSeq(s, i, i) \in Seq(S) /\ Len(SubSeq(s, i, i)) = i - i + 1
        /\ \A j \in 1..(i - i + 1) : SubSeq(s, i, i)[j] = s[i + j - 1]
    BY <1>1, <1>2, SubSeqProperties
  <1>4. Len(SubSeq(s, i, i)) = 1 /\ SubSeq(s, i, i)[1] = s[i]
    BY <1>1, <1>3
  <1>5. SubSeq(s, i, i) = <<SubSeq(s, i, i)[1]>>
    BY <1>3, <1>4, ShortSequences
  <1> QED
    BY <1>4, <1>5

LEMMA SubSeqOfPair ==
  ASSUME NEW a, NEW b
  PROVE  /\ SubSeq(<<a, b>>, 1, 0) = << >> /\ SubSeq(<<a, b>>, 1, 1) = <<a>>
         /\ SubSeq(<<a, b>>, 1, 2) = <<a, b>>
         /\ SubSeq(<<a, b>>, 2, 2) = <<b>> /\ SubSeq(<<a, b>>, 3, 2) = << >>
  <1> DEFINE s == <<a, b>>
  <1>1. s \in Seq({a, b}) /\ Len(s) = 2 /\ s[1] = a /\ s[2] = b
    OBVIOUS
  <1> HIDE DEF s
  <1>2. SubSeq(s, 1, 0) = << >> /\ SubSeq(s, 3, 2) = << >>
    BY SubSeqEmpty
  <1>3. SubSeq(s, 1, 2) = s
    BY <1>1, SubSeqFull
  <1>4. SubSeq(s, 1, 1) = <<s[1]>>
    BY <1>1, SubSeqOfElement
  <1>5. SubSeq(s, 2, 2) = <<s[2]>>
    BY <1>1, SubSeqOfElement
  <1> QED
    BY <1>1, <1>2, <1>3, <1>4, <1>5 DEF s

LEMMA SubSeqOfOne ==
  ASSUME NEW a
  PROVE  /\ SubSeq(<<a>>, 1, 0) = << >> /\ SubSeq(<<a>>, 1, 1) = <<a>>
         /\ SubSeq(<<a>>, 2, 1) = << >>
  <1> DEFINE s == <<a>>
  <1>1. s \in Seq({a}) /\ Len(s) = 1
    OBVIOUS
  <1> HIDE DEF s
  <1>2. SubSeq(s, 1, 0) = << >> /\ SubSeq(s, 2, 1) = << >>
    BY SubSeqEmpty
  <1>3. SubSeq(s, 1, 1) = s
    BY <1>1, SubSeqFull
  <1> QED
    BY <1>2, <1>3 DEF s

LEMMA Fronts ==
  ASSUME NEW n, NEW m
  PROVE  Front(<<n>>) = << >> /\ Front(<<n, m>>) = <<n>>
  BY SubSeqOfPair, SubSeqOfOne DEF Front

LEMMA Lasts ==
  ASSUME NEW n, NEW m
  PROVE  Last(<<n>>) = n /\ Last(<<n, m>>) = m
  <1>1. Len(<<n>>) = 1 /\ Len(<<n, m>>) = 2 /\ <<n>>[1] = n /\ <<n, m>>[2] = m
    OBVIOUS
  <1> QED
    BY <1>1 DEF Last

LEMMA PathPrefixes ==
  /\ \A n \in Names : ~IsPrefix(<<n>>, << >>)
  /\ \A n, m \in Names : ~IsPrefix(<<n, m>>, << >>)
  /\ \A n, m, k \in Names : ~IsPrefix(<<n, m>>, <<k>>)
  /\ \A n, k \in Names : IsPrefix(<<n>>, <<k>>) <=> n = k
  /\ \A n, k, l \in Names : IsPrefix(<<n>>, <<k, l>>) <=> n = k
  /\ \A n, m, k, l \in Names : IsPrefix(<<n, m>>, <<k, l>>) <=> n = k /\ m = l
  <1>1. /\ \A n \in Names : ~IsPrefix(<<n>>, << >>)
        /\ \A n, m \in Names : ~IsPrefix(<<n, m>>, << >>)
        /\ \A n, m, k \in Names : ~IsPrefix(<<n, m>>, <<k>>)
    BY DEF IsPrefix
  <1>2. \A n, k \in Names : IsPrefix(<<n>>, <<k>>) <=> <<n>> = <<k>>
    BY SubSeqOfOne DEF IsPrefix
  <1>3. \A n, k, l \in Names : IsPrefix(<<n>>, <<k, l>>) <=> <<n>> = <<k>>
    BY SubSeqOfPair, SubSeqOfOne DEF IsPrefix
  <1>4. \A n, m, k, l \in Names : IsPrefix(<<n, m>>, <<k, l>>) <=> <<n, m>> = <<k, l>>
    BY SubSeqOfPair DEF IsPrefix
  <1> QED
    BY <1>1, <1>2, <1>3, <1>4

LEMMA ConcatOne ==
  ASSUME NEW k, NEW l, NEW m
  PROVE  <<k>> \o <<m>> = <<k, m>> /\ <<k, l>> \o <<m>> = <<k, l, m>>
  <1> DEFINE S == {k, l, m}
             c == <<k>> \o <<m>>
             d == <<k, l>> \o <<m>>
  <1>1. /\ <<k>> \in Seq(S) /\ <<m>> \in Seq(S) /\ <<k, l>> \in Seq(S)
        /\ Len(<<k>>) = 1 /\ Len(<<m>>) = 1 /\ Len(<<k, l>>) = 2
    OBVIOUS
  <1>2. /\ c \in Seq(S) /\ Len(c) = 1 + 1
        /\ \A i \in 1..(1 + 1) : c[i] = IF i <= 1 THEN <<k>>[i] ELSE <<m>>[i - 1]
    BY <1>1, ConcatProperties
  <1>3. /\ d \in Seq(S) /\ Len(d) = 2 + 1
        /\ \A i \in 1..(2 + 1) : d[i] = IF i <= 2 THEN <<k, l>>[i] ELSE <<m>>[i - 2]
    BY <1>1, ConcatProperties
  <1> HIDE DEF S, c, d
  <1>4. Len(c) = 2 /\ c[1] = k /\ c[2] = m
    BY <1>2
  <1>5. Len(d) = 3 /\ d[1] = k /\ d[2] = l /\ d[3] = m
    BY <1>3
  <1>6. c = <<c[1], c[2]>> /\ d = <<d[1], d[2], d[3]>>
    BY <1>2, <1>3, <1>4, <1>5, ShortSequences
  <1> QED
    BY <1>4, <1>5, <1>6 DEF c, d

LEMMA BelowItself ==
  ASSUME NEW d \in Path, NEW s \in Path
  PROVE  Below(d, s, d) = s
  <1>1. s \in Seq(Names)
    <2>1. << >> \in Seq(Names) /\ (\A n \in Names : <<n>> \in Seq(Names))
      OBVIOUS
    <2>2. \A n, m \in Names : <<n, m>> \in Seq(Names)
      OBVIOUS
    <2> QED
      BY <2>1, <2>2, PathShape DEF Root
  <1>2. Len(d) \in Int
    BY PathShape
  <1>3. SubSeq(d, Len(d) + 1, Len(d)) = << >>
    BY <1>2, SubSeqEmpty
  <1> QED
    BY <1>1, <1>3, ConcatEmptySeq DEF Below

LEMMA BelowName ==
  ASSUME NEW s, NEW n \in Names, NEW m \in Names
  PROVE  Below(<<n>>, s, <<n, m>>) = s \o <<m>>
  <1>1. Len(<<n>>) = 1 /\ Len(<<n, m>>) = 2
    OBVIOUS
  <1>2. Below(<<n>>, s, <<n, m>>) = s \o SubSeq(<<n, m>>, 2, 2)
    BY <1>1 DEF Below
  <1> QED
    BY <1>2, SubSeqOfPair

-----------------------------------------------------------------------------
(* IsTree, said of names instead of paths: g is the entries of the root, h *)
(* those of its directories. *)
TwoLevels(g, h) == \A n, m \in Names : h[n][m].kind # "none" => g[n].kind = "dir"
Level1(t) == [n \in Names |-> t[<<n>>]]
Level2(t) == [n \in Names |-> [m \in Names |-> t[<<n, m>>]]]
TreeOfNames(t) == t[<< >>].kind = "dir" /\ TwoLevels(Level1(t), Level2(t))

LEMMA DifferentLengths ==
  ASSUME NEW n, NEW k, NEW l
  PROVE  << >> # <<n>> /\ << >> # <<k, l>> /\ <<n>> # <<k, l>>
  <1>1. Len(<< >>) = 0 /\ Len(<<n>>) = 1 /\ Len(<<k, l>>) = 2
    OBVIOUS
  <1> QED
    BY <1>1

LEMMA NamesInPath ==
  ASSUME NEW n \in Names, NEW m \in Names
  PROVE  << >> \in Path /\ <<n>> \in Path /\ <<n, m>> \in Path
  BY DEF Path, Root

LEMMA TreeToNames ==
  ASSUME NEW t, IsTree(t)
  PROVE  TreeOfNames(t)
  <1> DEFINE g == Level1(t)
             h == Level2(t)
  <1>1. t[<< >>].kind = "dir"
    BY DEF IsTree, Root
  <1>2. ASSUME NEW n \in Names, NEW m \in Names, h[n][m].kind # "none"
        PROVE  g[n].kind = "dir"
    <2>1. g[n] = t[<<n>>] /\ h[n][m] = t[<<n, m>>]
      BY DEF Level1, Level2
    <2>2. <<n, m>> \in Path /\ <<n, m>> # Root /\ Front(<<n, m>>) = <<n>>
      BY NamesInPath, DifferentLengths, Fronts DEF Root
    <2> QED
      BY <1>2, <2>1, <2>2 DEF IsTree
  <1> HIDE DEF g, h
  <1>3. TwoLevels(g, h)
    BY <1>2 DEF TwoLevels
  <1> QED
    BY <1>1, <1>3 DEF TreeOfNames, g, h

LEMMA TreeFromNames ==
  ASSUME NEW t, TreeOfNames(t)
  PROVE  IsTree(t)
  <1> DEFINE g == Level1(t)
             h == Level2(t)
  <1>1. t[Root].kind = "dir" /\ TwoLevels(g, h)
    BY DEF TreeOfNames, Root
  <1>2. ASSUME NEW p \in Path, t[p].kind # "none", p # Root
        PROVE  t[Front(p)].kind = "dir"
    <2>1. CASE \E n \in Names : p = <<n>>
      <3>1. Front(p) = Root
        BY <2>1, Fronts DEF Root
      <3> QED
        BY <1>1, <3>1
    <2>2. CASE \E n, m \in Names : p = <<n, m>>
      <3>1. PICK n \in Names, m \in Names : p = <<n, m>>
        BY <2>2
      <3>2. Front(p) = <<n>> /\ g[n] = t[<<n>>] /\ h[n][m] = t[p]
        BY <3>1, Fronts DEF Level1, Level2
      <3> HIDE DEF g, h
      <3> QED
        BY <1>1, <1>2, <3>2 DEF TwoLevels
    <2> QED
      BY <1>2, <2>1, <2>2, PathShape
  <1> QED
    BY <1>1, <1>2 DEF IsTree

-----------------------------------------------------------------------------
(* What a rename leaves at every path, by the lengths of source and target. *)
LEMMA MovedAt ==
  ASSUME NEW s, NEW d, NEW p \in Path
  PROVE  Moved(s, d)[p] = IF IsPrefix(d, p)
                          THEN IF Below(d, s, p) \in Path THEN fs[Below(d, s, p)] ELSE Nothing
                          ELSE IF IsPrefix(s, p) THEN Nothing ELSE fs[p]
  BY DEF Moved

LEMMA TripleNotInPath ==
  ASSUME NEW n, NEW m, NEW k
  PROVE  <<n, m, k>> \notin Path
  <1>1. Len(<<n, m, k>>) = 3
    OBVIOUS
  <1> QED
    BY <1>1, PathShape

LEMMA MoveKeepsTree ==
  ASSUME TreeIntact, NEW s \in Path, s # Root, NEW d \in Path, CanRename(s, d)
  PROVE  IsTree(Moved(s, d))
  <1> DEFINE T == Moved(s, d)
             g == Level1(fs)
             h == Level2(fs)
             G == Level1(T)
             H == Level2(T)
  <1>1. fs[<< >>].kind = "dir" /\ TwoLevels(g, h)
    BY TreeToNames DEF TreeIntact, TreeOfNames
  <1>2. /\ fs[s].kind # "none" /\ fs[d].kind # "dir" /\ fs[Front(d)].kind = "dir"
        /\ ~Inside(d, s)
    BY DEF CanRename, Exists, IsDir
  <1>3. d # Root
    BY <1>1, <1>2 DEF Root
  <1>4. Nothing.kind = "none" /\ Nothing.kind # "file"
    BY DEF Nothing
  <1>5. T[<< >>] = fs[<< >>]
    <2>1. ~IsPrefix(s, << >>) /\ ~IsPrefix(d, << >>) /\ << >> \in Path
      BY <1>3, PathShape, PathPrefixes DEF Root, Path
    <2> QED
      BY <2>1, MovedAt
  <1>6. ASSUME NEW y \in Names, s = <<y>>,
               NEW x \in Names, d = <<x>>
        PROVE  TwoLevels(G, H)
    <2>1. ASSUME NEW n \in Names, NEW m \in Names
          PROVE  /\ n = x => G[n] = g[y]
                 /\ n # x /\ n = y => G[n] = Nothing
                 /\ n # x /\ n # y => G[n] = g[n]
                 /\ n = x => H[n][m] = h[y][m]
                 /\ n # x /\ n = y => H[n][m] = Nothing
                 /\ n # x /\ n # y => H[n][m] = h[n][m]
      <3> DEFINE p == <<n>>
                 q == <<n, m>>
      <3>1. p \in Path /\ q \in Path
        BY NamesInPath
      <3>2. /\ IsPrefix(d, p) <=> n = x
            /\ IsPrefix(s, p) <=> n = y
            /\ IsPrefix(d, q) <=> n = x
            /\ IsPrefix(s, q) <=> n = y
        BY <1>6, PathPrefixes
      <3>3. G[n] = T[p] /\ H[n][m] = T[q] /\ g[n] = fs[p] /\ h[n][m] = fs[q]
        BY DEF Level1, Level2
      <3>4. g[y] = fs[s]
        BY <1>6 DEF Level1, Level2
      <3>5. n = x => Below(d, s, p) = s /\ Below(d, s, q) = <<y, m>>
        <4>1. Below(d, s, d) = s
          BY BelowItself
        <4>2. Below(<<n>>, s, q) = s \o <<m>>
          BY BelowName
        <4>3. s \o <<m>> = <<y, m>>
          BY <1>6, ConcatOne
        <4> QED
          BY <1>6, <4>1, <4>2, <4>3
      <3>6. <<y, m>> \in Path /\ h[y][m] = fs[<<y, m>>]
        BY NamesInPath DEF Level2
      <3> HIDE DEF T, g, h, G, H, p, q
      <3>7. /\ n = x => T[p] = fs[s]
            /\ n # x /\ n = y => T[p] = Nothing
            /\ n # x /\ n # y => T[p] = fs[p]
        BY <3>1, <3>2, <3>5, MovedAt DEF T
      <3>8. /\ n = x => T[q] = fs[<<y, m>>]
            /\ n # x /\ n = y => T[q] = Nothing
            /\ n # x /\ n # y => T[q] = fs[q]
        BY <3>1, <3>2, <3>5, <3>6, MovedAt DEF T
      <3> QED
        BY <3>3, <3>4, <3>6, <3>7, <3>8
    <2>2. g[y].kind # "none"
      BY <1>2, <1>6 DEF Level1, Level2
    <2>3. g[x].kind # "dir"
      BY <1>2, <1>6 DEF Level1
    <2> HIDE DEF T, g, h, G, H
    <2> QED
      BY <1>1, <1>4, <2>1, <2>2, <2>3 DEF TwoLevels
  <1>7. ASSUME NEW y \in Names, NEW z \in Names, s = <<y, z>>,
               NEW x \in Names, d = <<x>>
        PROVE  TwoLevels(G, H)
    <2>1. ASSUME NEW n \in Names, NEW m \in Names
          PROVE  /\ n = x => G[n] = h[y][z]
                 /\ n # x => G[n] = g[n]
                 /\ n = x \/ (n = y /\ m = z) => H[n][m] = Nothing
                 /\ ~(n = x \/ (n = y /\ m = z)) => H[n][m] = h[n][m]
      <3> DEFINE p == <<n>>
                 q == <<n, m>>
      <3>1. p \in Path /\ q \in Path
        BY NamesInPath
      <3>2. /\ ~IsPrefix(s, p)
            /\ IsPrefix(d, p) <=> n = x
            /\ IsPrefix(d, q) <=> n = x
            /\ IsPrefix(s, q) <=> n = y /\ m = z
        BY <1>7, PathPrefixes
      <3>3. G[n] = T[p] /\ H[n][m] = T[q] /\ g[n] = fs[p] /\ h[n][m] = fs[q]
        BY DEF Level1, Level2
      <3>4. h[y][z] = fs[s]
        BY <1>7 DEF Level1, Level2
      <3>5. n = x => Below(d, s, p) = s /\ Below(d, s, q) \notin Path
        <4>1. Below(d, s, d) = s
          BY BelowItself
        <4>2. Below(<<n>>, s, q) = s \o <<m>>
          BY BelowName
        <4>3. s \o <<m>> = <<y, z, m>>
          BY <1>7, ConcatOne
        <4>4. <<y, z, m>> \notin Path
          BY TripleNotInPath
        <4> QED
          BY <1>7, <4>1, <4>2, <4>3, <4>4
      <3> HIDE DEF T, g, h, G, H, p, q
      <3>6. /\ n = x => T[p] = fs[s]
            /\ n # x => T[p] = fs[p]
        BY <3>1, <3>2, <3>5, MovedAt DEF T
      <3>7. /\ n = x \/ (n = y /\ m = z) => T[q] = Nothing
            /\ ~(n = x \/ (n = y /\ m = z)) => T[q] = fs[q]
        BY <3>1, <3>2, <3>5, MovedAt DEF T
      <3> QED
        BY <3>3, <3>4, <3>6, <3>7
    <2>2. h[y][z].kind # "none"
      BY <1>2, <1>7 DEF Level1, Level2
    <2>3. g[x].kind # "dir"
      BY <1>2, <1>7 DEF Level1
    <2> HIDE DEF T, g, h, G, H
    <2> QED
      BY <1>1, <1>4, <2>1, <2>2, <2>3 DEF TwoLevels
  <1>8. ASSUME NEW y \in Names, s = <<y>>,
               NEW x \in Names, NEW w \in Names, d = <<x, w>>
        PROVE  TwoLevels(G, H)
    <2>1. ASSUME NEW n \in Names, NEW m \in Names
          PROVE  /\ n = y => G[n] = Nothing
                 /\ n # y => G[n] = g[n]
                 /\ n = x /\ m = w => H[n][m] = g[y]
                 /\ ~(n = x /\ m = w) /\ n = y => H[n][m] = Nothing
                 /\ ~(n = x /\ m = w) /\ n # y => H[n][m] = h[n][m]
      <3> DEFINE p == <<n>>
                 q == <<n, m>>
      <3>1. p \in Path /\ q \in Path
        BY NamesInPath
      <3>2. /\ ~IsPrefix(d, p)
            /\ IsPrefix(s, p) <=> n = y
            /\ IsPrefix(d, q) <=> n = x /\ m = w
            /\ IsPrefix(s, q) <=> n = y
        BY <1>8, PathPrefixes
      <3>3. G[n] = T[p] /\ H[n][m] = T[q] /\ g[n] = fs[p] /\ h[n][m] = fs[q]
        BY DEF Level1, Level2
      <3>4. g[y] = fs[s]
        BY <1>8 DEF Level1, Level2
      <3>5. n = x /\ m = w => Below(d, s, q) = s
        <4>1. Below(d, s, d) = s
          BY BelowItself
        <4> QED
          BY <1>8, <4>1
      <3> HIDE DEF T, g, h, G, H, p, q
      <3>6. /\ n = y => T[p] = Nothing
            /\ n # y => T[p] = fs[p]
        BY <3>1, <3>2, <3>5, MovedAt DEF T
      <3>7. /\ n = x /\ m = w => T[q] = fs[s]
            /\ ~(n = x /\ m = w) /\ n = y => T[q] = Nothing
            /\ ~(n = x /\ m = w) /\ n # y => T[q] = fs[q]
        BY <3>1, <3>2, <3>5, MovedAt DEF T
      <3> QED
        BY <3>3, <3>4, <3>6, <3>7
    <2>2. g[y].kind # "none"
      BY <1>2, <1>8 DEF Level1, Level2
    <2>3. g[x].kind = "dir"
      <3>1. Front(d) = <<x>>
        BY <1>8, Fronts
      <3> QED
        BY <1>2, <3>1 DEF Level1
    <2>4. x # y
      <3>1. Len(<<y>>) = 1 /\ Len(<<x, w>>) = 2
        OBVIOUS
      <3> QED
        BY <1>2, <1>8, <3>1, PathPrefixes DEF Inside
    <2> HIDE DEF T, g, h, G, H
    <2> QED
      BY <1>1, <1>4, <2>1, <2>2, <2>3, <2>4 DEF TwoLevels
  <1>9. ASSUME NEW y \in Names, NEW z \in Names, s = <<y, z>>,
               NEW x \in Names, NEW w \in Names, d = <<x, w>>
        PROVE  TwoLevels(G, H)
    <2>1. ASSUME NEW n \in Names, NEW m \in Names
          PROVE  /\ G[n] = g[n]
                 /\ n = x /\ m = w => H[n][m] = h[y][z]
                 /\ ~(n = x /\ m = w) /\ n = y /\ m = z => H[n][m] = Nothing
                 /\ ~(n = x /\ m = w) /\ ~(n = y /\ m = z) => H[n][m] = h[n][m]
      <3> DEFINE p == <<n>>
                 q == <<n, m>>
      <3>1. p \in Path /\ q \in Path
        BY NamesInPath
      <3>2. /\ ~IsPrefix(d, p) /\ ~IsPrefix(s, p)
            /\ IsPrefix(d, q) <=> n = x /\ m = w
            /\ IsPrefix(s, q) <=> n = y /\ m = z
        BY <1>9, PathPrefixes
      <3>3. G[n] = T[p] /\ H[n][m] = T[q] /\ g[n] = fs[p] /\ h[n][m] = fs[q]
        BY DEF Level1, Level2
      <3>4. h[y][z] = fs[s]
        BY <1>9 DEF Level1, Level2
      <3>5. n = x /\ m = w => Below(d, s, q) = s
        <4>1. Below(d, s, d) = s
          BY BelowItself
        <4> QED
          BY <1>9, <4>1
      <3> HIDE DEF T, g, h, G, H, p, q
      <3>6. /\ T[p] = fs[p]
        BY <3>1, <3>2, <3>5, MovedAt DEF T
      <3>7. /\ n = x /\ m = w => T[q] = fs[s]
            /\ ~(n = x /\ m = w) /\ n = y /\ m = z => T[q] = Nothing
            /\ ~(n = x /\ m = w) /\ ~(n = y /\ m = z) => T[q] = fs[q]
        BY <3>1, <3>2, <3>5, MovedAt DEF T
      <3> QED
        BY <3>3, <3>4, <3>6, <3>7
    <2>2. h[y][z].kind # "none"
      BY <1>2, <1>9 DEF Level1, Level2
    <2>3. g[x].kind = "dir"
      <3>1. Front(d) = <<x>>
        BY <1>9, Fronts
      <3> QED
        BY <1>2, <3>1 DEF Level1
    <2> HIDE DEF T, g, h, G, H
    <2> QED
      BY <1>1, <1>4, <2>1, <2>2, <2>3 DEF TwoLevels
  <1>10. TwoLevels(G, H)
    BY <1>3, <1>6, <1>7, <1>8, <1>9, PathShape DEF Root
  <1> QED
    BY <1>1, <1>5, <1>10, TreeFromNames DEF TreeOfNames

LEMMA RenameKeepsTree ==
  ASSUME TreeIntact, NEW s \in Path, s # Root, NEW d \in Path, CanRename(s, d)
  PROVE  IsTree(Renamed(s, d))
  BY MoveKeepsTree DEF Renamed, TreeIntact

-----------------------------------------------------------------------------
(* The other changes of the tree. *)
LEMMA RemoveKeepsTree ==
  ASSUME TreeIntact, fs \in [Path -> Entry], NEW d \in Path, d # Root, CanRemove(d)
  PROVE  IsTree(Removed(d))
  <1>1. \A p \in Path : Removed(d)[p] = IF p = d THEN Nothing ELSE fs[p]
    BY DEF Removed
  <1>2. Nothing.kind = "none"
    BY DEF Nothing
  <1>3. Root \in Path
    BY DEF Path
  <1>4. ASSUME NEW p \in Path, Removed(d)[p].kind # "none", p # Root
        PROVE  Removed(d)[Front(p)].kind = "dir"
    <2>1. p # d /\ fs[p].kind # "none" /\ fs[Front(p)].kind = "dir"
      BY <1>1, <1>2, <1>4 DEF TreeIntact, IsTree
    <2>2. Front(p) \in Path /\ (Front(p) = d => Inside(p, d))
      <3>1. CASE \E n \in Names : p = <<n>>
        BY <1>3, <3>1, Fronts DEF Root
      <3>2. CASE \E n, m \in Names : p = <<n, m>>
        <4>1. PICK n \in Names, m \in Names : p = <<n, m>>
          BY <3>2
        <4>2. Front(p) = <<n>> /\ <<n>> \in Path /\ IsPrefix(<<n>>, p)
          BY <4>1, Fronts, NamesInPath, PathPrefixes
        <4>3. Len(p) = 2 /\ Len(<<n>>) = 1
          BY <4>1
        <4> QED
          BY <4>2, <4>3 DEF Inside
      <3> QED
        BY <1>4, <3>1, <3>2, PathShape
    <2>3. Front(p) # d
      BY <2>1, <2>2 DEF CanRemove, HasEntries, Exists
    <2> QED
      BY <1>1, <2>1, <2>2, <2>3
  <1>5. Removed(d)[Root].kind = "dir"
    BY <1>1, <1>3 DEF TreeIntact, IsTree
  <1> QED
    BY <1>4, <1>5 DEF IsTree

LEMMA AddKeepsTree ==
  ASSUME TreeIntact, fs \in [Path -> Entry], NEW d \in Path, NEW e,
         ~Exists(d), IsDir(Front(d))
  PROVE  IsTree([fs EXCEPT ![d] = e])
  <1> DEFINE t == [fs EXCEPT ![d] = e]
  <1>1. \A p \in Path : t[p] = IF p = d THEN e ELSE fs[p]
    OBVIOUS
  <1>2. Root \in Path /\ fs[Root].kind = "dir" /\ d # Root
    BY DEF Path, TreeIntact, IsTree, Exists
  <1> HIDE DEF t
  <1>3. t[Root].kind = "dir"
    BY <1>1, <1>2
  <1>4. ASSUME NEW p \in Path, t[p].kind # "none", p # Root
        PROVE  t[Front(p)].kind = "dir"
    <2>1. fs[Front(p)].kind = "dir"
      BY <1>1, <1>4 DEF TreeIntact, IsTree, IsDir
    <2>2. Front(p) \in Path
      <3>1. CASE \E n \in Names : p = <<n>>
        BY <1>2, <3>1, Fronts DEF Root
      <3>2. CASE \E n, m \in Names : p = <<n, m>>
        BY <3>2, Fronts, NamesInPath
      <3> QED
        BY <1>4, <3>1, <3>2, PathShape
    <2>3. Front(p) # d
      BY <2>1 DEF Exists
    <2> QED
      BY <1>1, <2>1, <2>2, <2>3
  <1>5. IsTree(t)
    BY <1>3, <1>4 DEF IsTree
  <1> QED
    BY <1>5 DEF t

-----------------------------------------------------------------------------
(* What every reachable state satisfies besides. *)
SoundEntry(e) == /\ e \in Entry
                 /\ e.kind = "link" => Len(e.target) = 1
                 /\ e.kind = "file" => e.node \in 1..Len(data)
SoundTree(t) == t \in [Path -> Entry] /\ \A p \in Path : SoundEntry(t[p])
IsSequence(s) == \E S : s \in Seq(S)
RecordsKept == IsSequence(data) /\ asked \in Seq(Request) /\ transport \in DOMAIN Requests

CallFields == {"pc", "id", "source", "path", "input", "output", "todo", "found", "truncated"}
GoodCall(c) ==
    /\ DOMAIN c = CallFields
    /\ c.source \in Path /\ c.path \in Path
    /\ c.pc # "idle" => c.id \in 1..Len(asked)
    /\ c.pc \in {"path", "check", "act"} /\ asked[c.id].tool = "mv" => c.source # Root
    /\ c.pc \in {"check", "act"} /\ asked[c.id].tool \in {"rm", "rmdir"} => c.path # Root
GoodCalls == DOMAIN call = Workers /\ \A w \in Workers : GoodCall(call[w])

WorkspaceInv == TreeIntact /\ SoundTree(fs) /\ RecordsKept /\ GoodCalls

LEMMA RequestAsked ==
  ASSUME WorkspaceInv, NEW w \in Workers, ~At(w, "idle")
  PROVE  Req(w) \in Request /\ Req(w).path \in Path /\ Req(w).source \in Path
  <1>1. call[w].id \in 1..Len(asked)
    BY DEF WorkspaceInv, GoodCalls, GoodCall, At
  <1>2. asked[call[w].id] \in Request
    BY <1>1, ElementOfSeq DEF WorkspaceInv, RecordsKept
  <1> QED
    BY <1>2 DEF Req, Request

LEMMA FollowType ==
  ASSUME SoundTree(fs), NEW p \in Path
  PROVE  Follow(p) \in Path
  BY DEF SoundTree, Entry, Follow

LEMMA FollowName ==
  ASSUME SoundTree(fs), NEW n \in Names
  PROVE  \E m \in Names : Follow(<<n>>) = <<m>>
  <1>1. <<n>> \in Path
    BY NamesInPath
  <1>2. CASE fs[<<n>>].kind = "link"
    <2>1. fs[<<n>>].target \in Path /\ Len(fs[<<n>>].target) = 1
      BY <1>1, <1>2 DEF SoundTree, SoundEntry, Entry
    <2>2. \E m \in Names : fs[<<n>>].target = <<m>>
      BY <2>1, PathShape
    <2> QED
      BY <1>2, <2>2 DEF Follow
  <1>3. CASE fs[<<n>>].kind # "link"
    BY <1>3 DEF Follow
  <1> QED
    BY <1>2, <1>3

LEMMA AppendOne ==
  ASSUME NEW m, NEW k
  PROVE  Append(<< >>, m) = <<m>> /\ Append(<<k>>, m) = <<k, m>>
  <1> DEFINE S == {k, m}
             a == Append(<< >>, m)
             b == Append(<<k>>, m)
  <1>1. << >> \in Seq(S) /\ <<k>> \in Seq(S) /\ m \in S /\ Len(<<k>>) = 1 /\ <<k>>[1] = k
    OBVIOUS
  <1>2. a \in Seq(S) /\ Len(a) = 1 /\ a[1] = m
    BY <1>1, AppendProperties
  <1>3. b \in Seq(S) /\ Len(b) = 2 /\ b[1] = k /\ b[2] = m
    BY <1>1, AppendProperties
  <1> HIDE DEF S, a, b
  <1>4. a = <<a[1]>> /\ b = <<b[1], b[2]>>
    BY <1>2, <1>3, ShortSequences
  <1> QED
    BY <1>2, <1>3, <1>4 DEF a, b

LEMMA EvalSymlinksOf ==
  ASSUME NEW n \in Names, NEW m \in Names
  PROVE  /\ EvalSymlinks(<< >>) = Follow(<< >>)
         /\ EvalSymlinks(<<n>>) = Follow(<<n>>)
         /\ EvalSymlinks(<<n, m>>) = Append(Follow(<<n>>), m)
  <1>1. Len(<< >>) = 0 /\ Len(<<n>>) = 1 /\ Len(<<n, m>>) = 2
    OBVIOUS
  <1>2. <<n, m>>[1] = n /\ <<n, m>>[2] = m
    OBVIOUS
  <1> QED
    BY <1>1, <1>2 DEF EvalSymlinks

LEMMA EvalSymlinksType ==
  ASSUME SoundTree(fs), NEW p \in Path
  PROVE  EvalSymlinks(p) \in Path
  <1>1. CASE p = Root
    BY <1>1, EvalSymlinksOf, FollowType, PathShape DEF Root, EvalSymlinks
  <1>2. CASE \E n \in Names : p = <<n>>
    BY <1>2, EvalSymlinksOf, FollowType
  <1>3. CASE \E n, m \in Names : p = <<n, m>>
    <2>1. PICK n \in Names, m \in Names : p = <<n, m>>
      BY <1>3
    <2>2. PICK k \in Names : Follow(<<n>>) = <<k>>
      BY FollowName
    <2>3. EvalSymlinks(p) = <<k, m>>
      BY <2>1, <2>2, EvalSymlinksOf, AppendOne
    <2> QED
      BY <2>3, NamesInPath
  <1> QED
    BY <1>1, <1>2, <1>3, PathShape

LEMMA ResolvedPathType ==
  ASSUME TreeIntact, SoundTree(fs), NEW req \in Request, CanResolve(req)
  PROVE  /\ ResolvedPath(req) \in Path
         /\ req.tool \in {"rm", "rmdir"} => ResolvedPath(req) # Root
  <1> DEFINE p == req.path
  <1>1. p \in Path
    BY DEF Request
  <1>2. EvalSymlinks(p) \in Path
    BY <1>1, EvalSymlinksType
  <1>3. CASE Exists(EvalSymlinks(p))
    BY <1>2, <1>3 DEF CanResolve, ResolvedPath
  <1>4. CASE ~Exists(EvalSymlinks(p))
    <2>1. Creates(req.tool) /\ ResolvedPath(req) = Append(EvalSymlinks(Front(p)), Last(p))
      BY <1>4 DEF CanResolve, ResolvedPath
    <2>2. fs[Root].kind = "dir"
      BY DEF TreeIntact, IsTree
    <2>3. EvalSymlinks(Root) = Root
      BY <2>2 DEF EvalSymlinks, Follow, Root
    <2>4. p # Root
      BY <1>4, <2>2, <2>3 DEF Exists
    <2>5. CASE \E n \in Names : p = <<n>>
      <3>1. PICK n \in Names : p = <<n>>
        BY <2>5
      <3>2. Front(p) = Root /\ Last(p) = n
        BY <3>1, Fronts, Lasts DEF Root
      <3>3. ResolvedPath(req) = <<n>>
        BY <2>1, <2>3, <3>2, AppendOne DEF Root
      <3> QED
        BY <2>1, <3>3, NamesInPath DEF Creates
    <2>6. CASE \E n, m \in Names : p = <<n, m>>
      <3>1. PICK n \in Names, m \in Names : p = <<n, m>>
        BY <2>6
      <3>2. Front(p) = <<n>> /\ Last(p) = m
        BY <3>1, Fronts, Lasts
      <3>3. PICK k \in Names : Follow(<<n>>) = <<k>>
        BY FollowName
      <3>4. EvalSymlinks(<<n>>) = <<k>>
        BY <3>3, EvalSymlinksOf
      <3>5. ResolvedPath(req) = <<k, m>>
        BY <2>1, <3>2, <3>4, AppendOne
      <3> QED
        BY <2>1, <3>5, NamesInPath DEF Creates
    <2> QED
      BY <1>1, <2>4, <2>5, <2>6, PathShape
  <1> QED
    BY <1>3, <1>4

-----------------------------------------------------------------------------
(* Parts of a step. *)
LEMMA SameWorkspace ==
  ASSUME WorkspaceInv, UNCHANGED <<fs, data>>
  PROVE  TreeIntact' /\ SoundTree(fs)' /\ IsSequence(data)'
  BY DEF WorkspaceInv, TreeIntact, IsTree, FilesIn, SoundTree, SoundEntry, RecordsKept, IsSequence

LEMMA Rewritten ==
  ASSUME WorkspaceInv, NEW n, NEW v
  PROVE  /\ IsSequence([data EXCEPT ![n] = v])
         /\ Len([data EXCEPT ![n] = v]) = Len(data)
  <1>1. PICK S : data \in Seq(S)
    BY DEF WorkspaceInv, RecordsKept, IsSequence
  <1>2. CASE n \in 1..Len(data)
    <2>1. data \in Seq(S \cup {v}) /\ v \in S \cup {v}
      BY <1>1
    <2>2. /\ [data EXCEPT ![n] = v] \in Seq(S \cup {v})
          /\ Len([data EXCEPT ![n] = v]) = Len(data)
      BY <1>2, <2>1, ExceptSeq
    <2> QED
      BY <2>2 DEF IsSequence
  <1>3. CASE n \notin 1..Len(data)
    <2>1. n \notin DOMAIN data
      BY <1>1, <1>3
    <2>2. [data EXCEPT ![n] = v] = data
      BY <1>1, <2>1
    <2> QED
      BY <1>1, <2>2 DEF IsSequence
  <1> QED
    BY <1>2, <1>3

LEMMA SameTree ==
  ASSUME WorkspaceInv, fs' = fs, NEW n, NEW v, data' = [data EXCEPT ![n] = v]
  PROVE  TreeIntact' /\ SoundTree(fs)' /\ IsSequence(data)'
  <1>1. IsSequence(data)' /\ Len(data') = Len(data)
    BY Rewritten DEF IsSequence
  <1>2. TreeIntact'
    BY DEF WorkspaceInv, TreeIntact, IsTree, FilesIn
  <1>3. SoundTree(fs)'
    BY <1>1 DEF WorkspaceInv, SoundTree, SoundEntry
  <1> QED
    BY <1>1, <1>2, <1>3

LEMMA OneCallChanges ==
  ASSUME WorkspaceInv, NEW w \in Workers, UNCHANGED asked, DOMAIN call' = Workers,
         \A v \in Workers : v # w => call'[v] = call[v], GoodCall(call[w])'
  PROVE  GoodCalls'
  <1>1. ASSUME NEW v \in Workers
        PROVE  GoodCall(call[v])'
    <2>1. CASE v = w
      BY <2>1
    <2>2. CASE v # w
      BY <2>2 DEF WorkspaceInv, GoodCalls, GoodCall
    <2> QED
      BY <2>1, <2>2
  <1> QED
    BY <1>1 DEF GoodCalls

LEMMA IdleIsGood ==
  ASSUME NEW w \in Workers, call'[w] = Idle
  PROVE  GoodCall(call[w])'
  <1>1. DOMAIN Idle = CallFields /\ Idle.pc = "idle" /\ Idle.source = Root /\ Idle.path = Root
    BY DEF Idle, CallFields
  <1>2. Root \in Path
    BY DEF Path
  <1> QED
    BY <1>1, <1>2 DEF GoodCall

LEMMA CallFinishes ==
  ASSUME WorkspaceInv, NEW w \in Workers, UNCHANGED asked, call' = [call EXCEPT ![w] = Idle]
  PROVE  GoodCalls'
  <1>1. DOMAIN call' = Workers /\ call'[w] = Idle /\ \A v \in Workers : v # w => call'[v] = call[v]
    BY DEF WorkspaceInv, GoodCalls
  <1> QED
    BY <1>1, IdleIsGood, OneCallChanges

LEMMA CallGoesOn ==
  ASSUME WorkspaceInv, NEW w \in Workers, ~At(w, "idle"), UNCHANGED asked,
         NEW c, call' = [call EXCEPT ![w] = c], DOMAIN c = CallFields, c.id = call[w].id,
         c.source \in Path, c.path \in Path,
         c.pc \in {"path", "check", "act"} /\ Req(w).tool = "mv" => c.source # Root,
         c.pc \in {"check", "act"} /\ Req(w).tool \in {"rm", "rmdir"} => c.path # Root
  PROVE  GoodCalls'
  <1>1. DOMAIN call' = Workers /\ call'[w] = c /\ \A v \in Workers : v # w => call'[v] = call[v]
    BY DEF WorkspaceInv, GoodCalls
  <1>2. c.id \in 1..Len(asked)
    BY DEF WorkspaceInv, GoodCalls, GoodCall, At
  <1>3. GoodCall(call[w])'
    BY <1>1, <1>2 DEF GoodCall, Req
  <1> QED
    BY <1>1, <1>3, OneCallChanges

LEMMA CallFailed ==
  ASSUME WorkspaceInv, NEW w \in Workers, Fail(w), Quiet
  PROVE  WorkspaceInv'
  <1>1. UNCHANGED <<fs, data, asked, transport>> /\ call' = [call EXCEPT ![w] = Idle]
    BY DEF Fail, Finish, Quiet
  <1>2. GoodCalls'
    BY <1>1, CallFinishes
  <1>3. RecordsKept'
    BY <1>1, SameWorkspace DEF WorkspaceInv, RecordsKept
  <1> QED
    BY <1>1, <1>2, <1>3, SameWorkspace DEF WorkspaceInv

LEMMA CallAt ==
  ASSUME WorkspaceInv, NEW w \in Workers, ~At(w, "idle")
  PROVE  /\ DOMAIN call[w] = CallFields
         /\ call[w].source \in Path /\ call[w].path \in Path
         /\ call[w].pc \in {"path", "check", "act"} /\ Req(w).tool = "mv"
                => call[w].source # Root
         /\ call[w].pc \in {"check", "act"} /\ Req(w).tool \in {"rm", "rmdir"}
                => call[w].path # Root
  BY DEF WorkspaceInv, GoodCalls, GoodCall, Req

LEMMA Reads ==
  ASSUME WorkspaceInv, UNCHANGED <<fs, data>>, Quiet, GoodCalls'
  PROVE  WorkspaceInv'
  <1>1. asked' = asked /\ transport' = transport
    BY DEF Quiet
  <1>2. RecordsKept'
    BY <1>1, SameWorkspace DEF WorkspaceInv, RecordsKept
  <1> QED
    BY <1>2, SameWorkspace DEF WorkspaceInv

-----------------------------------------------------------------------------
(* The steps. *)
LEMMA InitEstablishes == Init => WorkspaceInv
  <1> SUFFICES ASSUME Init
               PROVE  WorkspaceInv
    OBVIOUS
  <1>1. /\ fs \in [Path -> Entry] /\ IsTree(fs)
        /\ IsFiniteSet(NodesIn(fs)) /\ NodesIn(fs) = 1..Cardinality(NodesIn(fs))
        /\ \A p \in Path : fs[p].kind = "link" => Len(p) = 1 /\ Len(fs[p].target) = 1
    BY WorkspaceAssumption DEF Init
  <1> DEFINE n == Cardinality(NodesIn(fs))
  <1>2. n \in Nat
    BY <1>1, FS_CardinalityType
  <1> HIDE DEF n
  <1>3. NodesIn(fs) = 1..n
    BY <1>1 DEF n
  <1>4. data \in Seq({<<0>>}) /\ Len(data) = n
    <2>1. data \in [1..n -> {<<0>>}]
      BY <1>3 DEF Init
    <2> QED
      BY <1>2, <2>1
  <1>5. SoundTree(fs)
    <2>1. \A p \in FilesIn(fs) : fs[p].node \in 1..n
      BY <1>3 DEF NodesIn
    <2> QED
      BY <1>1, <1>4, <2>1 DEF SoundTree, SoundEntry, FilesIn
  <1>6. RecordsKept
    BY <1>4 DEF Init, RecordsKept, IsSequence
  <1>7. GoodCalls
    <2>1. DOMAIN Idle = CallFields /\ Idle.pc = "idle" /\ Idle.source = Root /\ Idle.path = Root
      BY DEF Idle, CallFields
    <2>2. Root \in Path
      BY DEF Path
    <2> QED
      BY <2>1, <2>2 DEF Init, GoodCalls, GoodCall
  <1> QED
    BY <1>1, <1>5, <1>6, <1>7 DEF WorkspaceInv, TreeIntact

LEMMA BeginKeeps ==
  ASSUME WorkspaceInv, NEW w \in Workers, Begin(w)
  PROVE  WorkspaceInv'
  <1>1. PICK req \in Requests[transport] :
            /\ asked' = Append(asked, req)
            /\ call' = [call EXCEPT ![w] =
                  [Idle EXCEPT !.pc = IF req.tool \in {"cp", "mv"} THEN "source" ELSE "path",
                               !.id = Len(asked) + 1]]
    BY DEF Begin
  <1>2. UNCHANGED <<transport, fs, data>> /\ At(w, "idle")
    BY DEF Begin
  <1>3. req \in Request /\ asked \in Seq(Request)
    BY <1>1, WorkspaceAssumption DEF WorkspaceInv, RecordsKept
  <1>4. /\ asked' \in Seq(Request) /\ Len(asked') = Len(asked) + 1
        /\ \A i \in 1..Len(asked) : asked'[i] = asked[i]
        /\ asked'[Len(asked) + 1] = req /\ Len(asked) \in Nat
    BY <1>1, <1>3, AppendProperties, LenProperties
  <1>5. ASSUME NEW v \in Workers
        PROVE  GoodCall(call[v])'
    <2>1. CASE v = w
      <3> DEFINE c == [Idle EXCEPT !.pc = IF req.tool \in {"cp", "mv"} THEN "source" ELSE "path",
                                   !.id = Len(asked) + 1]
      <3>1. call'[v] = c
        BY <1>1, <2>1 DEF WorkspaceInv, GoodCalls
      <3>2. /\ DOMAIN c = CallFields /\ c.source = Root /\ c.path = Root
            /\ c.pc = IF req.tool \in {"cp", "mv"} THEN "source" ELSE "path"
            /\ c.id = Len(asked) + 1
        BY DEF Idle, CallFields
      <3>3. Root \in Path
        BY DEF Path
      <3> HIDE DEF c
      <3> QED
        BY <1>4, <3>1, <3>2, <3>3 DEF GoodCall
    <2>2. CASE v # w
      <3>1. call'[v] = call[v] /\ GoodCall(call[v])
        BY <1>1, <2>2 DEF WorkspaceInv, GoodCalls
      <3> QED
        BY <1>4, <3>1 DEF GoodCall
    <2> QED
      BY <2>1, <2>2
  <1>6. GoodCalls'
    BY <1>1, <1>5 DEF WorkspaceInv, GoodCalls
  <1>7. RecordsKept'
    BY <1>2, <1>4, SameWorkspace DEF WorkspaceInv, RecordsKept
  <1> QED
    BY <1>2, <1>6, <1>7, SameWorkspace DEF WorkspaceInv

LEMMA ResolveSourceKeeps ==
  ASSUME WorkspaceInv, NEW w \in Workers, ResolveSource(w)
  PROVE  WorkspaceInv'
  <1> DEFINE p == EvalSymlinks(Req(w).source)
             accepted == /\ Exists(p)
                         /\ Req(w).tool = "cp" => IsFile(p) /\ Len(data[fs[p].node]) <= MaxCopy
                         /\ Req(w).tool = "mv" => p # Root
  <1>1. CASE accepted
    <2> DEFINE c == [call[w] EXCEPT !.source = p, !.pc = "path"]
    <2>1. UNCHANGED <<fs, data>> /\ Quiet /\ ~At(w, "idle") /\ call' = [call EXCEPT ![w] = c]
      BY <1>1 DEF ResolveSource, At
    <2>2. p \in Path
      BY <2>1, RequestAsked, EvalSymlinksType DEF WorkspaceInv
    <2>3. DOMAIN call[w] = CallFields /\ call[w].path \in Path
      BY <2>1, CallAt
    <2>4. /\ DOMAIN c = CallFields /\ c.source = p /\ c.pc = "path" /\ c.path = call[w].path
          /\ c.id = call[w].id
      BY <2>3 DEF CallFields
    <2>5. asked' = asked
      BY <2>1 DEF Quiet
    <2> HIDE DEF c, p
    <2>6. GoodCalls'
      BY <1>1, <2>1, <2>2, <2>3, <2>4, <2>5, CallGoesOn
    <2> QED
      BY <2>1, <2>6, Reads
  <1>2. CASE ~accepted
    BY <1>2, CallFailed DEF ResolveSource
  <1> QED
    BY <1>1, <1>2

LEMMA ResolveTargetKeeps ==
  ASSUME WorkspaceInv, NEW w \in Workers, ResolveTarget(w)
  PROVE  WorkspaceInv'
  <1>1. CASE CanProceed(w)
    <2> DEFINE pc == IF Req(w).tool \in {"touch", "mkdir"} THEN "act" ELSE "check"
               p == ResolvedPath(Req(w))
               c == [call[w] EXCEPT !.path = p, !.pc = pc]
    <2>1. /\ UNCHANGED <<fs, data>> /\ Quiet /\ call[w].pc = "path" /\ ~At(w, "idle")
          /\ call' = [call EXCEPT ![w] = c]
      BY <1>1 DEF ResolveTarget, At
    <2>2. p \in Path /\ (Req(w).tool \in {"rm", "rmdir"} => p # Root)
      BY <1>1, <2>1, RequestAsked, ResolvedPathType DEF WorkspaceInv, CanProceed
    <2>3. /\ DOMAIN call[w] = CallFields /\ call[w].source \in Path
          /\ Req(w).tool = "mv" => call[w].source # Root
      BY <2>1, CallAt
    <2>4. /\ DOMAIN c = CallFields /\ c.source = call[w].source /\ c.path = p
          /\ c.id = call[w].id
      BY <2>3 DEF CallFields
    <2>5. asked' = asked
      BY <2>1 DEF Quiet
    <2> HIDE DEF c, p
    <2>6. GoodCalls'
      BY <2>1, <2>2, <2>3, <2>4, <2>5, CallGoesOn
    <2> QED
      BY <2>1, <2>6, Reads
  <1>2. CASE ~CanProceed(w)
    BY <1>2, CallFailed DEF ResolveTarget
  <1> QED
    BY <1>1, <1>2

LEMMA CheckKeeps ==
  ASSUME WorkspaceInv, NEW w \in Workers, Check(w)
  PROVE  WorkspaceInv'
  <1>1. CASE Allows(w)
    <2> DEFINE c == [call[w] EXCEPT !.pc = "act"]
    <2>1. /\ UNCHANGED <<fs, data>> /\ Quiet /\ call[w].pc = "check" /\ ~At(w, "idle")
          /\ call' = [call EXCEPT ![w] = c]
      BY <1>1 DEF Check, At, Goto
    <2>2. /\ DOMAIN call[w] = CallFields /\ call[w].source \in Path /\ call[w].path \in Path
          /\ Req(w).tool = "mv" => call[w].source # Root
          /\ Req(w).tool \in {"rm", "rmdir"} => call[w].path # Root
      BY <2>1, CallAt
    <2>3. /\ DOMAIN c = CallFields /\ c.source = call[w].source /\ c.path = call[w].path
          /\ c.id = call[w].id
      BY <2>2 DEF CallFields
    <2>4. asked' = asked
      BY <2>1 DEF Quiet
    <2> HIDE DEF c
    <2>5. GoodCalls'
      BY <2>1, <2>2, <2>3, <2>4, CallGoesOn
    <2> QED
      BY <2>1, <2>5, Reads
  <1>2. CASE ~Allows(w)
    BY <1>2, CallFailed DEF Check
  <1> QED
    BY <1>1, <1>2

LEMMA CallActs ==
  ASSUME WorkspaceInv, NEW w \in Workers, NEW result, Finish(w, result), Quiet,
         TreeIntact', SoundTree(fs)', IsSequence(data)'
  PROVE  WorkspaceInv'
  <1>1. asked' = asked /\ transport' = transport /\ call' = [call EXCEPT ![w] = Idle]
    BY DEF Quiet, Finish
  <1>2. GoodCalls'
    BY <1>1, CallFinishes
  <1>3. RecordsKept'
    BY <1>1 DEF WorkspaceInv, RecordsKept
  <1> QED
    BY <1>2, <1>3 DEF WorkspaceInv

LEMMA MkdirKeeps ==
  ASSUME WorkspaceInv, NEW w \in Workers, Mkdir(w)
  PROVE  WorkspaceInv'
  <1> DEFINE p == call[w].path
  <1>1. ~At(w, "idle")
    BY DEF Mkdir, At
  <1>2. CASE ~Exists(p) /\ IsDir(Front(p))
    <2>1. p \in Path
      BY <1>1, CallAt
    <2>2. fs' = [fs EXCEPT ![p] = Directory] /\ data' = data /\ Finish(w, "ok") /\ Quiet
      BY <1>2 DEF Mkdir
    <2>3. Directory \in Entry /\ Directory.kind = "dir"
      BY DEF Directory, Entry, Path
    <2>4. fs \in [Path -> Entry] /\ TreeIntact
      BY DEF WorkspaceInv, SoundTree
    <2> HIDE DEF p
    <2>5. TreeIntact'
      BY <1>2, <2>1, <2>2, <2>3, <2>4, AddKeepsTree DEF TreeIntact
    <2>6. SoundTree(fs)'
      BY <2>1, <2>2, <2>3 DEF WorkspaceInv, SoundTree, SoundEntry
    <2>7. IsSequence(data)'
      BY <2>2 DEF WorkspaceInv, RecordsKept, IsSequence
    <2> QED
      BY <2>2, <2>5, <2>6, <2>7, CallActs
  <1>3. CASE ~(~Exists(p) /\ IsDir(Front(p)))
    BY <1>3, CallFailed DEF Mkdir
  <1> QED
    BY <1>2, <1>3

LEMMA RenameKeeps ==
  ASSUME WorkspaceInv, NEW w \in Workers, Rename(w)
  PROVE  WorkspaceInv'
  <1> DEFINE s == call[w].source
             d == call[w].path
  <1>1. ~At(w, "idle") /\ call[w].pc = "act" /\ Req(w).tool = "mv"
    BY DEF Rename, At
  <1>2. CASE CanRename(s, d)
    <2>1. s \in Path /\ d \in Path /\ s # Root
      BY <1>1, CallAt
    <2>2. fs' = Renamed(s, d) /\ data' = data /\ Finish(w, "ok") /\ Quiet
      BY <1>2 DEF Rename
    <2> HIDE DEF s, d
    <2>3. TreeIntact'
      BY <1>2, <2>1, <2>2, RenameKeepsTree DEF WorkspaceInv, TreeIntact
    <2>4. SoundEntry(Nothing)
      BY DEF SoundEntry, Nothing, Entry, Path
    <2>5. /\ fs' = [p \in Path |-> fs'[p]]
          /\ \A p \in Path : fs'[p] = Nothing \/ \E q \in Path : fs'[p] = fs[q]
      <3>1. CASE fs' = fs
        BY <3>1 DEF WorkspaceInv, SoundTree
      <3>2. CASE fs' = Moved(s, d)
        BY <3>2 DEF Moved
      <3> QED
        BY <2>2, <3>1, <3>2 DEF Renamed
    <2>6. \A p \in Path : SoundEntry(fs'[p])
      BY <2>4, <2>5 DEF WorkspaceInv, SoundTree
    <2>7. SoundTree(fs)'
      BY <2>2, <2>5, <2>6 DEF SoundTree, SoundEntry
    <2>8. IsSequence(data)'
      BY <2>2 DEF WorkspaceInv, RecordsKept, IsSequence
    <2> QED
      BY <2>2, <2>3, <2>7, <2>8, CallActs
  <1>3. CASE ~CanRename(s, d)
    BY <1>3, CallFailed DEF Rename
  <1> QED
    BY <1>2, <1>3

LEMMA RemoveEntryKeeps ==
  ASSUME WorkspaceInv, NEW w \in Workers, RemoveEntry(w)
  PROVE  WorkspaceInv'
  <1> DEFINE d == call[w].path
  <1>1. ~At(w, "idle") /\ call[w].pc = "act" /\ Req(w).tool \in {"rm", "rmdir"}
    BY DEF RemoveEntry, At
  <1>2. CASE CanRemove(d)
    <2>1. d \in Path /\ d # Root
      BY <1>1, CallAt
    <2>2. fs' = Removed(d) /\ data' = data /\ Finish(w, "ok") /\ Quiet
      BY <1>2 DEF RemoveEntry
    <2>3. fs \in [Path -> Entry] /\ TreeIntact
      BY DEF WorkspaceInv, SoundTree
    <2> HIDE DEF d
    <2>4. TreeIntact'
      BY <1>2, <2>1, <2>2, <2>3, RemoveKeepsTree DEF TreeIntact
    <2>5. Nothing \in Entry /\ Nothing.kind = "none"
      BY DEF Nothing, Entry, Path
    <2>6. SoundTree(fs)'
      BY <2>1, <2>2, <2>5 DEF WorkspaceInv, SoundTree, SoundEntry, Removed
    <2>7. IsSequence(data)'
      BY <2>2 DEF WorkspaceInv, RecordsKept, IsSequence
    <2> QED
      BY <2>2, <2>4, <2>6, <2>7, CallActs
  <1>3. CASE ~CanRemove(d)
    BY <1>3, CallFailed DEF RemoveEntry
  <1> QED
    BY <1>2, <1>3

LEMMA OpenSourceKeeps ==
  ASSUME WorkspaceInv, NEW w \in Workers, OpenSource(w)
  PROVE  WorkspaceInv'
  <1>1. CASE IsFile(call[w].source)
    <2> DEFINE c == [call[w] EXCEPT !.input = fs[call[w].source].node, !.pc = "open"]
    <2>1. /\ UNCHANGED <<fs, data>> /\ Quiet /\ ~At(w, "idle")
          /\ call' = [call EXCEPT ![w] = c]
      BY <1>1 DEF OpenSource, At
    <2>2. DOMAIN call[w] = CallFields /\ call[w].source \in Path /\ call[w].path \in Path
      BY <2>1, CallAt
    <2>3. /\ DOMAIN c = CallFields /\ c.source = call[w].source /\ c.path = call[w].path
          /\ c.id = call[w].id /\ c.pc = "open"
      BY <2>2 DEF CallFields
    <2>4. asked' = asked
      BY <2>1 DEF Quiet
    <2> HIDE DEF c
    <2>5. GoodCalls'
      BY <2>1, <2>2, <2>3, <2>4, CallGoesOn
    <2> QED
      BY <2>1, <2>5, Reads
  <1>2. CASE ~IsFile(call[w].source)
    BY <1>2, CallFailed DEF OpenSource
  <1> QED
    BY <1>1, <1>2

LEMMA OpenedKeeps ==
  ASSUME WorkspaceInv, NEW p \in Path, NEW truncate, CanOpen(p), Opened(p, truncate)
  PROVE  TreeIntact' /\ SoundTree(fs)' /\ IsSequence(data)'
  <1> DEFINE q == Follow(p)
             n == Len(data) + 1
  <1>1. q \in Path
    BY FollowType DEF WorkspaceInv
  <1>2. CASE IsFile(q)
    <2>1. fs' = fs /\ (data' = data \/ data' = [data EXCEPT ![OpenNode(p)] = << >>])
      BY <1>2 DEF Opened
    <2> QED
      BY <2>1, SameWorkspace, SameTree
  <1>3. CASE ~IsFile(q)
    <2>1. ~Exists(q) /\ IsDir(Front(q))
      BY <1>3 DEF CanOpen
    <2>2. fs' = [fs EXCEPT ![q] = File(n)] /\ data' = Append(data, << >>)
      BY <1>3 DEF Opened
    <2>3. PICK S : data \in Seq(S)
      BY DEF WorkspaceInv, RecordsKept, IsSequence
    <2>4. data \in Seq(S \cup {<< >>}) /\ << >> \in S \cup {<< >>}
      BY <2>3
    <2>5. data' \in Seq(S \cup {<< >>}) /\ Len(data') = n /\ Len(data) \in Nat
      BY <2>2, <2>4, AppendProperties, LenProperties
    <2>6. n \in Nat
      BY <2>5
    <2>7. File(n) \in Entry /\ File(n).kind = "file" /\ File(n).node = n
      BY <2>6 DEF File, Entry, Path
    <2>9. fs \in [Path -> Entry] /\ TreeIntact /\ \A r \in Path : SoundEntry(fs[r])
      BY DEF WorkspaceInv, SoundTree
    <2> HIDE DEF q, n
    <2>10. TreeIntact'
      BY <1>1, <2>1, <2>2, <2>7, <2>9, AddKeepsTree DEF TreeIntact
    <2>11. ASSUME NEW r \in Path
           PROVE  SoundEntry(fs[r])'
      <3>1. CASE r = q
        BY <1>1, <2>2, <2>5, <2>6, <2>7, <2>9, <3>1 DEF SoundEntry
      <3>2. CASE r # q
        <4>1. fs'[r] = fs[r] /\ SoundEntry(fs[r])
          BY <2>2, <2>9, <3>2
        <4>2. \A i \in 1..Len(data) : i \in 1..Len(data')
          BY <2>5 DEF n
        <4> QED
          BY <4>1, <4>2 DEF SoundEntry
      <3> QED
        BY <3>1, <3>2
    <2>12. SoundTree(fs)'
      BY <1>1, <2>2, <2>7, <2>9, <2>11 DEF SoundTree
    <2> QED
      BY <2>5, <2>10, <2>12 DEF IsSequence
  <1> QED
    BY <1>2, <1>3

LEMMA OpenKeeps ==
  ASSUME WorkspaceInv, NEW w \in Workers, Open(w)
  PROVE  WorkspaceInv'
  <1>1. CASE CanOpen(call[w].path)
    <2> DEFINE c == [call[w] EXCEPT !.output = OpenNode(call[w].path), !.pc = "finish"]
    <2>1. /\ Opened(call[w].path, Truncates(Req(w))) /\ Quiet /\ ~At(w, "idle")
          /\ call' = [call EXCEPT ![w] = c]
      BY <1>1 DEF Open, At
    <2>2. DOMAIN call[w] = CallFields /\ call[w].source \in Path /\ call[w].path \in Path
      BY <2>1, CallAt
    <2>3. /\ DOMAIN c = CallFields /\ c.source = call[w].source /\ c.path = call[w].path
          /\ c.id = call[w].id /\ c.pc = "finish"
      BY <2>2 DEF CallFields
    <2>4. asked' = asked /\ transport' = transport
      BY <2>1 DEF Quiet
    <2> HIDE DEF c
    <2>5. GoodCalls'
      BY <2>1, <2>2, <2>3, <2>4, CallGoesOn
    <2>6. TreeIntact' /\ SoundTree(fs)' /\ IsSequence(data)'
      BY <1>1, <2>1, <2>2, OpenedKeeps
    <2>7. RecordsKept'
      BY <2>4, <2>6 DEF WorkspaceInv, RecordsKept
    <2> QED
      BY <2>5, <2>6, <2>7 DEF WorkspaceInv
  <1>2. CASE ~CanOpen(call[w].path)
    BY <1>2, CallFailed DEF Open
  <1> QED
    BY <1>1, <1>2

LEMMA FinishKeeps ==
  ASSUME WorkspaceInv, NEW w \in Workers, Chtimes(w) \/ WriteString(w) \/ Copy(w) \/ WalkEnds(w)
  PROVE  WorkspaceInv'
  <1>1. CASE Chtimes(w) \/ WalkEnds(w)
    <2>1. UNCHANGED <<fs, data>> /\ Quiet /\ \E result : Finish(w, result)
      BY <1>1 DEF Chtimes, WalkEnds
    <2> QED
      BY <2>1, SameWorkspace, CallActs
  <1>2. CASE WriteString(w) \/ Copy(w)
    <2>1. fs' = fs /\ Quiet /\ \E result : Finish(w, result)
      BY <1>2 DEF WriteString, Copy
    <2>2. \E n, v : data' = [data EXCEPT ![n] = v]
      BY <1>2 DEF WriteString, Copy
    <2>3. TreeIntact' /\ SoundTree(fs)' /\ IsSequence(data)'
      BY <2>1, <2>2, SameTree
    <2> QED
      BY <2>1, <2>3, CallActs
  <1> QED
    BY <1>1, <1>2

LEMMA WalkKeeps ==
  ASSUME WorkspaceInv, NEW w \in Workers,
         StartWalk(w) \/ ReadDir(w) \/ VisitEntry(w) \/ WalkTimesOut(w)
  PROVE  WorkspaceInv'
  <1>1. CASE Fail(w)
    BY <1>1, CallFailed DEF StartWalk, ReadDir, VisitEntry, WalkTimesOut
  <1>2. CASE ~Fail(w)
    <2>1. Quiet /\ ~At(w, "idle") /\ UNCHANGED <<fs, data>>
      BY <1>2 DEF StartWalk, ReadDir, VisitEntry, WalkTimesOut, At
    <2>2. DOMAIN call[w] = CallFields /\ call[w].source \in Path /\ call[w].path \in Path
      BY <2>1, CallAt
    <2>3. \E c : /\ call' = [call EXCEPT ![w] = c]
                 /\ DOMAIN c = CallFields /\ c.source = call[w].source
                 /\ c.path = call[w].path /\ c.id = call[w].id /\ c.pc = "walk"
      <3>1. CASE \E todo : Continue(w, todo)
        <4>1. PICK todo : call' = [call EXCEPT ![w] = [call[w] EXCEPT !.pc = "walk", !.todo = todo]]
          BY <3>1 DEF Continue
        <4> WITNESS [call[w] EXCEPT !.pc = "walk", !.todo = todo]
        <4> QED
          BY <2>2, <4>1 DEF CallFields
      <3>2. CASE VisitEntry(w)
        <4>1. PICK found, full, todo :
                  call' = [call EXCEPT ![w].found = found, ![w].truncated = full, ![w].todo = todo]
          BY <3>2 DEF VisitEntry
        <4> WITNESS [call[w] EXCEPT !.found = found, !.truncated = full, !.todo = todo]
        <4>2. call[w].pc = "walk"
          BY <3>2 DEF VisitEntry, At
        <4> QED
          BY <2>2, <4>1, <4>2 DEF CallFields
      <3> QED
        BY <1>2, <3>1, <3>2 DEF StartWalk, ReadDir, WalkTimesOut
    <2>4. asked' = asked
      BY <2>1 DEF Quiet
    <2>5. GoodCalls'
      BY <2>1, <2>2, <2>3, <2>4, CallGoesOn
    <2> QED
      BY <2>1, <2>5, Reads
  <1> QED
    BY <1>1, <1>2

LEMMA StepKeeps == WorkspaceInv /\ [Next]_vars => WorkspaceInv'
  <1> SUFFICES ASSUME WorkspaceInv, [Next]_vars
               PROVE  WorkspaceInv'
    OBVIOUS
  <1>1. ASSUME NEW w \in Workers, Step(w)
        PROVE  WorkspaceInv'
    BY <1>1, BeginKeeps, ResolveSourceKeeps, ResolveTargetKeeps, CheckKeeps, MkdirKeeps,
       RenameKeeps, RemoveEntryKeeps, OpenSourceKeeps, OpenKeeps, FinishKeeps, WalkKeeps,
       CallFailed DEF Step, SystemCallFails
  <1>2. CASE UNCHANGED vars
    <2>1. UNCHANGED <<fs, data, call, asked, transport>>
      BY <1>2 DEF vars
    <2>2. GoodCalls' /\ RecordsKept'
      BY <2>1 DEF WorkspaceInv, GoodCalls, GoodCall, RecordsKept, IsSequence
    <2> QED
      BY <2>1, <2>2, SameWorkspace DEF WorkspaceInv
  <1> QED
    BY <1>1, <1>2 DEF Next, Served

(* Whatever calls interleave and fail, the workspace stays a tree, and its *)
(* root stays: for all names, requests and initial workspaces (the         *)
(* handlers of tools.go, the guards on s.workspace).                       *)
THEOREM WorkspaceStaysATree == Spec => []TreeIntact
  <1>1. WorkspaceInv => TreeIntact
    BY DEF WorkspaceInv
  <1> QED
    BY <1>1, InitEstablishes, StepKeeps, PTL DEF Spec
-----------------------------------------------------------------------------
(***************************************************************************)
(* One call at a time, content is lost only in a call that was told to     *)
(* overwrite or in rm, a call that fails has harmed the file it was to     *)
(* write at most, and a copy between two files holds what its source held; *)
(* and while callers only add, no appended text is lost however their      *)
(* calls interleave: for all names, requests and initial workspaces.       *)
(*                                                                         *)
(* The argument: while a call is under way every other worker is idle, and *)
(* none can begin; so what the handler checked (Allows) still holds when   *)
(* it acts, what it truncated is still empty when it writes, until it has  *)
(* opened a file for writing the workspace is the one it began with, and   *)
(* from then on it differs from that one in this file alone (Turn).  For   *)
(* copies, no link is ever moved, so that the two resolved paths, which    *)
(* differ, lead to two names (Links, Copying).                             *)
(***************************************************************************)
Output(w) ==
    Req(w).tool \in {"cp", "write_file"} /\ call[w].output \in DOMAIN before[2] =>
        LET n == call[w].output IN
        /\ before[1][Follow(call[w].path)] = File(n)
        /\ ~Req(w).overwrite => Req(w).append /\ data[n] = before[2][n]
Turn(w) ==
    /\ \A v \in Workers : v # w => At(v, "idle")
    /\ At(w, "open") => Req(w).tool = "cp"
    /\ At(w, "act") \/ At(w, "open") => Req(w).tool \in {"touch", "mkdir"} \/ Allows(w)
    /\ (At(w, "open") \/ At(w, "finish")) /\ Req(w).tool = "cp" => call[w].input \in 1..Len(data)
    /\ At(w, "finish") /\ Truncates(Req(w)) => data[call[w].output] = << >>
    /\ ~At(w, "finish") => <<fs, data>> = before
    /\ At(w, "finish") => DOMAIN before[2] \subseteq 1..Len(data) /\ Output(w)
                          /\ HarmsOnlyItsOutput(w, fs, data)
Turns == \A w \in Workers : ~At(w, "idle") => Turn(w)
Texts == \A n \in 1..Len(data) : IsSequence(data[n])
Results == IsSequence(outcome) /\ Len(outcome) = Len(asked)
TurnInv == OneAtATime => Turns /\ Texts /\ Results

FailsCleanly ==
    \A w \in Workers : Ends(w, "error") => HarmsOnlyItsOutput(w, fs', data')

(* What one step by itself has to show. *)
TurnStep == Turns' /\ Texts' /\ Results' /\ KeepsExistingFiles /\ FailsCleanly

LEMMA PrefixOfItself ==
  ASSUME NEW s, IsSequence(s)
  PROVE  IsPrefix(s, s)
  <1>1. Len(s) \in Nat
    BY LenProperties DEF IsSequence
  <1> QED
    BY <1>1 DEF IsPrefix

LEMMA PrefixOfLonger ==
  ASSUME NEW s, IsSequence(s), NEW u, IsSequence(u)
  PROVE  IsSequence(s \o u) /\ IsPrefix(s, s \o u)
  <1>1. PICK S : s \in Seq(S)
    BY DEF IsSequence
  <1>2. PICK U : u \in Seq(U)
    BY DEF IsSequence
  <1> DEFINE T == S \cup U
             t == s \o u
             n == Len(s)
             m == Len(u)
  <1>3. s \in Seq(T) /\ u \in Seq(T) /\ n \in Nat /\ m \in Nat
    BY <1>1, <1>2
  <1> HIDE DEF T
  <1>4. /\ t \in Seq(T) /\ Len(t) = n + m
        /\ \A i \in 1..(n + m) : t[i] = IF i <= n THEN s[i] ELSE u[i - n]
    BY <1>3, ConcatProperties
  <1>5. SubSeq(s, 1, n) = s
    BY <1>3, SubSeqFull
  <1> HIDE DEF t, n, m
  <1>6. \A i \in 1..n : s[i] \in T /\ t[i] = s[i]
    BY <1>3, <1>4, ElementOfSeq DEF n
  <1>7. /\ SubSeq(t, 1, n) \in Seq(T) /\ Len(SubSeq(t, 1, n)) = n
        /\ \A i \in 1..n : SubSeq(t, 1, n)[i] = s[i]
    <2>1. 1 \in Int /\ n \in Int /\ \A i \in 1..n : t[i] \in T
      BY <1>3, <1>6
    <2>2. /\ SubSeq(t, 1, n) \in Seq(T)
          /\ Len(SubSeq(t, 1, n)) = IF 1 <= n THEN n - 1 + 1 ELSE 0
          /\ \A i \in 1..(n - 1 + 1) : SubSeq(t, 1, n)[i] = t[1 + i - 1]
      BY <2>1, SubSeqProperties
    <2> QED
      BY <1>3, <1>6, <2>2
  <1>8. SubSeq(t, 1, n) = s
    BY <1>3, <1>7, SeqEqual DEF n
  <1> QED
    BY <1>3, <1>4, <1>5, <1>8 DEF IsPrefix, IsSequence, t, n, m

LEMMA WrittenIsText ==
  ASSUME NEW text, IsSequence(text), NEW result, NEW part \in Written(text, result)
  PROVE  IsSequence(part)
  <1>1. PICK S : text \in Seq(S)
    BY DEF IsSequence
  <1>2. CASE part = text
    BY <1>2
  <1>3. CASE \E k \in 0..Len(text) : part = SubSeq(text, 1, k)
    <2>1. PICK k \in 0..Len(text) : part = SubSeq(text, 1, k)
      BY <1>3
    <2>2. Len(text) \in Nat /\ 1 \in Int /\ k \in Int /\ \A i \in 1..k : text[i] \in S
      BY <1>1, ElementOfSeq
    <2>3. SubSeq(text, 1, k) \in Seq(S)
      BY <2>2, SubSeqProperties
    <2> QED
      BY <2>1, <2>3 DEF IsSequence
  <1> QED
    BY <1>2, <1>3 DEF Written

LEMMA WrittenOverIsText ==
  ASSUME NEW old, IsSequence(old), NEW new, IsSequence(new)
  PROVE  IsSequence(WrittenOver(old, new))
  <1>1. PICK S : old \in Seq(S)
    BY DEF IsSequence
  <1>2. PICK T : new \in Seq(T)
    BY DEF IsSequence
  <1> DEFINE U == S \cup T
             rest == SubSeq(old, Len(new) + 1, Len(old))
  <1>3. old \in Seq(U) /\ new \in Seq(U) /\ Len(old) \in Nat /\ Len(new) \in Nat
    BY <1>1, <1>2
  <1> HIDE DEF U
  <1>4. \A i \in (Len(new) + 1)..Len(old) : old[i] \in U
    BY <1>3, ElementOfSeq
  <1>5. rest \in Seq(U)
    BY <1>3, <1>4, SubSeqProperties
  <1>6. new \o rest \in Seq(U)
    BY <1>3, <1>5, ConcatProperties
  <1> QED
    BY <1>6 DEF WrittenOver, IsSequence

-----------------------------------------------------------------------------
(* Parts of a step. *)
LEMMA OthersIdle ==
  ASSUME WorkspaceInv, Turns, NEW w \in Workers, ~At(w, "idle"), NEW c,
         call' = [call EXCEPT ![w] = c]
  PROVE  /\ call'[w] = c
         /\ \A v \in Workers : v # w => At(v, "idle")' /\ call'[v] = call[v]
         /\ (At(w, "idle") \/ Turn(w))' => Turns'
  <1>1. call'[w] = c /\ \A v \in Workers : v # w => call'[v] = call[v]
    BY DEF WorkspaceInv, GoodCalls
  <1>2. \A v \in Workers : v # w => At(v, "idle")'
    BY <1>1 DEF Turns, Turn, At
  <1>3. (At(w, "idle") \/ Turn(w))' => Turns'
    BY <1>2 DEF Turns
  <1> QED
    BY <1>1, <1>2, <1>3

LEMMA SameContent ==
  ASSUME Texts, UNCHANGED <<fs, data>>
  PROVE  Texts' /\ KeepsExistingFiles
  <1>1. Texts'
    BY DEF Texts, IsSequence
  <1>2. \A n \in 1..Len(data) : IsPrefix(data[n], data'[n])
    BY PrefixOfItself DEF Texts
  <1>3. \A n \in 1..Len(data) : Stored(n) => Stored(n)'
    BY DEF Stored, FilesIn
  <1> QED
    BY <1>1, <1>2, <1>3 DEF KeepsExistingFiles

LEMMA CallEnds ==
  ASSUME WorkspaceInv, Turns, Results, NEW w \in Workers, ~At(w, "idle"), NEW result,
         Finish(w, result), asked' = asked,
         result = "error" => HarmsOnlyItsOutput(w, fs', data')
  PROVE  Turns' /\ Results' /\ FailsCleanly /\ call'[w] # call[w]
  <1>1. call' = [call EXCEPT ![w] = Idle] /\ outcome' = [outcome EXCEPT ![call[w].id] = result]
    BY DEF Finish
  <1>2. Idle.pc = "idle"
    BY DEF Idle
  <1>3. call'[w] = Idle /\ Turns' /\ \A v \in Workers : v # w => call'[v] = call[v]
    BY <1>1, <1>2, OthersIdle DEF At
  <1>4. call'[w] # call[w]
    BY <1>2, <1>3 DEF At
  <1>5. PICK S : outcome \in Seq(S)
    BY DEF Results, IsSequence
  <1>6. call[w].id \in 1..Len(outcome)
    BY DEF WorkspaceInv, GoodCalls, GoodCall, At, Results
  <1>7. outcome \in Seq(S \cup {result}) /\ result \in S \cup {result}
    BY <1>5
  <1>8. /\ outcome' \in Seq(S \cup {result}) /\ Len(outcome') = Len(outcome)
        /\ outcome'[call[w].id] = result
    BY <1>1, <1>6, <1>7, ExceptSeq
  <1>9. Results'
    BY <1>8 DEF Results, IsSequence
  <1>10. FailsCleanly
    BY <1>3, <1>8 DEF FailsCleanly, Ends, At
  <1> QED
    BY <1>3, <1>4, <1>9, <1>10

LEMMA FailingStep ==
  ASSUME WorkspaceInv, Turns, Texts, Results, NEW w \in Workers,
         ~At(w, "idle"), Fail(w), Quiet
  PROVE  TurnStep
  <1>1. Finish(w, "error") /\ UNCHANGED <<fs, data>> /\ asked' = asked
    BY DEF Fail, Quiet
  <1>2. Turn(w)
    BY DEF Turns
  <1>3. HarmsOnlyItsOutput(w, fs', data')
    BY <1>1, <1>2 DEF Turn, HarmsOnlyItsOutput
  <1> QED
    BY <1>1, <1>3, CallEnds, SameContent DEF TurnStep

LEMMA GoingOn ==
  ASSUME WorkspaceInv, Turns, Results, NEW w \in Workers, ~At(w, "idle"),
         NEW c, call' = [call EXCEPT ![w] = c], c.pc # "idle",
         UNCHANGED <<asked, outcome>>, Turn(w)'
  PROVE  Turns' /\ Results' /\ FailsCleanly
  <1>1. Turns' /\ call'[w] = c /\ \A v \in Workers : v # w => call'[v] = call[v]
    BY OthersIdle
  <1>2. Results'
    BY DEF Results, IsSequence
  <1>3. FailsCleanly
    BY <1>1 DEF FailsCleanly, Ends, At
  <1> QED
    BY <1>1, <1>2, <1>3

(* A step that only reads, up to a point before "act". *)
LEMMA ReadingStep ==
  ASSUME WorkspaceInv, Turns, Texts, Results, NEW w \in Workers, ~At(w, "idle"),
         ~At(w, "finish"), NEW c, call' = [call EXCEPT ![w] = c], c.id = call[w].id,
         UNCHANGED <<fs, data, outcome>>, Quiet,
         c.pc \in {"path", "check", "walk"} \/ (c.pc = "act" /\ Req(w).tool \in {"touch", "mkdir"})
  PROVE  TurnStep
  <1>1. UNCHANGED <<asked, before>>
    BY DEF Quiet
  <1>2. call'[w] = c /\ \A v \in Workers : v # w => At(v, "idle")'
    BY OthersIdle
  <1>3. c.pc \notin {"idle", "open", "finish"} /\ (c.pc = "act" => Req(w)'.tool \in {"touch", "mkdir"})
    BY <1>1, <1>2 DEF Req
  <1>4. <<fs, data>>' = before'
    BY <1>1 DEF Turns, Turn
  <1>5. Turn(w)'
    BY <1>2, <1>3, <1>4 DEF Turn, At
  <1> QED
    BY <1>1, <1>3, <1>5, GoingOn, SameContent DEF TurnStep

-----------------------------------------------------------------------------
(* The steps. *)
LEMMA BeginTurn ==
  ASSUME WorkspaceInv, OneAtATime, Turns, Texts, Results, NEW w \in Workers, Begin(w)
  PROVE  TurnStep
  <1>1. PICK req \in Requests[transport] :
            /\ asked' = Append(asked, req)
            /\ call' = [call EXCEPT ![w] =
                  [Idle EXCEPT !.pc = IF req.tool \in {"cp", "mv"} THEN "source" ELSE "path",
                               !.id = Len(asked) + 1]]
    BY DEF Begin
  <1>2. /\ \A v \in Workers : At(v, "idle")
        /\ outcome' = Append(outcome, "running") /\ before' = <<fs, data>>
        /\ UNCHANGED <<fs, data>>
    BY DEF Begin, OneAtATime
  <1> DEFINE c == [Idle EXCEPT !.pc = IF req.tool \in {"cp", "mv"} THEN "source" ELSE "path",
                               !.id = Len(asked) + 1]
  <1>3. call'[w] = c /\ \A v \in Workers : v # w => call'[v] = call[v]
    BY <1>1 DEF WorkspaceInv, GoodCalls
  <1>4. c.pc \in {"source", "path"}
    BY DEF Idle
  <1> HIDE DEF c
  <1>5. Turn(w)'
    BY <1>2, <1>3, <1>4 DEF Turn, At
  <1>6. Turns'
    BY <1>2, <1>3, <1>5 DEF Turns, At
  <1>7. PICK S : outcome \in Seq(S)
    BY DEF Results, IsSequence
  <1>8. outcome \in Seq(S \cup {"running"}) /\ "running" \in S \cup {"running"}
    BY <1>7
  <1>9. /\ outcome' \in Seq(S \cup {"running"}) /\ Len(outcome') = Len(outcome) + 1
        /\ \A i \in 1..Len(outcome) : outcome'[i] = outcome[i]
    BY <1>2, <1>8, AppendProperties
  <1>10. req \in Request /\ asked \in Seq(Request)
    BY <1>1, WorkspaceAssumption DEF WorkspaceInv, RecordsKept
  <1>11. Len(asked') = Len(asked) + 1
    BY <1>1, <1>10, AppendProperties
  <1>12. Results'
    BY <1>9, <1>11 DEF Results, IsSequence
  <1>13. FailsCleanly
    BY <1>2 DEF FailsCleanly, Ends
  <1> QED
    BY <1>2, <1>6, <1>12, <1>13, SameContent DEF TurnStep

LEMMA ResolveTurn ==
  ASSUME WorkspaceInv, Turns, Texts, Results, NEW w \in Workers,
         ResolveSource(w) \/ ResolveTarget(w)
  PROVE  TurnStep
  <1>1. ~At(w, "idle") /\ ~At(w, "finish") /\ Quiet
    BY DEF ResolveSource, ResolveTarget, At
  <1>2. DOMAIN call[w] = CallFields
    BY <1>1, CallAt
  <1>3. CASE Fail(w)
    BY <1>1, <1>3, FailingStep
  <1>4. CASE ~Fail(w) /\ ResolveSource(w)
    <2>1. PICK p : /\ call' = [call EXCEPT ![w] = [call[w] EXCEPT !.source = p, !.pc = "path"]]
                   /\ UNCHANGED <<fs, data, outcome>>
      BY <1>4 DEF ResolveSource
    <2> DEFINE c == [call[w] EXCEPT !.source = p, !.pc = "path"]
    <2>2. c.pc = "path" /\ c.id = call[w].id
      BY <1>2 DEF CallFields
    <2>3. call' = [call EXCEPT ![w] = c] /\ UNCHANGED <<fs, data, outcome>>
      BY <2>1
    <2> HIDE DEF c
    <2> QED
      BY <1>1, <2>2, <2>3, ReadingStep
  <1>5. CASE ~Fail(w) /\ ResolveTarget(w)
    <2> DEFINE pc == IF Req(w).tool \in {"touch", "mkdir"} THEN "act" ELSE "check"
               c == [call[w] EXCEPT !.path = ResolvedPath(Req(w)), !.pc = pc]
    <2>1. call' = [call EXCEPT ![w] = c] /\ UNCHANGED <<fs, data, outcome>>
      BY <1>5 DEF ResolveTarget
    <2>2. c.pc = pc /\ c.id = call[w].id
      BY <1>2 DEF CallFields
    <2>3. pc = "check" \/ (pc = "act" /\ Req(w).tool \in {"touch", "mkdir"})
      OBVIOUS
    <2> HIDE DEF c, pc
    <2> QED
      BY <1>1, <2>1, <2>2, <2>3, ReadingStep
  <1> QED
    BY <1>3, <1>4, <1>5

LEMMA AllowsStays ==
  ASSUME NEW w, Allows(w), fs' = fs, Req(w)' = Req(w), call'[w].path = call[w].path
  PROVE  Allows(w)'
  BY DEF Allows, Exists, Follow, IsFile, IsDir

LEMMA CheckTurn ==
  ASSUME WorkspaceInv, Turns, Texts, Results, NEW w \in Workers, Check(w)
  PROVE  TurnStep
  <1>1. ~At(w, "idle") /\ ~At(w, "finish") /\ Quiet
    BY DEF Check, At
  <1>2. CASE Fail(w)
    BY <1>1, <1>2, FailingStep
  <1>3. CASE ~Fail(w)
    <2> DEFINE c == [call[w] EXCEPT !.pc = "act"]
    <2>1. call' = [call EXCEPT ![w] = c] /\ UNCHANGED <<fs, data, outcome>> /\ Allows(w)
      BY <1>3 DEF Check, Goto
    <2>2. DOMAIN call[w] = CallFields
      BY <1>1, CallAt
    <2>3. c.pc = "act" /\ c.id = call[w].id /\ c.path = call[w].path
      BY <2>2 DEF CallFields
    <2> HIDE DEF c
    <2>4. call'[w] = c /\ \A v \in Workers : v # w => At(v, "idle")'
      BY <1>1, <2>1, OthersIdle
    <2>5. asked' = asked /\ before' = before
      BY <1>1 DEF Quiet
    <2>6. Allows(w)'
      BY <2>1, <2>3, <2>4, <2>5, AllowsStays DEF Req
    <2>7. <<fs, data>>' = before'
      BY <1>1, <2>1, <2>5 DEF Turns, Turn
    <2>8. Turn(w)'
      BY <2>3, <2>4, <2>6, <2>7 DEF Turn, At
    <2> QED
      BY <1>1, <2>1, <2>3, <2>5, <2>8, GoingOn, SameContent DEF TurnStep
  <1> QED
    BY <1>2, <1>3

LEMMA OpenSourceTurn ==
  ASSUME WorkspaceInv, Turns, Texts, Results, NEW w \in Workers, OpenSource(w)
  PROVE  TurnStep
  <1>1. ~At(w, "idle") /\ ~At(w, "finish") /\ Quiet /\ At(w, "act") /\ Req(w).tool = "cp"
    BY DEF OpenSource, At
  <1>2. CASE Fail(w)
    BY <1>1, <1>2, FailingStep
  <1>3. CASE ~Fail(w)
    <2> DEFINE s == call[w].source
               c == [call[w] EXCEPT !.input = fs[s].node, !.pc = "open"]
    <2>1. call' = [call EXCEPT ![w] = c] /\ UNCHANGED <<fs, data, outcome>> /\ IsFile(s)
      BY <1>3 DEF OpenSource
    <2>2. DOMAIN call[w] = CallFields /\ s \in Path
      BY <1>1, CallAt
    <2>3. c.pc = "open" /\ c.id = call[w].id /\ c.path = call[w].path /\ c.input = fs[s].node
      BY <2>2 DEF CallFields
    <2>4. fs[s].node \in 1..Len(data)
      BY <2>1, <2>2 DEF WorkspaceInv, SoundTree, SoundEntry, IsFile
    <2>5. Allows(w) /\ <<fs, data>> = before
      BY <1>1 DEF Turns, Turn
    <2> HIDE DEF c, s
    <2>6. call'[w] = c /\ \A v \in Workers : v # w => At(v, "idle")'
      BY <1>1, <2>1, OthersIdle
    <2>7. asked' = asked /\ before' = before
      BY <1>1 DEF Quiet
    <2>8. Allows(w)' /\ Req(w)' = Req(w)
      BY <2>1, <2>3, <2>5, <2>6, <2>7, AllowsStays DEF Req
    <2>9. Turn(w)'
      BY <1>1, <2>1, <2>3, <2>4, <2>5, <2>6, <2>7, <2>8 DEF Turn, At
    <2> QED
      BY <1>1, <2>1, <2>3, <2>7, <2>9, GoingOn, SameContent DEF TurnStep
  <1> QED
    BY <1>2, <1>3

LEMMA WalkTurn ==
  ASSUME WorkspaceInv, Turns, Texts, Results, NEW w \in Workers,
         StartWalk(w) \/ ReadDir(w) \/ VisitEntry(w) \/ WalkTimesOut(w) \/ WalkEnds(w)
  PROVE  TurnStep
  <1>1. ~At(w, "idle") /\ ~At(w, "finish") /\ Quiet
    BY DEF StartWalk, ReadDir, VisitEntry, WalkTimesOut, WalkEnds, At
  <1>2. DOMAIN call[w] = CallFields
    BY <1>1, CallAt
  <1>3. CASE Fail(w)
    BY <1>1, <1>3, FailingStep
  <1>4. CASE WalkEnds(w)
    <2>1. Finish(w, "ok") /\ UNCHANGED <<fs, data>> /\ asked' = asked
      BY <1>1, <1>4 DEF WalkEnds, Quiet
    <2> QED
      BY <1>1, <2>1, CallEnds, SameContent DEF TurnStep
  <1>5. CASE ~Fail(w) /\ ~WalkEnds(w)
    <2>1. UNCHANGED <<fs, data, outcome>>
      BY <1>5 DEF StartWalk, ReadDir, VisitEntry, WalkTimesOut
    <2>2. PICK c : call' = [call EXCEPT ![w] = c] /\ c.id = call[w].id /\ c.pc = "walk"
      <3>1. CASE \E todo : Continue(w, todo)
        <4>1. PICK todo : call' = [call EXCEPT ![w] = [call[w] EXCEPT !.pc = "walk", !.todo = todo]]
          BY <3>1 DEF Continue
        <4> WITNESS [call[w] EXCEPT !.pc = "walk", !.todo = todo]
        <4> QED
          BY <1>2, <4>1 DEF CallFields
      <3>2. CASE VisitEntry(w)
        <4>1. PICK found, full, todo :
                  call' = [call EXCEPT ![w].found = found, ![w].truncated = full, ![w].todo = todo]
          BY <3>2 DEF VisitEntry
        <4> WITNESS [call[w] EXCEPT !.found = found, !.truncated = full, !.todo = todo]
        <4>2. call[w].pc = "walk"
          BY <3>2 DEF VisitEntry, At
        <4> QED
          BY <1>2, <4>1, <4>2 DEF CallFields
      <3> QED
        BY <1>5, <3>1, <3>2 DEF StartWalk, ReadDir, WalkTimesOut
    <2> QED
      BY <1>1, <2>1, <2>2, ReadingStep
  <1> QED
    BY <1>3, <1>4, <1>5

LEMMA SameTexts ==
  ASSUME Texts, data' = data
  PROVE  Texts' /\ \A n \in 1..Len(data) : IsPrefix(data[n], data'[n])
  <1>1. Texts'
    BY DEF Texts, IsSequence
  <1> QED
    BY <1>1, PrefixOfItself DEF Texts

LEMMA StillStored ==
  ASSUME NEW d, ~IsFile(d), NEW e, fs \in [Path -> Entry], fs' = [fs EXCEPT ![d] = e], NEW n,
         Stored(n)
  PROVE  Stored(n)'
  <1>1. PICK p \in Path : fs[p].kind = "file" /\ fs[p].node = n
    BY DEF Stored, FilesIn
  <1>2. p # d
    BY <1>1 DEF IsFile
  <1>3. fs'[p].kind = "file" /\ fs'[p].node = n
    BY <1>1, <1>2
  <1> QED
    BY <1>3 DEF Stored, FilesIn

LEMMA MkdirTurn ==
  ASSUME WorkspaceInv, Turns, Texts, Results, NEW w \in Workers, Mkdir(w)
  PROVE  TurnStep
  <1>1. ~At(w, "idle") /\ ~At(w, "finish") /\ Quiet
    BY DEF Mkdir, At
  <1>2. CASE Fail(w)
    BY <1>1, <1>2, FailingStep
  <1>3. CASE ~Fail(w)
    <2>1. /\ Finish(w, "ok") /\ asked' = asked /\ data' = data /\ ~Exists(call[w].path)
          /\ fs' = [fs EXCEPT ![call[w].path] = Directory]
      BY <1>1, <1>3 DEF Mkdir, Quiet
    <2>2. \A n : Stored(n) => Stored(n)'
      BY <2>1, StillStored DEF Exists, IsFile, WorkspaceInv, SoundTree
    <2>3. KeepsExistingFiles
      BY <2>1, <2>2, SameTexts DEF KeepsExistingFiles
    <2> QED
      BY <1>1, <2>1, <2>3, CallEnds, SameTexts DEF TurnStep
  <1> QED
    BY <1>2, <1>3

LEMMA RemoveEntryTurn ==
  ASSUME WorkspaceInv, Turns, Texts, Results, NEW w \in Workers, RemoveEntry(w)
  PROVE  TurnStep
  <1>1. ~At(w, "idle") /\ ~At(w, "finish") /\ Quiet /\ At(w, "act")
    BY DEF RemoveEntry, At
  <1>2. CASE Fail(w)
    BY <1>1, <1>2, FailingStep
  <1>3. CASE ~Fail(w)
    <2>1. /\ Finish(w, "ok") /\ asked' = asked /\ data' = data
          /\ fs' = [fs EXCEPT ![call[w].path] = Nothing]
          /\ Req(w).tool \in {"rm", "rmdir"}
      BY <1>1, <1>3 DEF RemoveEntry, Quiet, Removed
    <2>2. CASE Req(w).tool = "rm"
      <3>1. call'[w] # call[w]
        BY <1>1, <2>1, CallEnds
      <3>2. KeepsExistingFiles
        BY <1>1, <2>2, <3>1 DEF KeepsExistingFiles
      <3> QED
        BY <1>1, <2>1, <3>2, CallEnds, SameTexts DEF TurnStep
    <2>3. CASE Req(w).tool = "rmdir"
      <3>1. Allows(w)
        BY <1>1, <2>3 DEF Turns, Turn
      <3>2. IsDir(call[w].path)
        BY <2>3, <3>1 DEF Allows
      <3>3. \A n : Stored(n) => Stored(n)'
        BY <2>1, <3>2, StillStored DEF IsDir, IsFile, WorkspaceInv, SoundTree
      <3>4. KeepsExistingFiles
        BY <2>1, <3>3, SameTexts DEF KeepsExistingFiles
      <3> QED
        BY <1>1, <2>1, <3>4, CallEnds, SameTexts DEF TurnStep
    <2> QED
      BY <2>1, <2>2, <2>3
  <1> QED
    BY <1>2, <1>3

LEMMA MoveMovesFiles ==
  ASSUME WorkspaceInv, NEW s \in Path, s # Root, NEW d \in Path, CanRename(s, d), ~Exists(d),
         NEW p \in Path, fs[p].kind = "file"
  PROVE  \E q \in Path : Moved(s, d)[q] = fs[p]
  <1>1. TreeIntact /\ fs[Root].kind = "dir"
    BY DEF WorkspaceInv, TreeIntact, IsTree
  <1>2. p # Root /\ p # d /\ d # Root
    BY <1>1 DEF Exists
  <1>3. ~IsPrefix(d, p)
    <2>1. SUFFICES ASSUME IsPrefix(d, p)
                   PROVE  FALSE
      OBVIOUS
    <2>2. CASE \E n \in Names : p = <<n>>
      BY <1>2, <2>1, <2>2, PathShape, PathPrefixes DEF Root
    <2>3. CASE \E n, m \in Names : p = <<n, m>>
      <3>1. PICK n \in Names, m \in Names : p = <<n, m>>
        BY <2>3
      <3>2. Front(p) = <<n>> /\ fs[Front(p)].kind = "dir"
        BY <1>1, <1>2, <3>1, Fronts DEF TreeIntact, IsTree
      <3>3. CASE \E k \in Names : d = <<k>>
        <4>1. d = <<n>>
          BY <2>1, <3>1, <3>3, PathPrefixes
        <4> QED
          BY <3>2, <4>1 DEF Exists
      <3>4. CASE \E k, l \in Names : d = <<k, l>>
        <4>1. d = p
          BY <2>1, <3>1, <3>4, PathPrefixes
        <4> QED
          BY <1>2, <4>1
      <3> QED
        BY <1>2, <3>3, <3>4, PathShape
    <2> QED
      BY <1>2, <2>2, <2>3, PathShape
  <1>4. CASE ~IsPrefix(s, p)
    <2>1. Moved(s, d)[p] = fs[p]
      BY <1>3, <1>4, MovedAt
    <2> QED
      BY <2>1
  <1>5. CASE p = s
    <2>1. Below(d, s, d) = s
      BY BelowItself
    <2>2. IsPrefix(d, d)
      BY PathShape DEF IsPrefix
    <2>3. Moved(s, d)[d] = fs[s]
      BY <2>1, <2>2, MovedAt
    <2> QED
      BY <1>5, <2>3
  <1>6. CASE IsPrefix(s, p) /\ p # s
    <2>1. PICK y \in Names, m \in Names : s = <<y>> /\ p = <<y, m>>
      <3>1. CASE \E n \in Names : p = <<n>>
        BY <1>6, <3>1, PathShape, PathPrefixes DEF Root
      <3>2. CASE \E n, m \in Names : p = <<n, m>>
        <4>1. PICK n \in Names, m \in Names : p = <<n, m>>
          BY <3>2
        <4>2. CASE \E k \in Names : s = <<k>>
          BY <1>6, <4>1, <4>2, PathPrefixes
        <4>3. CASE \E k, l \in Names : s = <<k, l>>
          BY <1>6, <4>1, <4>3, PathPrefixes
        <4> QED
          BY <4>2, <4>3, PathShape
      <3> QED
        BY <1>2, <3>1, <3>2, PathShape
    <2>2. HasEntries(s) /\ IsDir(s)
      <3>1. Len(p) = 2 /\ Len(s) = 1
        BY <2>1
      <3>2. Inside(p, s) /\ Exists(p)
        BY <1>6, <3>1 DEF Inside, Exists
      <3>3. Front(p) = s
        BY <2>1, Fronts
      <3> QED
        BY <1>1, <1>2, <3>2, <3>3 DEF HasEntries, IsDir, Exists, TreeIntact, IsTree
    <2>3. Len(d) = 1
      BY <2>2 DEF CanRename
    <2>4. PICK x \in Names : d = <<x>>
      BY <2>3, PathShape, SMTT(30)
    <2> DEFINE q == <<x, m>>
    <2>5. q \in Path /\ IsPrefix(d, q)
      BY <2>4, NamesInPath, PathPrefixes
    <2>6. Below(d, s, q) = p
      <3>1. Below(<<x>>, s, q) = s \o <<m>>
        BY BelowName
      <3>2. s \o <<m>> = <<y, m>>
        BY <2>1, ConcatOne
      <3> QED
        BY <2>1, <2>4, <3>1, <3>2
    <2> HIDE DEF q
    <2>7. Moved(s, d)[q] = fs[p]
      BY <2>5, <2>6, MovedAt
    <2> QED
      BY <2>5, <2>7
  <1> QED
    BY <1>4, <1>5, <1>6

LEMMA RenameTurn ==
  ASSUME WorkspaceInv, Turns, Texts, Results, NEW w \in Workers, Rename(w)
  PROVE  TurnStep
  <1> DEFINE s == call[w].source
             d == call[w].path
  <1>1. ~At(w, "idle") /\ ~At(w, "finish") /\ Quiet /\ At(w, "act") /\ Req(w).tool = "mv"
    BY DEF Rename, At
  <1>2. CASE Fail(w)
    BY <1>1, <1>2, FailingStep
  <1>3. CASE ~Fail(w)
    <2>1. /\ Finish(w, "ok") /\ asked' = asked /\ data' = data
          /\ fs' = Renamed(s, d) /\ CanRename(s, d)
      BY <1>1, <1>3 DEF Rename, Quiet
    <2>2. s \in Path /\ s # Root /\ d \in Path
      BY <1>1, CallAt DEF At
    <2>3. Exists(d) => Req(w).overwrite
      <3>1. Allows(w)
        BY <1>1 DEF Turns, Turn
      <3> QED
        BY <1>1, <3>1 DEF Allows
    <2> HIDE DEF s, d
    <2>4. CASE Exists(d)
      <3>1. call'[w] # call[w]
        BY <1>1, <2>1, CallEnds
      <3>2. KeepsExistingFiles
        BY <1>1, <2>3, <2>4, <3>1 DEF KeepsExistingFiles
      <3> QED
        BY <1>1, <2>1, <3>2, CallEnds, SameTexts DEF TurnStep
    <2>5. CASE ~Exists(d)
      <3>1. ASSUME NEW n, Stored(n)
            PROVE  Stored(n)'
        <4>1. PICK p \in Path : fs[p].kind = "file" /\ fs[p].node = n
          BY <3>1 DEF Stored, FilesIn
        <4>2. PICK q \in Path : fs'[q] = fs[p]
          BY <2>1, <2>2, <2>5, <4>1, MoveMovesFiles DEF Renamed
        <4> QED
          BY <4>1, <4>2 DEF Stored, FilesIn
      <3>2. KeepsExistingFiles
        BY <2>1, <3>1, SameTexts DEF KeepsExistingFiles
      <3> QED
        BY <1>1, <2>1, <3>2, CallEnds, SameTexts DEF TurnStep
    <2> QED
      BY <2>4, <2>5
  <1> QED
    BY <1>2, <1>3

LEMMA OneTextChanges ==
  ASSUME WorkspaceInv, Texts, NEW m, NEW v, data' = [data EXCEPT ![m] = v],
         m \in 1..Len(data) => IsSequence(v)
  PROVE  /\ Texts' /\ Len(data') = Len(data)
         /\ \A n \in 1..Len(data) : data'[n] = IF n = m THEN v ELSE data[n]
         /\ \A n \in 1..Len(data) : n # m => IsPrefix(data[n], data'[n])
  <1>1. Len(data') = Len(data)
    BY Rewritten
  <1>2. DOMAIN data = 1..Len(data)
    BY DEF WorkspaceInv, RecordsKept, IsSequence
  <1>3. \A n \in 1..Len(data) : data'[n] = IF n = m THEN v ELSE data[n]
    BY <1>2
  <1>4. Texts'
    BY <1>1, <1>3 DEF Texts, IsSequence
  <1>5. \A n \in 1..Len(data) : n # m => IsPrefix(data[n], data'[n])
    BY <1>3, PrefixOfItself DEF Texts
  <1> QED
    BY <1>1, <1>3, <1>4, <1>5

LEMMA Canonical ==
  ASSUME WorkspaceInv, NEW p \in Path
  PROVE  /\ IsFile(p) => fs[p] = File(fs[p].node)
         /\ ~Exists(p) => fs[p] = Nothing
  <1>1. fs[p] \in {Nothing, Directory, File(fs[p].node), Link(fs[p].target)}
    BY DEF WorkspaceInv, SoundTree, SoundEntry, Entry
  <1> QED
    BY <1>1 DEF IsFile, Exists, Nothing, Directory, File, Link

LEMMA OpenTurn ==
  ASSUME WorkspaceInv, Turns, Texts, Results, NEW w \in Workers, Open(w)
  PROVE  TurnStep
  <1> DEFINE p == call[w].path
             q == Follow(p)
             c == [call[w] EXCEPT !.output = OpenNode(p), !.pc = "finish"]
  <1>1. /\ ~At(w, "idle") /\ ~At(w, "finish") /\ Quiet
        /\ At(w, "open") \/ (At(w, "act") /\ Req(w).tool \in {"touch", "write_file"})
    BY DEF Open, At
  <1>2. CASE Fail(w)
    BY <1>1, <1>2, FailingStep
  <1>3. CASE ~Fail(w)
    <2>1. /\ Opened(p, Truncates(Req(w))) /\ CanOpen(p) /\ outcome' = outcome
          /\ call' = [call EXCEPT ![w] = c]
      BY <1>3 DEF Open
    <2>2. DOMAIN call[w] = CallFields /\ p \in Path
      BY <1>1, CallAt
    <2>3. /\ c.pc = "finish" /\ c.id = call[w].id /\ c.path = p
          /\ c.input = call[w].input /\ c.output = OpenNode(p)
      BY <2>2 DEF CallFields
    <2>4. q \in Path
      BY <2>2, FollowType DEF WorkspaceInv
    <2>5. /\ Req(w).tool \in {"touch", "write_file", "cp"}
          /\ Req(w).tool # "touch" => Allows(w)
          /\ At(w, "open") => Req(w).tool = "cp"
          /\ Req(w).tool = "cp" => At(w, "open") /\ call[w].input \in 1..Len(data)
          /\ before = <<fs, data>>
      BY <1>1 DEF Turns, Turn
    <2>6. asked' = asked /\ before' = before
      BY <1>1 DEF Quiet
    <2> HIDE DEF c
    <2>7. call'[w] = c /\ \A v \in Workers : v # w => At(v, "idle")'
      BY <1>1, <2>1, OthersIdle
    <2>8. Req(w)' = Req(w) /\ Truncates(Req(w))' = Truncates(Req(w))
      BY <2>3, <2>6, <2>7 DEF Req, Truncates
    <2>9. call'[w] # call[w] /\ before'[1] = fs /\ before'[2] = data
      BY <1>1, <2>3, <2>5, <2>6, <2>7 DEF At
    <2> DEFINE overwrites == Req(w).tool \in {"cp", "write_file"} /\ Req(w).overwrite
               appends == Req(w).tool = "write_file" /\ Req(w).append
    <2>10. CASE IsFile(q)
      <3> DEFINE m == fs[q].node
      <3>1. m \in 1..Len(data) /\ OpenNode(p) = m
        BY <2>4, <2>10 DEF WorkspaceInv, SoundTree, SoundEntry, IsFile, OpenNode
      <3>2. /\ fs' = fs
            /\ data' = IF Truncates(Req(w)) THEN [data EXCEPT ![m] = << >>] ELSE data
        BY <2>1, <2>10, <3>1 DEF Opened
      <3>3. IsSequence(<< >>)
        BY DEF IsSequence
      <3> HIDE DEF m, p, q
      <3>4. Texts' /\ Len(data') = Len(data)
        BY <3>2, <3>3, OneTextChanges, SameTexts
      <3>5. Truncates(Req(w)) => data'[m] = << >>
        BY <3>1, <3>2, <3>3, OneTextChanges
      <3>6. Req(w).tool \in {"cp", "write_file"} => overwrites \/ appends
        <4>1. CASE Req(w).tool = "cp"
          BY <2>5, <2>10, <4>1 DEF Allows, Exists, IsFile, p, q
        <4>2. CASE Req(w).tool = "write_file"
          <5>1. Exists(p)
            BY <2>10 DEF q, Follow, Exists, IsFile
          <5> QED
            BY <2>5, <4>2, <5>1 DEF Allows, p
        <4> QED
          BY <4>1, <4>2
      <3>7. Truncates(Req(w)) => overwrites
        BY <2>5, <3>6 DEF Truncates
      <3>8. ~Truncates(Req(w)) => data' = data
        BY <3>2
      <3>9. fs[q] = File(m)
        BY <2>4, <2>10, Canonical DEF m
      <3>10. Follow(call[w].path)' = q
        BY <2>3, <2>7, <3>2 DEF Follow, p, q
      <3> HIDE DEF overwrites, appends
      <3>11. Output(w)'
        <4>1. Req(w).tool \in {"cp", "write_file"} /\ ~Req(w).overwrite =>
                  Req(w).append /\ data' = data
          BY <3>6, <3>7, <3>8 DEF overwrites, appends
        <4> QED
          BY <2>3, <2>7, <2>8, <2>9, <3>1, <3>9, <3>10, <4>1 DEF Output
      <3>12. HarmsOnlyItsOutput(w, fs, data)'
        <4>1. \A n \in 1..Len(data) : data'[n] # data[n] => Truncates(Req(w)) /\ n = m
          BY <3>2, <3>3, <3>8, OneTextChanges
        <4>2. \A n \in DOMAIN data : data'[n] # data[n] => overwrites /\ fs[q] = File(n)
          BY <3>7, <3>9, <4>1 DEF WorkspaceInv, RecordsKept, IsSequence
        <4> QED
          BY <2>8, <2>9, <3>2, <3>10, <4>2 DEF HarmsOnlyItsOutput, overwrites
      <3>13. DOMAIN before'[2] \subseteq 1..Len(data')
        BY <2>9, <3>4 DEF WorkspaceInv, RecordsKept, IsSequence
      <3>14. Turn(w)'
        BY <2>3, <2>5, <2>7, <2>8, <3>1, <3>4, <3>5, <3>11, <3>12, <3>13 DEF Turn, At
      <3>15. KeepsExistingFiles
        <4>1. CASE Truncates(Req(w))
          BY <1>1, <2>9, <3>7, <4>1 DEF KeepsExistingFiles, overwrites
        <4>2. CASE ~Truncates(Req(w))
          BY <3>2, <4>2, SameContent
        <4> QED
          BY <4>1, <4>2
      <3> QED
        BY <1>1, <2>1, <2>3, <2>6, <3>4, <3>14, <3>15, GoingOn DEF TurnStep
    <2>11. CASE ~IsFile(q)
      <3> DEFINE m == Len(data) + 1
      <3>1. fs' = [fs EXCEPT ![q] = File(m)] /\ data' = Append(data, << >>) /\ OpenNode(p) = m
        BY <2>1, <2>11 DEF Opened, OpenNode
      <3>2. ~Exists(q)
        BY <2>1, <2>11 DEF CanOpen
      <3>3. PICK S : data \in Seq(S)
        BY DEF WorkspaceInv, RecordsKept, IsSequence
      <3>4. data \in Seq(S \cup {<< >>}) /\ << >> \in S \cup {<< >>}
        BY <3>3
      <3>5. /\ Len(data') = m /\ data'[m] = << >> /\ Len(data) \in Nat
            /\ \A n \in 1..Len(data) : data'[n] = data[n]
        BY <3>1, <3>4, AppendProperties, LenProperties
      <3>6. IsSequence(<< >>)
        BY DEF IsSequence
      <3>7. fs \in [Path -> Entry]
        BY DEF WorkspaceInv, SoundTree
      <3> HIDE DEF q, p
      <3>8. Texts'
        <4>1. \A n \in 1..Len(data') : n \in 1..Len(data) \/ n = m
          BY <3>5
        <4> QED
          BY <3>5, <3>6, <4>1 DEF Texts, IsSequence
      <3>9. Follow(call[w].path)' = q
        <4>1. fs'[p].kind = "link" <=> fs[p].kind = "link"
          BY <2>2, <2>4, <3>1, <3>2, <3>7 DEF q, Follow, Exists, File
        <4>2. fs[p].kind = "link" => fs'[p] = fs[p]
          BY <2>2, <3>1, <3>2, <3>7 DEF q, Follow, Exists
        <4> QED
          BY <2>3, <2>7, <4>1, <4>2 DEF q, Follow
      <3>10. Req(w).tool = "cp" => call[w].input \in 1..Len(data')
        BY <2>5, <3>5
      <3>11. DOMAIN data = 1..Len(data) /\ m \notin 1..Len(data) /\ fs[q] = Nothing
        BY <2>4, <3>2, <3>5, Canonical DEF WorkspaceInv, RecordsKept, IsSequence
      <3>12. Output(w)'
        BY <2>3, <2>7, <2>8, <2>9, <3>1, <3>11 DEF Output
      <3>13. HarmsOnlyItsOutput(w, fs, data)'
        <4>1. \A r \in Path : fs'[r] # fs[r] => r = q
          BY <3>1, <3>7
        <4> QED
          BY <2>5, <2>8, <2>9, <3>5, <3>9, <3>11, <4>1 DEF HarmsOnlyItsOutput
      <3>14. DOMAIN before'[2] \subseteq 1..Len(data')
        BY <2>9, <3>5, <3>11
      <3>15. Turn(w)'
        BY <2>3, <2>7, <2>8, <3>1, <3>5, <3>10, <3>12, <3>13, <3>14 DEF Turn, At
      <3>16. KeepsExistingFiles
        <4>1. \A n : Stored(n) => Stored(n)'
          BY <2>11, <3>1, <3>7, StillStored
        <4>2. \A n \in 1..Len(data) : IsPrefix(data[n], data'[n])
          BY <3>5, PrefixOfItself DEF Texts
        <4> QED
          BY <4>1, <4>2 DEF KeepsExistingFiles
      <3> QED
        BY <1>1, <2>1, <2>3, <2>6, <3>8, <3>15, <3>16, GoingOn DEF TurnStep
    <2> QED
      BY <2>10, <2>11
  <1> QED
    BY <1>2, <1>3

LEMMA SameStored ==
  ASSUME fs' = fs
  PROVE  \A n : Stored(n) => Stored(n)'
  BY DEF Stored, FilesIn

LEMMA ChtimesTurn ==
  ASSUME WorkspaceInv, Turns, Texts, Results, NEW w \in Workers, Chtimes(w)
  PROVE  TurnStep
  <1>1. ~At(w, "idle") /\ At(w, "finish") /\ UNCHANGED <<fs, data>> /\ asked' = asked
    BY DEF Chtimes, At, Quiet
  <1>2. PICK result : Finish(w, result)
    BY DEF Chtimes
  <1>3. HarmsOnlyItsOutput(w, fs', data')
    BY <1>1 DEF Turns, Turn, HarmsOnlyItsOutput
  <1> QED
    BY <1>1, <1>2, <1>3, CallEnds, SameContent DEF TurnStep

(* What a call writes into its output harms nothing else. *)
LEMMA WritingHarms ==
  ASSUME WorkspaceInv, Turns, Texts, NEW w \in Workers, At(w, "finish"),
         Req(w).tool \in {"cp", "write_file"}, fs' = fs,
         NEW v, data' = [data EXCEPT ![call[w].output] = v],
         call[w].output \in 1..Len(data) => IsSequence(v),
         Req(w).append /\ call[w].output \in 1..Len(data) => IsPrefix(data[call[w].output], v)
  PROVE  HarmsOnlyItsOutput(w, fs', data')
  <1> DEFINE m == call[w].output
             p == Follow(call[w].path)
  <1>1. /\ DOMAIN before[2] \subseteq 1..Len(data) /\ Output(w)
        /\ HarmsOnlyItsOutput(w, fs, data)
    BY DEF Turns, Turn, At
  <1> HIDE DEF m
  <1>2. \A n \in 1..Len(data) : data'[n] = IF n = m THEN v ELSE data[n]
    BY OneTextChanges DEF m
  <1>3. ASSUME NEW n \in DOMAIN before[2], data'[n] # before[2][n]
        PROVE  /\ before[1][p] = File(n)
               /\ ~Req(w).overwrite => Req(w).append /\ IsPrefix(before[2][n], data'[n])
    <2>1. n \in 1..Len(data)
      BY <1>1
    <2>2. CASE n = m
      BY <1>1, <1>2, <2>1, <2>2 DEF Output, m
    <2>3. CASE n # m
      <3>1. data'[n] = data[n]
        BY <1>2, <2>1, <2>3
      <3> QED
        BY <1>1, <1>3, <3>1 DEF HarmsOnlyItsOutput
    <2> QED
      BY <2>2, <2>3
  <1> QED
    BY <1>1, <1>3 DEF HarmsOnlyItsOutput

LEMMA WriteStringTurn ==
  ASSUME WorkspaceInv, Turns, Texts, Results, NEW w \in Workers, WriteString(w)
  PROVE  TurnStep
  <1> DEFINE m == call[w].output
  <1>1. /\ ~At(w, "idle") /\ At(w, "finish") /\ Req(w).tool = "write_file"
        /\ fs' = fs /\ asked' = asked
    BY DEF WriteString, At, Quiet
  <1>2. PICK result \in {"ok", "error"} : \E text \in Written(<<call[w].id>>, result) :
            /\ data' = [data EXCEPT ![m] = IF Req(w).append THEN data[m] \o text
                                           ELSE WrittenOver(data[m], text)]
            /\ Finish(w, result)
    BY DEF WriteString
  <1>3. PICK text \in Written(<<call[w].id>>, result) :
            data' = [data EXCEPT ![m] = IF Req(w).append THEN data[m] \o text
                                        ELSE WrittenOver(data[m], text)]
    BY <1>2
  <1> DEFINE v == IF Req(w).append THEN data[m] \o text ELSE WrittenOver(data[m], text)
  <1>4. IsSequence(text)
    <2>1. <<call[w].id>> \in Seq({call[w].id})
      OBVIOUS
    <2>2. IsSequence(<<call[w].id>>)
      BY <2>1 DEF IsSequence
    <2> QED
      BY <2>2, WrittenIsText
  <1>5. m \in 1..Len(data) => IsSequence(v)
    BY <1>4, PrefixOfLonger, WrittenOverIsText DEF Texts
  <1>6. ~Req(w).append => data[m] = << >>
    BY <1>1 DEF Turns, Turn, Truncates
  <1>7. Req(w).append /\ m \in 1..Len(data) => IsPrefix(data[m], v)
    BY <1>4, PrefixOfLonger DEF Texts
  <1>8. data' = [data EXCEPT ![m] = v]
    BY <1>3
  <1> HIDE DEF m, v
  <1>9. /\ Texts' /\ Len(data') = Len(data)
        /\ \A n \in 1..Len(data) : data'[n] = IF n = m THEN v ELSE data[n]
        /\ \A n \in 1..Len(data) : n # m => IsPrefix(data[n], data'[n])
    BY <1>5, <1>8, OneTextChanges
  <1>10. \A n \in 1..Len(data) : data[n] # << >> => IsPrefix(data[n], data'[n])
    BY <1>6, <1>7, <1>9
  <1>11. KeepsExistingFiles
    BY <1>1, <1>10, SameStored DEF KeepsExistingFiles
  <1>12. HarmsOnlyItsOutput(w, fs', data')
    BY <1>1, <1>5, <1>7, <1>8, WritingHarms DEF m
  <1> QED
    BY <1>1, <1>2, <1>9, <1>11, <1>12, CallEnds DEF TurnStep

LEMMA CopyTurn ==
  ASSUME WorkspaceInv, Turns, Texts, Results, NEW w \in Workers, Copy(w)
  PROVE  TurnStep
  <1> DEFINE m == call[w].output
  <1>1. /\ ~At(w, "idle") /\ At(w, "finish") /\ Req(w).tool = "cp"
        /\ fs' = fs /\ asked' = asked
    BY DEF Copy, At, Quiet
  <1>2. PICK result \in {"ok", "error"} : \E text \in Written(data[call[w].input], result) :
            data' = [data EXCEPT ![m] = WrittenOver(data[m], text)] /\ Finish(w, result)
    BY DEF Copy
  <1>3. PICK text \in Written(data[call[w].input], result) :
            data' = [data EXCEPT ![m] = WrittenOver(data[m], text)]
    BY <1>2
  <1> DEFINE v == WrittenOver(data[m], text)
  <1>4. data[m] = << >> /\ call[w].input \in 1..Len(data)
    BY <1>1 DEF Turns, Turn, Truncates
  <1>5. IsSequence(text)
    BY <1>4, WrittenIsText DEF Texts
  <1>6. m \in 1..Len(data) => IsSequence(v)
    BY <1>5, WrittenOverIsText DEF Texts
  <1>7. data' = [data EXCEPT ![m] = v]
    BY <1>3
  <1>8. m \in 1..Len(data) => IsPrefix(data[m], v)
    <2>1. IsSequence(<< >>)
      BY DEF IsSequence
    <2> QED
      BY <1>4, <1>6, <2>1, PrefixOfLonger DEF IsPrefix
  <1> HIDE DEF m, v
  <1>9. /\ Texts' /\ Len(data') = Len(data)
        /\ \A n \in 1..Len(data) : n # m => IsPrefix(data[n], data'[n])
    BY <1>6, <1>7, OneTextChanges
  <1>10. KeepsExistingFiles
    BY <1>1, <1>4, <1>9, SameStored DEF KeepsExistingFiles
  <1>11. HarmsOnlyItsOutput(w, fs', data')
    BY <1>1, <1>6, <1>7, <1>8, WritingHarms DEF m
  <1> QED
    BY <1>1, <1>2, <1>9, <1>10, <1>11, CallEnds DEF TurnStep

-----------------------------------------------------------------------------
LEMMA TurnInit == Init => TurnInv
  <1> SUFFICES ASSUME Init
               PROVE  Turns /\ Texts /\ Results
    BY DEF TurnInv
  <1>1. Turns
    <2>1. Idle.pc = "idle"
      BY DEF Idle
    <2> QED
      BY <2>1 DEF Init, Turns, At
  <1>2. Texts
    <2> DEFINE n == Cardinality(NodesIn(fs))
    <2>1. n \in Nat /\ NodesIn(fs) = 1..n
      BY WorkspaceAssumption, FS_CardinalityType DEF Init
    <2> HIDE DEF n
    <2>2. data = [i \in 1..n |-> <<0>>]
      BY <2>1 DEF Init
    <2>3. data \in [1..n -> {<<0>>}]
      BY <2>2
    <2>4. data \in Seq({<<0>>}) /\ Len(data) = n
      BY <2>1, <2>3
    <2>5. \A i \in 1..Len(data) : data[i] \in Seq({0})
      <3>1. <<0>> \in Seq({0})
        OBVIOUS
      <3> QED
        BY <2>2, <2>4, <3>1
    <2> QED
      BY <2>5 DEF Texts, IsSequence
  <1>3. Results
    <2>1. outcome = << >> /\ asked = << >> /\ << >> \in Seq({0})
      BY DEF Init
    <2> QED
      BY <2>1 DEF Results, IsSequence
  <1> QED
    BY <1>1, <1>2, <1>3

LEMMA TurnNext ==
  ASSUME WorkspaceInv, TurnInv, [Next]_vars
  PROVE  TurnInv' /\ (OneAtATime => KeepsExistingFiles /\ FailsCleanly)
  <1>1. CASE ~OneAtATime
    <2>1. transport' = transport
      <3>1. ASSUME NEW w \in Workers, Step(w)
            PROVE  transport' = transport
        BY <3>1 DEF Step, Begin, ResolveSource, ResolveTarget, Check, Mkdir, Rename, RemoveEntry,
           OpenSource, Open, Chtimes, WriteString, Copy, StartWalk, ReadDir, VisitEntry,
           WalkTimesOut, WalkEnds, SystemCallFails, Quiet
      <3> QED
        BY <3>1 DEF Next, Served, vars
    <2> QED
      BY <1>1, <2>1 DEF TurnInv, OneAtATime
  <1>2. CASE OneAtATime
    <2>1. Turns /\ Texts /\ Results
      BY <1>2 DEF TurnInv
    <2>2. ASSUME NEW w \in Workers, Step(w)
          PROVE  TurnStep
      <3>1. CASE SystemCallFails(w)
        BY <2>1, <3>1, FailingStep DEF SystemCallFails, At
      <3> QED
        BY <1>2, <2>1, <2>2, <3>1, BeginTurn, ResolveTurn, CheckTurn, MkdirTurn, RenameTurn,
           RemoveEntryTurn, OpenSourceTurn, OpenTurn, ChtimesTurn, WriteStringTurn, CopyTurn,
           WalkTurn DEF Step
    <2>3. ASSUME UNCHANGED vars
          PROVE  TurnStep
      <3>1. UNCHANGED <<fs, data, call, asked, outcome, before>>
        BY <2>3 DEF vars
      <3>2. Turns'
        <4>1. ASSUME NEW w \in Workers, ~At(w, "idle")'
              PROVE  Turn(w)'
          <5>1. Turn(w) /\ Req(w)' = Req(w)
            BY <2>1, <3>1, <4>1 DEF Turns, At, Req
          <5>2. Allows(w) => Allows(w)'
            BY <3>1, <5>1, AllowsStays
          <5>3. /\ Truncates(Req(w))' = Truncates(Req(w))
                /\ Output(w)' = Output(w)
                /\ HarmsOnlyItsOutput(w, fs, data)' = HarmsOnlyItsOutput(w, fs, data)
                /\ \A v \in Workers, pc \in {"idle", "open", "act", "finish"} : At(v, pc)' <=> At(v, pc)
            BY <3>1, <5>1 DEF Truncates, Output, HarmsOnlyItsOutput, Follow, At
          <5> QED
            BY <3>1, <5>1, <5>2, <5>3 DEF Turn
        <4> QED
          BY <4>1 DEF Turns
      <3>3. Results' /\ FailsCleanly
        BY <2>1, <3>1 DEF Results, IsSequence, FailsCleanly, Ends, At
      <3> QED
        BY <2>1, <3>1, <3>2, <3>3, SameContent DEF TurnStep
    <2>4. TurnStep
      BY <2>2, <2>3 DEF Next, Served
    <2> QED
      BY <2>4 DEF TurnStep, TurnInv
  <1> QED
    BY <1>1, <1>2

(* One call at a time, the content of a file is only lost in a step of a   *)
(* call that was told to overwrite, or of rm, whatever the calls before    *)
(* it did (the checks of runWriteFile, runCopy and runMove).               *)
THEOREM ContentIsKeptInTurn == Spec => ExistingFilesKeptInTurn
  <1>1. WorkspaceInv /\ TurnInv /\ [Next]_vars => [OneAtATime => KeepsExistingFiles]_vars
    BY TurnNext
  <1>2. TurnInv /\ WorkspaceInv /\ [Next]_vars => TurnInv'
    BY TurnNext
  <1> QED
    BY <1>1, <1>2, TurnInit, InitEstablishes, StepKeeps, PTL DEF Spec, ExistingFilesKeptInTurn

(* One call at a time, a call that reports an error has made no entry but  *)
(* its output and lost no content but that of the file it was told to      *)
(* overwrite, at whatever system call it failed (the order of checks,      *)
(* truncation and writing in runCopy and runWriteFile).                    *)
THEOREM FailuresHarmOnlyTheirOutput == Spec => FailureHarmsOnlyItsOutput
  <1> DEFINE A == \A w \in Workers :
                      OneAtATime /\ Ends(w, "error") => HarmsOnlyItsOutput(w, fs', data')
  <1>1. WorkspaceInv /\ TurnInv /\ [Next]_vars => [A]_vars
    BY TurnNext DEF FailsCleanly
  <1>2. TurnInv /\ WorkspaceInv /\ [Next]_vars => TurnInv'
    BY TurnNext
  <1>3. Spec => [][A]_vars
    BY <1>1, <1>2, TurnInit, InitEstablishes, StepKeeps, PTL DEF Spec
  <1> QED
    BY <1>3 DEF FailureHarmsOnlyItsOutput

-----------------------------------------------------------------------------
(* Copies.  Links are never moved, since what a call resolved is none, so  *)
(* that resolved paths that differ lead to different names, and to two     *)
(* files unless these are names of one (SameFile).                         *)
Links == \A p \in Path : fs[p].kind = "link" => Len(p) = 1 /\ fs[fs[p].target].kind # "link"
Copying(w) ==
    LET c == call[w] IN
    /\ c.pc \in {"path", "check", "act", "open"} /\ Req(w).tool \in {"cp", "mv"} =>
           Exists(c.source) /\ fs[c.source].kind # "link"
    /\ c.pc \in {"check", "act", "open"} /\ Req(w).tool = "cp" => Follow(c.path) # c.source
    /\ c.pc = "open" => IsFile(c.source) /\ c.input = fs[c.source].node
    /\ c.pc = "finish" => c.output \in 1..Len(data)
    /\ c.pc = "finish" /\ Req(w).tool = "cp" =>
           /\ c.input = before[1][c.source].node
           /\ SameFile(w) \/ (c.input # c.output /\ data[c.input] = before[2][c.input])
    /\ c.pc = "walk" => Req(w).tool # "cp"
Copyings == \A w \in Workers : ~At(w, "idle") => Copying(w)
CopyInv == OneAtATime => Links /\ Copyings

CopiesRight == \A w \in Workers : Copied(w) /\ ~SameFile(w) => CopyFaithful(w)
CopyStep == Links' /\ Copyings' /\ CopiesRight

LEMMA ResolvedIsNoLink ==
  ASSUME SoundTree(fs), Links, NEW p \in Path
  PROVE  fs[EvalSymlinks(p)].kind # "link"
  <1>1. CASE p = Root
    <2>1. Root \in Path /\ Len(Root) = 0
      BY DEF Path, Root
    <2>2. Follow(Root) = Root /\ fs[Root].kind # "link"
      BY <2>1 DEF Links, Follow
    <2> QED
      BY <1>1, <2>1, <2>2 DEF EvalSymlinks
  <1>2. CASE \E n \in Names : p = <<n>>
    <2>1. PICK n \in Names : p = <<n>>
      BY <1>2
    <2>2. EvalSymlinks(p) = Follow(p)
      BY <2>1, EvalSymlinksOf
    <2> QED
      BY <2>2 DEF Follow, Links
  <1>3. CASE \E n, m \in Names : p = <<n, m>>
    <2>1. PICK n \in Names, m \in Names : p = <<n, m>>
      BY <1>3
    <2>2. PICK k \in Names : Follow(<<n>>) = <<k>>
      BY FollowName
    <2>3. EvalSymlinks(p) = <<k, m>>
      BY <2>1, <2>2, EvalSymlinksOf, AppendOne
    <2>4. <<k, m>> \in Path /\ Len(<<k, m>>) = 2
      BY NamesInPath
    <2> QED
      BY <2>3, <2>4 DEF Links
  <1> QED
    BY <1>1, <1>2, <1>3, PathShape

LEMMA ResolvedApart ==
  ASSUME TreeIntact, SoundTree(fs), Links, NEW req \in Request, CanResolve(req),
         NEW s \in Path, Exists(s), ResolvedPath(req) # s
  PROVE  Follow(ResolvedPath(req)) # s
  <1> DEFINE p == req.path
  <1>1. p \in Path
    BY DEF Request
  <1>2. CASE Exists(EvalSymlinks(p))
    BY <1>1, <1>2, ResolvedIsNoLink DEF ResolvedPath, Follow
  <1>3. CASE ~Exists(EvalSymlinks(p))
    <2>1. ResolvedPath(req) = Append(EvalSymlinks(Front(p)), Last(p))
      BY <1>3 DEF ResolvedPath
    <2>2. fs[Root].kind = "dir" /\ EvalSymlinks(Root) = Root
      BY DEF TreeIntact, IsTree, EvalSymlinks, Follow, Root
    <2>3. p # Root
      BY <1>3, <2>2 DEF Exists
    <2>4. CASE \E n \in Names : p = <<n>>
      <3>1. PICK n \in Names : p = <<n>>
        BY <2>4
      <3>2. Front(p) = Root /\ Last(p) = n /\ EvalSymlinks(p) = Follow(p)
        BY <3>1, Fronts, Lasts, EvalSymlinksOf DEF Root
      <3>3. ResolvedPath(req) = p
        BY <2>1, <2>2, <3>1, <3>2, AppendOne DEF Root
      <3> QED
        BY <1>3, <3>2, <3>3
    <2>5. CASE \E n, m \in Names : p = <<n, m>>
      <3>1. PICK n \in Names, m \in Names : p = <<n, m>>
        BY <2>5
      <3>2. Front(p) = <<n>> /\ Last(p) = m
        BY <3>1, Fronts, Lasts
      <3>3. PICK k \in Names : Follow(<<n>>) = <<k>>
        BY FollowName
      <3>4. ResolvedPath(req) = <<k, m>>
        BY <2>1, <3>2, <3>3, EvalSymlinksOf, AppendOne
      <3>5. <<k, m>> \in Path /\ Len(<<k, m>>) = 2
        BY NamesInPath
      <3> QED
        BY <3>4, <3>5 DEF Links, Follow
    <2> QED
      BY <1>1, <2>3, <2>4, <2>5, PathShape
  <1> QED
    BY <1>2, <1>3

(* No step makes a link or gives one another name. *)
NoNewLink == \A p \in Path : fs'[p].kind = "link" => fs'[p] = fs[p]

LEMMA MoveMovesNoLink ==
  ASSUME SoundTree(fs), Links, NEW s \in Path, s # Root, fs[s].kind # "link", NEW d \in Path,
         fs' = Moved(s, d)
  PROVE  NoNewLink
  <1>1. ASSUME NEW p \in Path, fs'[p].kind = "link"
        PROVE  fs'[p] = fs[p]
    <2>1. Nothing.kind = "none"
      BY DEF Nothing
    <2>2. SUFFICES ASSUME IsPrefix(d, p), Below(d, s, p) \in Path, fs[Below(d, s, p)].kind = "link"
                   PROVE  FALSE
      BY <1>1, <2>1, MovedAt
    <2>3. Len(Below(d, s, p)) = 1
      BY <2>2 DEF Links
    <2>4. Below(d, s, p) = s
      <3> DEFINE e == SubSeq(p, Len(d) + 1, Len(p))
      <3>1. s \in Seq(Names) /\ Len(s) \in Nat /\ Len(s) > 0
        <4>1. CASE \E n \in Names : s = <<n>>
          BY <4>1
        <4>2. CASE \E n, m \in Names : s = <<n, m>>
          BY <4>2
        <4> QED
          BY <4>1, <4>2, PathShape
      <3>2. p \in Seq(Names) /\ Len(p) \in Nat /\ Len(d) \in Nat
        <4>1. << >> \in Seq(Names) /\ (\A n \in Names : <<n>> \in Seq(Names))
          OBVIOUS
        <4>2. \A n, m \in Names : <<n, m>> \in Seq(Names)
          OBVIOUS
        <4>3. p \in Seq(Names)
          BY <4>1, <4>2, PathShape DEF Root
        <4>4. Len(p) \in Nat
          BY PathShape
        <4>5. Len(d) \in Nat
          BY PathShape
        <4> QED
          BY <4>3, <4>4, <4>5
      <3>3. \A i \in (Len(d) + 1)..Len(p) : p[i] \in Names
        BY <3>2, ElementOfSeq
      <3>4. e \in Seq(Names) /\ Len(e) \in Nat
        BY <3>2, <3>3, SubSeqProperties
      <3> HIDE DEF e
      <3>5. Len(s \o e) = Len(s) + Len(e)
        BY <3>1, <3>4, ConcatProperties
      <3>6. Len(e) = 0
        BY <2>3, <3>1, <3>4, <3>5 DEF Below, e
      <3>7. e = << >>
        BY <3>4, <3>6
      <3> QED
        BY <3>1, <3>7, ConcatEmptySeq DEF Below, e
    <2> QED
      BY <2>2, <2>4
  <1> QED
    BY <1>1 DEF NoNewLink

LEMMA RenameMovesNoLink ==
  ASSUME SoundTree(fs), Links, NEW s \in Path, s # Root, fs[s].kind # "link", NEW d \in Path,
         fs' = Renamed(s, d)
  PROVE  NoNewLink
  <1>1. CASE fs' = fs
    BY <1>1 DEF NoNewLink
  <1>2. CASE fs' = Moved(s, d)
    BY <1>2, MoveMovesNoLink
  <1> QED
    BY <1>1, <1>2 DEF Renamed

LEMMA LinksStay ==
  ASSUME SoundTree(fs), Links, NoNewLink
  PROVE  Links'
  <1>1. ASSUME NEW p \in Path, fs'[p].kind = "link"
        PROVE  Len(p) = 1 /\ fs'[fs'[p].target].kind # "link"
    <2>1. fs'[p] = fs[p] /\ fs[p].target \in Path
      BY <1>1 DEF SoundTree, Entry, NoNewLink
    <2> QED
      BY <1>1, <2>1 DEF Links, NoNewLink
  <1> QED
    BY <1>1 DEF Links, Path, Root

LEMMA OutcomeOf ==
  ASSUME WorkspaceInv, Results, NEW w \in Workers, ~At(w, "idle"), NEW result, Finish(w, result)
  PROVE  outcome'[call[w].id] = result
  <1>1. call[w].id \in 1..Len(outcome)
    BY DEF WorkspaceInv, GoodCalls, GoodCall, At, Results
  <1>2. call[w].id \in DOMAIN outcome
    BY <1>1 DEF Results, IsSequence
  <1> QED
    BY <1>2 DEF Finish

(* A call that ends, other than cp that has written. *)
LEMMA EndsWithoutCopy ==
  ASSUME WorkspaceInv, Turns, Results, Links, NEW w \in Workers, ~At(w, "idle"), NEW result,
         Finish(w, result), result = "ok" => Req(w).tool # "cp", NoNewLink
  PROVE  CopyStep
  <1>1. call' = [call EXCEPT ![w] = Idle] /\ Idle.pc = "idle"
    BY DEF Finish, Idle
  <1>2. call'[w] = Idle /\ \A v \in Workers : v # w => At(v, "idle")' /\ call'[v] = call[v]
    BY <1>1, OthersIdle
  <1>3. Copyings'
    BY <1>1, <1>2 DEF Copyings, At
  <1>4. CopiesRight
    <2>1. outcome'[call[w].id] = result
      BY OutcomeOf
    <2> QED
      BY <1>2, <2>1 DEF CopiesRight, Copied, Ends, Turns, Turn, At
  <1> QED
    BY <1>3, <1>4, LinksStay DEF CopyStep, WorkspaceInv

LEMMA FailsWithoutCopy ==
  ASSUME WorkspaceInv, Turns, Results, Links, NEW w \in Workers, ~At(w, "idle"), Fail(w)
  PROVE  CopyStep
  BY EndsWithoutCopy DEF NoNewLink, Fail

LEMMA GoesOnCopying ==
  ASSUME WorkspaceInv, Turns, Links, NEW w \in Workers, ~At(w, "idle"),
         NEW c, call' = [call EXCEPT ![w] = c], c.pc # "idle", Copying(w)',
         NoNewLink
  PROVE  CopyStep
  <1>1. call'[w] = c /\ \A v \in Workers : v # w => At(v, "idle")' /\ call'[v] = call[v]
    BY OthersIdle
  <1>2. Copyings'
    BY <1>1 DEF Copyings
  <1>3. CopiesRight
    BY <1>1 DEF CopiesRight, Copied, Ends, At
  <1> QED
    BY <1>2, <1>3, LinksStay DEF CopyStep, WorkspaceInv

-----------------------------------------------------------------------------
LEMMA BeginCopy ==
  ASSUME WorkspaceInv, OneAtATime, Links, NEW w \in Workers, Begin(w)
  PROVE  CopyStep
  <1>1. PICK req : call' = [call EXCEPT ![w] =
                       [Idle EXCEPT !.pc = IF req.tool \in {"cp", "mv"} THEN "source" ELSE "path",
                                    !.id = Len(asked) + 1]]
                   /\ req \in Requests[transport] /\ asked' = Append(asked, req)
    BY DEF Begin
  <1>2. fs' = fs /\ \A v \in Workers : At(v, "idle")
    BY DEF Begin, OneAtATime
  <1> DEFINE c == [Idle EXCEPT !.pc = IF req.tool \in {"cp", "mv"} THEN "source" ELSE "path",
                               !.id = Len(asked) + 1]
  <1>3. call'[w] = c /\ \A v \in Workers : v # w => call'[v] = call[v]
    BY <1>1 DEF WorkspaceInv, GoodCalls
  <1>4. /\ c.pc = IF req.tool \in {"cp", "mv"} THEN "source" ELSE "path"
        /\ c.id = Len(asked) + 1
    BY DEF Idle
  <1>5. Req(w)' = req
    <2>1. req \in Request /\ asked \in Seq(Request)
      BY <1>1, WorkspaceAssumption DEF WorkspaceInv, RecordsKept
    <2>2. asked'[Len(asked) + 1] = req
      BY <1>1, <2>1, AppendProperties
    <2> QED
      BY <1>3, <1>4, <2>2 DEF Req
  <1> HIDE DEF c
  <1>6. Copying(w)'
    BY <1>3, <1>4, <1>5 DEF Copying
  <1>7. Copyings'
    BY <1>2, <1>3, <1>6 DEF Copyings, At
  <1>8. CopiesRight
    BY <1>2 DEF CopiesRight, Copied, Ends
  <1> QED
    BY <1>2, <1>7, <1>8, LinksStay DEF NoNewLink, CopyStep, WorkspaceInv

LEMMA ResolveSourceCopy ==
  ASSUME WorkspaceInv, Turns, Results, Links, NEW w \in Workers, ResolveSource(w)
  PROVE  CopyStep
  <1>1. ~At(w, "idle") /\ ~At(w, "finish") /\ asked' = asked
    BY DEF ResolveSource, At, Quiet
  <1>2. CASE ~Fail(w)
    <2> DEFINE p == EvalSymlinks(Req(w).source)
               c == [call[w] EXCEPT !.source = p, !.pc = "path"]
    <2>1. call' = [call EXCEPT ![w] = c] /\ fs' = fs /\ Exists(p)
      BY <1>2 DEF ResolveSource
    <2>2. fs[p].kind # "link"
      BY <1>1, RequestAsked, ResolvedIsNoLink DEF WorkspaceInv
    <2>3. DOMAIN call[w] = CallFields
      BY <1>1, CallAt
    <2>4. c.source = p /\ c.pc = "path"
      BY <2>3 DEF CallFields
    <2>5. Exists(c.source) /\ fs[c.source].kind # "link"
      BY <2>1, <2>2, <2>4
    <2> HIDE DEF c, p
    <2>6. call'[w] = c
      BY <1>1, <2>1, OthersIdle
    <2>7. Copying(w)'
      BY <2>1, <2>4, <2>5, <2>6 DEF Copying, Exists
    <2> QED
      BY <1>1, <2>1, <2>3, <2>4, <2>7, GoesOnCopying DEF NoNewLink
  <1> QED
    BY <1>1, <1>2, FailsWithoutCopy

LEMMA ResolveTargetCopy ==
  ASSUME WorkspaceInv, Turns, Results, Links, Copyings, NEW w \in Workers, ResolveTarget(w)
  PROVE  CopyStep
  <1>1. ~At(w, "idle") /\ ~At(w, "finish") /\ asked' = asked /\ call[w].pc = "path"
    BY DEF ResolveTarget, At, Quiet
  <1>2. CASE ~Fail(w)
    <2> DEFINE p == ResolvedPath(Req(w))
               pc == IF Req(w).tool \in {"touch", "mkdir"} THEN "act" ELSE "check"
               c == [call[w] EXCEPT !.path = p, !.pc = pc]
    <2>1. call' = [call EXCEPT ![w] = c] /\ fs' = fs /\ CanProceed(w)
      BY <1>2 DEF ResolveTarget
    <2>2. DOMAIN call[w] = CallFields /\ call[w].source \in Path
      BY <1>1, CallAt
    <2>3. c.source = call[w].source /\ c.path = p /\ c.pc = pc /\ c.id = call[w].id
      BY <2>2 DEF CallFields
    <2>4. Req(w).tool \in {"cp", "mv"} => Exists(call[w].source) /\ fs[call[w].source].kind # "link"
      BY <1>1 DEF Copyings, Copying
    <2>5. Req(w).tool = "cp" => Follow(p) # call[w].source
      BY <1>1, <2>1, <2>2, <2>4, RequestAsked, ResolvedApart DEF CanProceed, WorkspaceInv
    <2>6. pc \in {"act", "check"}
      OBVIOUS
    <2> HIDE DEF c, p, pc
    <2>7. call'[w] = c
      BY <1>1, <2>1, OthersIdle
    <2>8. Req(w)' = Req(w)
      BY <1>1, <2>3, <2>7 DEF Req
    <2>9. Copying(w)'
      BY <2>1, <2>3, <2>4, <2>5, <2>6, <2>7, <2>8 DEF Copying, Exists, Follow
    <2> QED
      BY <1>1, <2>1, <2>3, <2>6, <2>9, GoesOnCopying DEF NoNewLink
  <1> QED
    BY <1>1, <1>2, FailsWithoutCopy

LEMMA CheckCopy ==
  ASSUME WorkspaceInv, Turns, Results, Links, Copyings, NEW w \in Workers, Check(w)
  PROVE  CopyStep
  <1>1. ~At(w, "idle") /\ ~At(w, "finish") /\ asked' = asked /\ call[w].pc = "check"
    BY DEF Check, At, Quiet
  <1>2. CASE ~Fail(w)
    <2> DEFINE c == [call[w] EXCEPT !.pc = "act"]
    <2>1. call' = [call EXCEPT ![w] = c] /\ fs' = fs
      BY <1>2 DEF Check, Goto
    <2>2. DOMAIN call[w] = CallFields
      BY <1>1, CallAt
    <2>3. c.source = call[w].source /\ c.path = call[w].path /\ c.pc = "act" /\ c.id = call[w].id
      BY <2>2 DEF CallFields
    <2> HIDE DEF c
    <2>4. call'[w] = c
      BY <1>1, <2>1, OthersIdle
    <2>5. Req(w)' = Req(w)
      BY <1>1, <2>3, <2>4 DEF Req
    <2>6. Copying(w)
      BY <1>1 DEF Copyings
    <2>7. Copying(w)'
      BY <1>1, <2>1, <2>3, <2>4, <2>5, <2>6 DEF Copying, Exists, Follow
    <2> QED
      BY <1>1, <2>1, <2>3, <2>4, <2>7, GoesOnCopying DEF NoNewLink
  <1> QED
    BY <1>1, <1>2, FailsWithoutCopy

LEMMA OpenSourceCopy ==
  ASSUME WorkspaceInv, Turns, Results, Links, Copyings, NEW w \in Workers, OpenSource(w)
  PROVE  CopyStep
  <1>1. ~At(w, "idle") /\ ~At(w, "finish") /\ asked' = asked /\ call[w].pc = "act"
    BY DEF OpenSource, At, Quiet
  <1>2. CASE ~Fail(w)
    <2> DEFINE s == call[w].source
               c == [call[w] EXCEPT !.input = fs[s].node, !.pc = "open"]
    <2>1. call' = [call EXCEPT ![w] = c] /\ fs' = fs /\ IsFile(s)
      BY <1>2 DEF OpenSource
    <2>2. DOMAIN call[w] = CallFields
      BY <1>1, CallAt
    <2>3. /\ c.source = s /\ c.path = call[w].path /\ c.pc = "open" /\ c.id = call[w].id
          /\ c.input = fs[s].node
      BY <2>2 DEF CallFields
    <2> HIDE DEF c
    <2>4. call'[w] = c
      BY <1>1, <2>1, OthersIdle
    <2>5. Req(w)' = Req(w)
      BY <1>1, <2>3, <2>4 DEF Req
    <2>6. Copying(w)
      BY <1>1 DEF Copyings
    <2>7. Copying(w)'
      BY <1>1, <2>1, <2>3, <2>4, <2>5, <2>6 DEF Copying, Exists, Follow, IsFile
    <2> QED
      BY <1>1, <2>1, <2>3, <2>4, <2>7, GoesOnCopying DEF NoNewLink
  <1> QED
    BY <1>1, <1>2, FailsWithoutCopy

LEMMA OpenCopy ==
  ASSUME WorkspaceInv, Turns, Results, Links, Copyings, NEW w \in Workers, Open(w)
  PROVE  CopyStep
  <1> DEFINE p == call[w].path
             q == Follow(p)
             c == [call[w] EXCEPT !.output = OpenNode(p), !.pc = "finish"]
  <1>1. ~At(w, "idle") /\ ~At(w, "finish") /\ asked' = asked /\ before' = before
    BY DEF Open, At, Quiet
  <1>2. CASE ~Fail(w)
    <2>1. Opened(p, Truncates(Req(w))) /\ call' = [call EXCEPT ![w] = c]
      BY <1>2 DEF Open
    <2>2. DOMAIN call[w] = CallFields /\ p \in Path /\ call[w].source \in Path
      BY <1>1, CallAt
    <2>3. /\ c.source = call[w].source /\ c.path = p /\ c.pc = "finish" /\ c.id = call[w].id
          /\ c.input = call[w].input /\ c.output = OpenNode(p)
      BY <2>2 DEF CallFields
    <2>4. q \in Path
      BY <2>2, FollowType DEF WorkspaceInv
    <2>5. <<fs, data>> = before
      BY <1>1 DEF Turns, Turn
    <2>6. Req(w).tool = "cp" => At(w, "open") /\ call[w].input \in 1..Len(data)
      BY <1>1 DEF Open, Turns, Turn, At
    <2>7. Req(w).tool = "cp" => /\ IsFile(call[w].source) /\ q # call[w].source
                                /\ call[w].input = fs[call[w].source].node
      BY <1>1, <2>6 DEF Copyings, Copying, At
    <2>8. PICK S : data \in Seq(S)
      BY DEF WorkspaceInv, RecordsKept, IsSequence
    <2>9. Len(data) \in Nat /\ DOMAIN data = 1..Len(data)
      BY <2>8
    <2> HIDE DEF c
    <2>10. call'[w] = c
      BY <1>1, <2>1, OthersIdle
    <2>11. Req(w)' = Req(w)
      BY <1>1, <2>3, <2>10 DEF Req
    <2>12. CASE IsFile(q)
      <3> DEFINE m == fs[q].node
      <3>1. m \in 1..Len(data) /\ OpenNode(p) = m
        BY <2>4, <2>12 DEF WorkspaceInv, SoundTree, SoundEntry, IsFile, OpenNode
      <3>2. fs' = fs /\ (data' = data \/ data' = [data EXCEPT ![m] = << >>])
        BY <2>1, <2>12, <3>1 DEF Opened
      <3>3. Len(data') = Len(data)
        BY <3>2, Rewritten
      <3>4. Req(w).tool = "cp" /\ fs[q] # fs[call[w].source] => call[w].input # m
        BY <2>2, <2>4, <2>7, <2>12, Canonical
      <3>5. Follow(call[w].path)' = q
        BY <2>3, <2>10, <3>2 DEF Follow
      <3> HIDE DEF m, p, q
      <3>6. Req(w).tool = "cp" /\ fs[q] = fs[call[w].source] => SameFile(w)'
        BY <1>1, <2>3, <2>5, <2>7, <2>10, <3>5 DEF SameFile
      <3>7. Req(w).tool = "cp" /\ call[w].input # m => data'[call[w].input] = data[call[w].input]
        BY <2>6, <2>9, <3>2
      <3>8. Req(w).tool = "cp" =>
                /\ c.input = before[1][c.source].node
                /\ SameFile(w)' \/ (c.input # c.output /\ data'[c.input] = before[2][c.input])
        BY <2>3, <2>5, <2>7, <3>1, <3>4, <3>7, <3>6
      <3>9. Copying(w)'
        BY <1>1, <2>3, <2>10, <2>11, <3>1, <3>3, <3>8 DEF Copying
      <3> QED
        BY <1>1, <2>1, <2>3, <3>2, <3>9, GoesOnCopying DEF NoNewLink
    <2>13. CASE ~IsFile(q)
      <3> DEFINE m == Len(data) + 1
      <3>1. fs' = [fs EXCEPT ![q] = File(m)] /\ data' = Append(data, << >>) /\ OpenNode(p) = m
        BY <2>1, <2>13 DEF Opened, OpenNode
      <3>2. data \in Seq(S \cup {<< >>}) /\ << >> \in S \cup {<< >>}
        BY <2>8
      <3>3. Len(data') = m /\ \A n \in 1..Len(data) : data'[n] = data[n]
        BY <3>1, <3>2, AppendProperties
      <3>4. m \in 1..m
        BY <2>9
      <3>5. fs \in [Path -> Entry] /\ File(m).kind = "file"
        BY DEF WorkspaceInv, SoundTree, File
      <3> HIDE DEF m, p, q
      <3>6. \A r \in Path : fs'[r].kind = "link" => fs'[r] = fs[r]
        BY <3>1, <3>5
      <3>7. Req(w).tool = "cp" => call[w].input # m
        BY <2>6, <2>9 DEF m
      <3>8. Req(w).tool = "cp" =>
                /\ c.input = before[1][c.source].node
                /\ c.input # c.output /\ data'[c.input] = before[2][c.input]
        BY <2>3, <2>5, <2>6, <2>7, <3>1, <3>3, <3>7
      <3>9. Copying(w)'
        BY <1>1, <2>3, <2>10, <2>11, <3>1, <3>3, <3>4, <3>8 DEF Copying
      <3> QED
        BY <1>1, <2>1, <2>3, <3>6, <3>9, GoesOnCopying DEF NoNewLink
    <2> QED
      BY <2>12, <2>13
  <1> QED
    BY <1>1, <1>2, FailsWithoutCopy

LEMMA RenameCopy ==
  ASSUME WorkspaceInv, Turns, Results, Links, Copyings, NEW w \in Workers, Rename(w)
  PROVE  CopyStep
  <1> DEFINE s == call[w].source
             d == call[w].path
  <1>1. ~At(w, "idle") /\ ~At(w, "finish") /\ call[w].pc = "act" /\ Req(w).tool = "mv"
    BY DEF Rename, At
  <1>2. CASE ~Fail(w)
    <2>1. Finish(w, "ok") /\ fs' = Renamed(s, d)
      BY <1>2 DEF Rename
    <2>2. s \in Path /\ s # Root /\ d \in Path
      BY <1>1, CallAt
    <2>3. fs[s].kind # "link"
      BY <1>1 DEF Copyings, Copying
    <2> HIDE DEF s, d
    <2>4. NoNewLink
      BY <2>1, <2>2, <2>3, RenameMovesNoLink DEF WorkspaceInv
    <2> QED
      BY <1>1, <2>1, <2>4, EndsWithoutCopy
  <1> QED
    BY <1>1, <1>2, FailsWithoutCopy

LEMMA ChangeCopy ==
  ASSUME WorkspaceInv, Turns, Results, Links, NEW w \in Workers, Mkdir(w) \/ RemoveEntry(w)
  PROVE  CopyStep
  <1>1. ~At(w, "idle") /\ ~At(w, "finish")
    BY DEF Mkdir, RemoveEntry, At
  <1>2. CASE ~Fail(w)
    <2>1. Finish(w, "ok") /\ \E p : fs' = [fs EXCEPT ![p] = Directory] \/ fs' = [fs EXCEPT ![p] = Nothing]
      BY <1>2 DEF Mkdir, RemoveEntry, Removed
    <2>2. Directory.kind = "dir" /\ Nothing.kind = "none" /\ fs \in [Path -> Entry]
      BY DEF Directory, Nothing, WorkspaceInv, SoundTree
    <2>3. NoNewLink
      BY <2>1, <2>2 DEF NoNewLink
    <2>4. Req(w).tool # "cp"
      BY DEF Mkdir, RemoveEntry
    <2> QED
      BY <1>1, <2>1, <2>3, <2>4, EndsWithoutCopy
  <1> QED
    BY <1>1, <1>2, FailsWithoutCopy

LEMMA WriteCopy ==
  ASSUME WorkspaceInv, Turns, Results, Links, Copyings, NEW w \in Workers,
         Chtimes(w) \/ WriteString(w) \/ WalkEnds(w)
  PROVE  CopyStep
  <1>1. /\ ~At(w, "idle") /\ fs' = fs /\ \E result : Finish(w, result)
    BY DEF Chtimes, WriteString, WalkEnds, At
  <1>2. Req(w).tool # "cp"
    BY <1>1 DEF Chtimes, WriteString, WalkEnds, Copyings, Copying, At
  <1> QED
    BY <1>1, <1>2, EndsWithoutCopy DEF NoNewLink

LEMMA CopyCopy ==
  ASSUME WorkspaceInv, Turns, Texts, Results, Links, Copyings, NEW w \in Workers, Copy(w)
  PROVE  CopyStep
  <1> DEFINE m == call[w].output
             n == call[w].input
             t == data[n]
  <1>1. ~At(w, "idle") /\ At(w, "finish") /\ Req(w).tool = "cp" /\ fs' = fs
    BY DEF Copy, At
  <1>2. PICK result \in {"ok", "error"} : \E text \in Written(t, result) :
            data' = [data EXCEPT ![m] = WrittenOver(data[m], text)] /\ Finish(w, result)
    BY DEF Copy
  <1>3. CASE result = "error"
    BY <1>1, <1>2, <1>3, EndsWithoutCopy DEF NoNewLink
  <1>4. CASE result = "ok"
    <2>1. data' = [data EXCEPT ![m] = WrittenOver(data[m], t)] /\ Finish(w, "ok")
      BY <1>2, <1>4 DEF Written
    <2>2. data[m] = << >> /\ n \in 1..Len(data)
      BY <1>1 DEF Turns, Turn, Truncates
    <2>3. /\ m \in 1..Len(data)
          /\ ~SameFile(w) => n # m /\ t = SourceHeld(w)
      BY <1>1 DEF Copyings, Copying, At, SourceHeld
    <2>4. WrittenOver(<< >>, t) = t
      <3>1. PICK S : t \in Seq(S)
        BY <2>2 DEF Texts, IsSequence
      <3>2. Len(t) \in Nat /\ Len(<< >>) = 0
        BY <3>1
      <3>3. SubSeq(<< >>, Len(t) + 1, Len(<< >>)) = << >>
        BY <3>2, SubSeqEmpty
      <3> QED
        BY <3>1, <3>3, ConcatEmptySeq DEF WrittenOver
    <2>5. DOMAIN data = 1..Len(data)
      BY DEF WorkspaceInv, RecordsKept, IsSequence
    <2>6. data'[m] = t /\ (n # m => data'[n] = t)
      BY <2>1, <2>2, <2>3, <2>4, <2>5
    <2>7. call' = [call EXCEPT ![w] = Idle] /\ Idle.pc = "idle"
      BY <2>1 DEF Finish, Idle
    <2>8. call'[w] = Idle /\ \A v \in Workers : v # w => At(v, "idle")' /\ call'[v] = call[v]
      BY <1>1, <2>7, OthersIdle
    <2>9. Copyings'
      BY <2>7, <2>8 DEF Copyings, At
    <2>10. ~SameFile(w) => CopyFaithful(w)
      BY <2>3, <2>6 DEF CopyFaithful
    <2>11. CopiesRight
      BY <1>1, <2>8, <2>10 DEF CopiesRight, Copied, Ends, Turns, Turn, At
    <2> QED
      BY <1>1, <2>9, <2>11, LinksStay DEF NoNewLink, CopyStep, WorkspaceInv
  <1> QED
    BY <1>3, <1>4

LEMMA WalkCopy ==
  ASSUME WorkspaceInv, Turns, Results, Links, Copyings, NEW w \in Workers,
         StartWalk(w) \/ ReadDir(w) \/ VisitEntry(w) \/ WalkTimesOut(w)
  PROVE  CopyStep
  <1>1. ~At(w, "idle") /\ asked' = asked
    BY DEF StartWalk, ReadDir, VisitEntry, WalkTimesOut, At, Quiet
  <1>2. CASE ~Fail(w)
    <2>1. fs' = fs
      BY <1>2 DEF StartWalk, ReadDir, VisitEntry, WalkTimesOut
    <2>2. DOMAIN call[w] = CallFields
      BY <1>1, CallAt
    <2>3. Req(w).tool # "cp"
      BY <1>1, <1>2 DEF StartWalk, ReadDir, VisitEntry, WalkTimesOut, Copyings, Copying, At
    <2>4. PICK c : call' = [call EXCEPT ![w] = c] /\ c.pc = "walk" /\ c.id = call[w].id
      <3>1. CASE \E todo : Continue(w, todo)
        <4>1. PICK todo : call' = [call EXCEPT ![w] = [call[w] EXCEPT !.pc = "walk", !.todo = todo]]
          BY <3>1 DEF Continue
        <4> WITNESS [call[w] EXCEPT !.pc = "walk", !.todo = todo]
        <4> QED
          BY <2>2, <4>1 DEF CallFields
      <3>2. CASE VisitEntry(w)
        <4>1. PICK found, full, todo :
                  call' = [call EXCEPT ![w].found = found, ![w].truncated = full, ![w].todo = todo]
          BY <3>2 DEF VisitEntry
        <4> WITNESS [call[w] EXCEPT !.found = found, !.truncated = full, !.todo = todo]
        <4>2. call[w].pc = "walk"
          BY <3>2 DEF VisitEntry, At
        <4> QED
          BY <2>2, <4>1, <4>2 DEF CallFields
      <3> QED
        BY <1>2, <3>1, <3>2 DEF StartWalk, ReadDir, WalkTimesOut
    <2>5. call'[w] = c
      BY <1>1, <2>4, OthersIdle
    <2>6. Copying(w)'
      BY <1>1, <2>4, <2>5, <2>3 DEF Copying, Req
    <2> QED
      BY <1>1, <2>1, <2>4, <2>6, GoesOnCopying DEF NoNewLink
  <1> QED
    BY <1>1, <1>2, FailsWithoutCopy

LEMMA CopyInit == Init => CopyInv
  <1> SUFFICES ASSUME Init
               PROVE  Links /\ Copyings
    BY DEF CopyInv
  <1>1. Links
    BY WorkspaceAssumption DEF Init, Links
  <1>2. Copyings
    <2>1. Idle.pc = "idle"
      BY DEF Idle
    <2> QED
      BY <2>1 DEF Init, Copyings, At
  <1> QED
    BY <1>1, <1>2

LEMMA CopyNext ==
  ASSUME WorkspaceInv, TurnInv, CopyInv, [Next]_vars
  PROVE  CopyInv' /\ (OneAtATime => CopiesRight)
  <1>1. transport' = transport
    <2>1. ASSUME NEW w \in Workers, Step(w)
          PROVE  transport' = transport
      BY <2>1 DEF Step, Begin, ResolveSource, ResolveTarget, Check, Mkdir, Rename, RemoveEntry,
         OpenSource, Open, Chtimes, WriteString, Copy, StartWalk, ReadDir, VisitEntry,
         WalkTimesOut, WalkEnds, SystemCallFails, Quiet
    <2> QED
      BY <2>1 DEF Next, Served, vars
  <1>2. CASE OneAtATime
    <2>1. Turns /\ Texts /\ Results /\ Links /\ Copyings
      BY <1>2 DEF TurnInv, CopyInv
    <2>2. ASSUME NEW w \in Workers, Step(w)
          PROVE  CopyStep
      <3>1. CASE SystemCallFails(w)
        BY <2>1, <3>1, FailsWithoutCopy DEF SystemCallFails, At
      <3> QED
        BY <1>2, <2>1, <2>2, <3>1, BeginCopy, ResolveSourceCopy, ResolveTargetCopy, CheckCopy,
           ChangeCopy, RenameCopy, OpenSourceCopy, OpenCopy, WriteCopy, CopyCopy, WalkCopy DEF Step
    <2>3. ASSUME UNCHANGED vars
          PROVE  CopyStep
      <3>1. UNCHANGED <<fs, data, call, asked, before>>
        BY <2>3 DEF vars
      <3>2. ASSUME NEW w \in Workers, Copying(w)
            PROVE  Copying(w)'
        <4>1. Req(w)' = Req(w)
          BY <3>1 DEF Req
        <4> QED
          BY <3>1, <3>2, <4>1 DEF Copying, SameFile, Exists, Follow, IsFile
      <3>3. Copyings'
        BY <2>1, <3>1, <3>2 DEF Copyings, At
      <3>4. CopiesRight
        BY <3>1 DEF CopiesRight, Copied, Ends, At
      <3> QED
        BY <2>1, <3>1, <3>3, <3>4, LinksStay DEF NoNewLink, CopyStep, WorkspaceInv
    <2>4. CopyStep
      BY <2>2, <2>3 DEF Next, Served
    <2> QED
      BY <2>4 DEF CopyStep, CopyInv
  <1> QED
    BY <1>1, <1>2 DEF CopyInv, OneAtATime

(* One call at a time, after a cp that reports success both files hold     *)
(* what the source held when the call began, unless the two paths name one *)
(* file: the comparison of the two resolved paths in runCopy keeps it from *)
(* emptying its own source through a symbolic link.                        *)
THEOREM OtherFilesAreCopied == Spec => OtherFilesCopied
  <1> DEFINE A == \A w \in Workers : OneAtATime /\ Copied(w) /\ ~SameFile(w) => CopyFaithful(w)
  <1>1. WorkspaceInv /\ TurnInv /\ CopyInv /\ [Next]_vars => [A]_vars
    BY CopyNext DEF CopiesRight
  <1>2. TurnInv /\ WorkspaceInv /\ [Next]_vars => TurnInv'
    BY TurnNext
  <1>3. CopyInv /\ TurnInv /\ WorkspaceInv /\ [Next]_vars => CopyInv'
    BY CopyNext
  <1>4. Spec => [][A]_vars
    BY <1>1, <1>2, <1>3, CopyInit, TurnInit, InitEstablishes, StepKeeps, PTL DEF Spec
  <1> QED
    BY <1>4 DEF OtherFilesCopied

-----------------------------------------------------------------------------
(* Appends, whatever calls interleave.  Every call has an identifier of    *)
(* its own, which no file holds before the call has ended, so that an      *)
(* append, which goes to the end of a file that stays, puts it there once. *)
Ids ==
    \A w \in Workers :
        ~At(w, "idle") =>
            /\ outcome[call[w].id] = "running"
            /\ At(w, "walk") => Req(w).tool = "find"
            /\ \A v \in Workers : ~At(v, "idle") /\ call[v].id = call[w].id => v = w

Adding == \A i \in 1..Len(asked) : Adds(asked[i])
Holds(n, i) == \E k \in 1..Len(data[n]) : \A j \in 1..Len(data[n]) : data[n][j] = i <=> j = k
Outputs == \A w \in Workers :
               At(w, "finish") => call[w].output \in 1..Len(data) /\ Stored(call[w].output)
Marks == \A n \in 1..Len(data) : \A k \in 1..Len(data[n]) :
             \/ data[n][k] = 0
             \/ data[n][k] \in 1..Len(asked) /\ outcome[data[n][k]] # "running"
Kept == \A i \in 1..Len(asked) :
            asked[i].tool = "write_file" /\ outcome[i] = "ok" =>
                \E n \in 1..Len(data) : Stored(n) /\ Holds(n, i)
Added == Texts /\ Outputs /\ Marks /\ Kept
AddInv == Results /\ Ids /\ (Adding => Added)

(* A step of a call that is under way ends the call or takes it further. *)
Advances(w) ==
    \E c : /\ call' = [call EXCEPT ![w] = c] /\ outcome' = outcome
           /\ c.id = call[w].id /\ c.pc # "idle"
           /\ c.pc = "walk" => Req(w).tool = "find"
           /\ c.pc = "finish" => Open(w) /\ c.output = OpenNode(call[w].path)
EndsCall(w) ==
    \/ Finish(w, "error")
    \/ Finish(w, "ok") /\ (Req(w).tool = "write_file" => WriteString(w))

LEMMA StepShape ==
  ASSUME WorkspaceInv, Ids, NEW w \in Workers, Step(w), ~Begin(w)
  PROVE  /\ ~At(w, "idle") /\ asked' = asked
         /\ Advances(w) \/ EndsCall(w)
  <1>1. ~At(w, "idle") /\ Quiet
    BY DEF Step, ResolveSource, ResolveTarget, Check, Mkdir, Rename, RemoveEntry, OpenSource,
           Open, Chtimes, WriteString, Copy, StartWalk, ReadDir, VisitEntry, WalkTimesOut,
           WalkEnds, SystemCallFails, At
  <1>2. asked' = asked
    BY <1>1 DEF Quiet
  <1>3. DOMAIN call[w] = CallFields
    BY <1>1, CallAt
  <1>4. CASE Fail(w)
    BY <1>1, <1>2, <1>4 DEF Fail, EndsCall
  <1>5. CASE ~Fail(w) /\ ResolveSource(w)
    <2>1. PICK p : /\ call' = [call EXCEPT ![w] = [call[w] EXCEPT !.source = p, !.pc = "path"]]
                   /\ outcome' = outcome
      BY <1>5 DEF ResolveSource
    <2>2. Advances(w)
      <3> DEFINE c == [call[w] EXCEPT !.source = p, !.pc = "path"]
      <3>1. c.id = call[w].id /\ c.pc = "path"
        BY <1>3 DEF CallFields
      <3>2. call' = [call EXCEPT ![w] = c] /\ outcome' = outcome
        BY <2>1
      <3> HIDE DEF c
      <3> QED
        BY <2>1, <3>1, <3>2 DEF Advances
    <2> QED
      BY <1>1, <1>2, <2>2
  <1>6. CASE ~Fail(w) /\ ResolveTarget(w)
    <2> DEFINE pc == IF Req(w).tool \in {"touch", "mkdir"} THEN "act" ELSE "check"
               c == [call[w] EXCEPT !.path = ResolvedPath(Req(w)), !.pc = pc]
    <2>1. call' = [call EXCEPT ![w] = c] /\ outcome' = outcome
      BY <1>6 DEF ResolveTarget
    <2>2. c.id = call[w].id /\ c.pc \in {"act", "check"}
      BY <1>3 DEF CallFields
    <2> HIDE DEF c
    <2>3. Advances(w)
      BY <2>1, <2>2 DEF Advances
    <2> QED
      BY <1>1, <1>2, <2>3
  <1>7. CASE ~Fail(w) /\ Check(w)
    <2>1. call' = [call EXCEPT ![w] = [call[w] EXCEPT !.pc = "act"]] /\ outcome' = outcome
      BY <1>7 DEF Check, Goto
    <2>2. Advances(w)
      <3> DEFINE c == [call[w] EXCEPT !.pc = "act"]
      <3>1. c.id = call[w].id /\ c.pc = "act"
        BY <1>3 DEF CallFields
      <3>2. call' = [call EXCEPT ![w] = c] /\ outcome' = outcome
        BY <2>1
      <3> HIDE DEF c
      <3> QED
        BY <2>1, <3>1, <3>2 DEF Advances
    <2> QED
      BY <1>1, <1>2, <2>2
  <1>8. CASE ~Fail(w) /\ OpenSource(w)
    <2>1. PICK n : /\ call' = [call EXCEPT ![w] = [call[w] EXCEPT !.input = n, !.pc = "open"]]
                   /\ outcome' = outcome
      BY <1>8 DEF OpenSource
    <2>2. Advances(w)
      <3> DEFINE c == [call[w] EXCEPT !.input = n, !.pc = "open"]
      <3>1. c.id = call[w].id /\ c.pc = "open"
        BY <1>3 DEF CallFields
      <3>2. call' = [call EXCEPT ![w] = c] /\ outcome' = outcome
        BY <2>1
      <3> HIDE DEF c
      <3> QED
        BY <2>1, <3>1, <3>2 DEF Advances
    <2> QED
      BY <1>1, <1>2, <2>2
  <1>9. CASE ~Fail(w) /\ Open(w)
    <2> DEFINE c == [call[w] EXCEPT !.output = OpenNode(call[w].path), !.pc = "finish"]
    <2>1. call' = [call EXCEPT ![w] = c] /\ outcome' = outcome
      BY <1>9 DEF Open
    <2>2. c.id = call[w].id /\ c.pc = "finish" /\ c.output = OpenNode(call[w].path)
      BY <1>3 DEF CallFields
    <2> HIDE DEF c
    <2>3. Advances(w)
      BY <1>9, <2>1, <2>2 DEF Advances
    <2> QED
      BY <1>1, <1>2, <2>3
  <1>10. CASE ~Fail(w) /\ (StartWalk(w) \/ ReadDir(w))
    <2>1. PICK todo : /\ call' = [call EXCEPT ![w] = [call[w] EXCEPT !.pc = "walk", !.todo = todo]]
                      /\ outcome' = outcome
      BY <1>10 DEF StartWalk, ReadDir, Continue
    <2>2. Req(w).tool = "find"
      BY <1>1, <1>10 DEF StartWalk, ReadDir, Ids
    <2>3. Advances(w)
      <3> DEFINE c == [call[w] EXCEPT !.pc = "walk", !.todo = todo]
      <3>1. c.id = call[w].id /\ c.pc = "walk"
        BY <1>3 DEF CallFields
      <3>2. call' = [call EXCEPT ![w] = c] /\ outcome' = outcome
        BY <2>1
      <3> HIDE DEF c
      <3> QED
        BY <2>1, <2>2, <3>1, <3>2 DEF Advances
    <2> QED
      BY <1>1, <1>2, <2>3
  <1>11. CASE VisitEntry(w)
    <2>1. PICK found, full, todo :
             /\ call' = [call EXCEPT ![w].found = found, ![w].truncated = full, ![w].todo = todo]
             /\ outcome' = outcome
      BY <1>11 DEF VisitEntry
    <2> DEFINE c == [call[w] EXCEPT !.found = found, !.truncated = full, !.todo = todo]
    <2>2. Req(w).tool = "find" /\ call[w].pc = "walk"
      BY <1>1, <1>11 DEF VisitEntry, Ids, At
    <2>3. c.id = call[w].id /\ c.pc = "walk"
      BY <1>3, <2>2 DEF CallFields
    <2>4. call' = [call EXCEPT ![w] = c] /\ outcome' = outcome
      BY <2>1
    <2> HIDE DEF c
    <2>5. Advances(w)
      BY <2>2, <2>3, <2>4 DEF Advances
    <2> QED
      BY <1>1, <1>2, <2>5
  <1>12. CASE /\ ~Fail(w)
              /\ \/ Mkdir(w) \/ Rename(w) \/ RemoveEntry(w) \/ Copy(w) \/ WalkEnds(w)
                 \/ Chtimes(w) \/ WriteString(w)
    <2>1. Finish(w, "ok") \/ Finish(w, "error")
      BY <1>12 DEF Mkdir, Rename, RemoveEntry, Copy, WalkEnds, Chtimes, WriteString
    <2>2. Req(w).tool # "write_file" \/ WriteString(w)
      BY <1>1, <1>12 DEF Mkdir, Rename, RemoveEntry, Copy, WalkEnds, Chtimes, Ids
    <2> QED
      BY <1>1, <1>2, <2>1, <2>2 DEF EndsCall
  <1> QED
    BY <1>4, <1>5, <1>6, <1>7, <1>8, <1>9, <1>10, <1>11, <1>12 DEF Step, WalkTimesOut,
       SystemCallFails

(* While callers only add, only these steps touch the workspace. *)
LEMMA ContentShape ==
  ASSUME Adding, WorkspaceInv, NEW w \in Workers, Step(w), ~Begin(w), ~At(w, "idle")
  PROVE  UNCHANGED <<fs, data>> \/ Mkdir(w) \/ (Open(w) /\ ~Fail(w)) \/ WriteString(w)
  <1>1. call[w].id \in 1..Len(asked)
    BY DEF WorkspaceInv, GoodCalls, GoodCall, At
  <1>2. Req(w).tool \notin {"mv", "rm", "rmdir", "cp"}
    BY <1>1 DEF Adding, Adds, Req
  <1>3. CASE Fail(w)
    BY <1>3 DEF Fail
  <1>4. CASE ~Fail(w)
    BY <1>2, <1>4 DEF Step, ResolveSource, ResolveTarget, Check, Rename, RemoveEntry, OpenSource,
           Chtimes, Copy, StartWalk, ReadDir, VisitEntry, WalkTimesOut, WalkEnds, SystemCallFails
  <1> QED
    BY <1>3, <1>4

LEMMA IdsAfterEnd ==
  ASSUME WorkspaceInv, Results, Ids, NEW w \in Workers, ~At(w, "idle"), NEW result,
         Finish(w, result), asked' = asked
  PROVE  /\ Results' /\ Ids' /\ \A v \in Workers : ~At(v, "idle")' => call'[v] = call[v]
         /\ \A i \in 1..Len(asked) : outcome'[i] = IF i = call[w].id THEN result ELSE outcome[i]
  <1>1. call' = [call EXCEPT ![w] = Idle] /\ outcome' = [outcome EXCEPT ![call[w].id] = result]
    BY DEF Finish
  <1>2. Idle.pc = "idle"
    BY DEF Idle
  <1>3. /\ call'[w] = Idle /\ At(w, "idle")'
        /\ \A v \in Workers : v # w => call'[v] = call[v]
    BY <1>1, <1>2 DEF WorkspaceInv, GoodCalls, At
  <1>4. PICK S : outcome \in Seq(S)
    BY DEF Results, IsSequence
  <1>5. \A v \in Workers : ~At(v, "idle") => call[v].id \in 1..Len(asked)
    BY DEF WorkspaceInv, GoodCalls, GoodCall, At
  <1>6. outcome \in Seq(S \cup {result}) /\ result \in S \cup {result}
    BY <1>4
  <1>7. /\ outcome' \in Seq(S \cup {result}) /\ Len(outcome') = Len(outcome)
        /\ \A i \in 1..Len(asked) : outcome'[i] = IF i = call[w].id THEN result ELSE outcome[i]
    BY <1>1, <1>5, <1>6, ExceptSeq DEF Results
  <1>8. Results'
    BY <1>7 DEF Results, IsSequence
  <1>9. Ids'
    <2>1. ASSUME NEW v \in Workers, ~At(v, "idle")'
          PROVE  /\ v # w /\ ~At(v, "idle") /\ call'[v] = call[v] /\ Req(v)' = Req(v)
                 /\ outcome'[call[v].id] = outcome[call[v].id]
      <3>1. v # w /\ call'[v] = call[v]
        BY <1>3, <2>1
      <3>2. ~At(v, "idle")
        BY <2>1, <3>1 DEF At
      <3>3. call[v].id # call[w].id
        BY <3>1, <3>2 DEF Ids
      <3> QED
        BY <1>5, <1>7, <3>1, <3>2, <3>3 DEF Req
    <2> QED
      BY <2>1 DEF Ids, At
  <1> QED
    BY <1>3, <1>7, <1>8, <1>9

LEMMA IdsAfterAdvance ==
  ASSUME WorkspaceInv, Results, Ids, NEW w \in Workers, ~At(w, "idle"), NEW c,
         call' = [call EXCEPT ![w] = c], outcome' = outcome, asked' = asked,
         c.id = call[w].id, c.pc = "walk" => Req(w).tool = "find"
  PROVE  Results' /\ Ids' /\ call'[w] = c /\ \A v \in Workers : v # w => call'[v] = call[v]
  <1>1. call'[w] = c /\ \A v \in Workers : v # w => call'[v] = call[v]
    BY DEF WorkspaceInv, GoodCalls
  <1>2. Results'
    BY DEF Results, IsSequence
  <1>3. ASSUME NEW v \in Workers, ~At(v, "idle")'
        PROVE  /\ ~At(v, "idle") /\ call'[v].id = call[v].id /\ Req(v)' = Req(v)
               /\ v # w => call'[v] = call[v]
    <2>1. CASE v = w
      BY <1>1, <2>1 DEF Req
    <2>2. CASE v # w
      BY <1>1, <1>3, <2>2 DEF At, Req
    <2> QED
      BY <2>1, <2>2
  <1>4. Ids'
    <2>1. ASSUME NEW v \in Workers, At(v, "walk")'
          PROVE  Req(v)'.tool = "find"
      <3>1. ~At(v, "idle")'
        BY <2>1 DEF At
      <3>2. CASE v = w
        BY <1>1, <1>3, <2>1, <3>1, <3>2 DEF At
      <3>3. CASE v # w
        BY <1>1, <1>3, <2>1, <3>1, <3>3 DEF At, Ids
      <3> QED
        BY <3>2, <3>3
    <2>2. \A v \in Workers : ~At(v, "idle")' => outcome'[call'[v].id] = "running"
      BY <1>3 DEF Ids
    <2>3. \A v, u \in Workers :
              ~At(v, "idle")' /\ ~At(u, "idle")' /\ call'[u].id = call'[v].id => u = v
      BY <1>3 DEF Ids
    <2> QED
      BY <2>1, <2>2, <2>3 DEF Ids
  <1> QED
    BY <1>1, <1>2, <1>4

LEMMA IdsAfterBegin ==
  ASSUME WorkspaceInv, Results, Ids, NEW w \in Workers, Begin(w)
  PROVE  /\ Results' /\ Ids' /\ UNCHANGED <<fs, data>>
         /\ Len(asked) \in Nat /\ Len(asked') = Len(asked) + 1
         /\ \A i \in 1..Len(asked) : asked'[i] = asked[i] /\ outcome'[i] = outcome[i]
         /\ outcome'[Len(asked) + 1] = "running"
         /\ \A v \in Workers : At(v, "finish")' => call'[v] = call[v]
  <1>1. PICK req \in Requests[transport] :
            /\ asked' = Append(asked, req)
            /\ call' = [call EXCEPT ![w] =
                  [Idle EXCEPT !.pc = IF req.tool \in {"cp", "mv"} THEN "source" ELSE "path",
                               !.id = Len(asked) + 1]]
    BY DEF Begin
  <1>2. outcome' = Append(outcome, "running") /\ UNCHANGED <<fs, data>>
    BY DEF Begin
  <1> DEFINE c == [Idle EXCEPT !.pc = IF req.tool \in {"cp", "mv"} THEN "source" ELSE "path",
                               !.id = Len(asked) + 1]
  <1>3. call'[w] = c /\ \A v \in Workers : v # w => call'[v] = call[v]
    BY <1>1 DEF WorkspaceInv, GoodCalls
  <1>4. c.pc \in {"source", "path"} /\ c.id = Len(asked) + 1
    BY DEF Idle
  <1> HIDE DEF c
  <1>5. req \in Request /\ asked \in Seq(Request)
    BY <1>1, WorkspaceAssumption DEF WorkspaceInv, RecordsKept
  <1>6. /\ Len(asked) \in Nat /\ Len(asked') = Len(asked) + 1
        /\ \A i \in 1..Len(asked) : asked'[i] = asked[i]
    BY <1>1, <1>5, AppendProperties, LenProperties
  <1>7. PICK S : outcome \in Seq(S)
    BY DEF Results, IsSequence
  <1>8. outcome \in Seq(S \cup {"running"}) /\ "running" \in S \cup {"running"}
    BY <1>7
  <1>9. /\ outcome' \in Seq(S \cup {"running"}) /\ Len(outcome') = Len(asked) + 1
        /\ \A i \in 1..Len(asked) : outcome'[i] = outcome[i]
        /\ outcome'[Len(asked) + 1] = "running"
    BY <1>2, <1>8, AppendProperties DEF Results
  <1>10. Results'
    BY <1>6, <1>9 DEF Results, IsSequence
  <1>11. \A v \in Workers : ~At(v, "idle") => call[v].id \in 1..Len(asked)
    BY DEF WorkspaceInv, GoodCalls, GoodCall, At
  <1>12. ASSUME NEW v \in Workers, v # w, ~At(v, "idle")'
         PROVE  /\ ~At(v, "idle") /\ call'[v] = call[v] /\ Req(v)' = Req(v)
                /\ call'[v].id \in 1..Len(asked) /\ outcome'[call[v].id] = "running"
    <2>1. call'[v] = call[v] /\ ~At(v, "idle")
      BY <1>3, <1>12 DEF At
    <2> QED
      BY <1>6, <1>9, <1>11, <2>1 DEF Req, Ids
  <1>13. ASSUME NEW v \in Workers, ~At(v, "idle")'
         PROVE  /\ outcome'[call'[v].id] = "running"
                /\ At(v, "walk")' => Req(v)'.tool = "find"
                /\ \A u \in Workers : ~At(u, "idle")' /\ call'[u].id = call'[v].id => u = v
    <2>1. CASE v = w
      <3>1. \A u \in Workers : u # w /\ ~At(u, "idle")' => call'[u].id # call'[w].id
        BY <1>3, <1>4, <1>6, <1>12
      <3> QED
        BY <1>3, <1>4, <1>9, <2>1, <3>1 DEF At
    <2>2. CASE v # w
      <3>1. call'[v].id # call'[w].id
        BY <1>3, <1>4, <1>6, <1>12, <1>13, <2>2
      <3> QED
        BY <1>12, <1>13, <2>2, <3>1 DEF At, Ids
    <2> QED
      BY <2>1, <2>2
  <1>14. Ids'
    BY <1>13 DEF Ids
  <1>15. \A v \in Workers : At(v, "finish")' => call'[v] = call[v]
    BY <1>3, <1>4 DEF At
  <1> QED
    BY <1>2, <1>6, <1>9, <1>10, <1>14, <1>15

LEMMA TextsStay ==
  ASSUME Results, Texts, Marks, Kept,
         Len(data) \in Nat, Len(data') \in Nat, Len(data) <= Len(data'),
         Len(asked) \in Nat, Len(asked') \in Nat, Len(asked) <= Len(asked'),
         \A n \in 1..Len(data) : data'[n] = data[n],
         \A n \in 1..Len(data') : n \notin 1..Len(data) => data'[n] = << >>,
         \A n : Stored(n) => Stored(n)',
         \A i \in 1..Len(asked) :
             /\ asked'[i] = asked[i]
             /\ \/ outcome'[i] = outcome[i]
                \/ outcome[i] = "running" /\ (outcome'[i] = "ok" => asked[i].tool # "write_file"),
         \A i \in 1..Len(asked') : i \notin 1..Len(asked) => outcome'[i] = "running"
  PROVE  Texts' /\ Marks' /\ Kept'
  <1>1. Texts'
    <2>1. IsSequence(<< >>)
      BY DEF IsSequence
    <2> QED
      BY <2>1 DEF Texts, IsSequence
  <1>2. Marks'
    <2>1. ASSUME NEW n \in 1..Len(data'), NEW k \in 1..Len(data'[n])
          PROVE  data'[n][k] = 0 \/ (data'[n][k] \in 1..Len(asked') /\ outcome'[data'[n][k]] # "running")
      <3>1. n \in 1..Len(data)
        <4>1. Len(<< >>) = 0
          OBVIOUS
        <4> QED
          BY <2>1, <4>1
      <3>2. data'[n] = data[n] /\ k \in 1..Len(data[n])
        BY <2>1, <3>1
      <3>3. data[n][k] = 0 \/ (data[n][k] \in 1..Len(asked) /\ outcome[data[n][k]] # "running")
        BY <3>1, <3>2 DEF Marks
      <3> DEFINE i == data[n][k]
      <3>4. data'[n][k] = i
        BY <3>2
      <3>5. ASSUME i \in 1..Len(asked), outcome[i] # "running"
            PROVE  i \in 1..Len(asked') /\ outcome'[i] # "running"
        <4>1. i \in 1..Len(asked')
          BY <3>5
        <4>2. outcome'[i] = outcome[i]
          BY <3>5
        <4> QED
          BY <3>5, <4>1, <4>2
      <3> QED
        BY <3>3, <3>4, <3>5
    <2> QED
      BY <2>1 DEF Marks
  <1>3. Kept'
    <2>1. ASSUME NEW i \in 1..Len(asked'), asked'[i].tool = "write_file", outcome'[i] = "ok"
          PROVE  \E n \in 1..Len(data') : Stored(n)' /\ Holds(n, i)'
      <3>1. i \in 1..Len(asked) /\ asked[i].tool = "write_file" /\ outcome[i] = "ok"
        BY <2>1
      <3>2. PICK n \in 1..Len(data) : Stored(n) /\ Holds(n, i)
        BY <3>1 DEF Kept
      <3>3. n \in 1..Len(data') /\ Stored(n)' /\ data'[n] = data[n]
        BY <3>2
      <3>4. Holds(n, i)'
        BY <3>2, <3>3 DEF Holds
      <3> QED
        BY <3>3, <3>4
    <2> QED
      BY <2>1 DEF Kept
  <1> QED
    BY <1>1, <1>2, <1>3

LEMMA OutputsStay ==
  ASSUME Outputs, Len(data) \in Nat, Len(data') \in Nat, Len(data) <= Len(data'),
         \A n : Stored(n) => Stored(n)',
         \A v \in Workers :
             At(v, "finish")' =>
                 \/ call'[v] = call[v]
                 \/ call'[v].output \in 1..Len(data') /\ Stored(call[v].output)'
  PROVE  Outputs'
  <1>1. ASSUME NEW v \in Workers, At(v, "finish")'
        PROVE  call'[v].output \in 1..Len(data') /\ Stored(call[v].output)'
    <2>1. CASE call'[v] = call[v]
      <3>1. At(v, "finish")
        BY <1>1, <2>1 DEF At
      <3>2. call[v].output \in 1..Len(data) /\ Stored(call[v].output)
        BY <3>1 DEF Outputs
      <3> DEFINE n == call[v].output
      <3>3. call'[v].output = n
        BY <2>1
      <3>4. Stored(n) => \E p \in FilesIn(fs)' : fs'[p].node = n
        <4> HIDE DEF n
        <4>1. n = n /\ \A m : Stored(m) => \E p \in FilesIn(fs)' : fs'[p].node = m
          BY DEF Stored
        <4> QED
          BY <4>1
      <3> QED
        BY <3>2, <3>3, <3>4 DEF Stored
    <2> QED
      BY <1>1, <2>1
  <1> QED
    BY <1>1 DEF Outputs

LEMMA OpenAdds ==
  ASSUME WorkspaceInv, NEW p \in Path, CanOpen(p), Opened(p, FALSE)
  PROVE  /\ Len(data) \in Nat /\ Len(data') \in Nat /\ Len(data) <= Len(data')
         /\ \A n \in 1..Len(data) : data'[n] = data[n]
         /\ \A n \in 1..Len(data') : n \notin 1..Len(data) => data'[n] = << >>
         /\ \A n : Stored(n) => Stored(n)'
         /\ OpenNode(p) \in 1..Len(data')
         /\ \E q \in FilesIn(fs)' : fs'[q].node = OpenNode(p)
  <1> DEFINE q == Follow(p)
             m == Len(data) + 1
  <1>1. q \in Path
    BY FollowType DEF WorkspaceInv
  <1>2. PICK S : data \in Seq(S)
    BY DEF WorkspaceInv, RecordsKept, IsSequence
  <1>3. Len(data) \in Nat
    BY <1>2
  <1>4. CASE IsFile(q)
    <2>1. fs' = fs /\ data' = data /\ OpenNode(p) = fs[q].node
      BY <1>4 DEF Opened, OpenNode
    <2>2. OpenNode(p) \in 1..Len(data)
      BY <1>1, <1>4, <2>1 DEF WorkspaceInv, SoundTree, SoundEntry, IsFile
    <2>3. q \in FilesIn(fs)'
      BY <1>1, <1>4, <2>1 DEF FilesIn, IsFile
    <2> QED
      BY <1>3, <2>1, <2>2, <2>3, SameStored
  <1>5. CASE ~IsFile(q)
    <2>1. fs' = [fs EXCEPT ![q] = File(m)] /\ data' = Append(data, << >>) /\ OpenNode(p) = m
      BY <1>5 DEF Opened, OpenNode
    <2>2. data \in Seq(S \cup {<< >>}) /\ << >> \in S \cup {<< >>}
      BY <1>2
    <2>3. /\ Len(data') = m /\ data'[m] = << >>
          /\ \A n \in 1..Len(data) : data'[n] = data[n]
      BY <2>1, <2>2, AppendProperties
    <2>4. fs \in [Path -> Entry]
      BY DEF WorkspaceInv, SoundTree
    <2> HIDE DEF q
    <2>5. \A n : Stored(n) => Stored(n)'
      BY <1>5, <2>1, <2>4, StillStored
    <2>6. q \in FilesIn(fs)' /\ fs'[q].node = m
      BY <1>1, <2>1, <2>4 DEF FilesIn, File
    <2> QED
      BY <1>3, <2>1, <2>3, <2>5, <2>6
  <1> QED
    BY <1>4, <1>5

LEMMA AppendedText ==
  ASSUME NEW s, IsSequence(s), NEW e
  PROVE  /\ Len(s) \in Nat /\ Len(s \o <<e>>) = Len(s) + 1 /\ (s \o <<e>>)[Len(s) + 1] = e
         /\ \A i \in 1..Len(s) : (s \o <<e>>)[i] = s[i]
  <1>1. PICK S : s \in Seq(S)
    BY DEF IsSequence
  <1>2. s \in Seq(S \cup {e}) /\ <<e>> \in Seq(S \cup {e}) /\ Len(s) \in Nat
    BY <1>1
  <1>3. Len(<<e>>) = 1 /\ <<e>>[1] = e
    OBVIOUS
  <1>4. /\ Len(s \o <<e>>) = Len(s) + Len(<<e>>)
        /\ \A i \in 1..(Len(s) + Len(<<e>>)) :
               (s \o <<e>>)[i] = IF i <= Len(s) THEN s[i] ELSE <<e>>[i - Len(s)]
    BY <1>2, ConcatProperties
  <1> QED
    BY <1>2, <1>3, <1>4

LEMMA WrittenOnce ==
  ASSUME NEW e, NEW result, NEW text \in Written(<<e>>, result)
  PROVE  text = <<e>> \/ (result # "ok" /\ text = << >>)
  <1>1. Len(<<e>>) = 1 /\ <<e>> \in Seq({e})
    OBVIOUS
  <1>2. SubSeq(<<e>>, 1, 0) = << >> /\ SubSeq(<<e>>, 1, 1) = <<e>>
    <2>1. SubSeq(<<e>>, 1, Len(<<e>>)) = <<e>>
      BY <1>1, SubSeqFull
    <2>2. SubSeq(<<e>>, 1, 0) = << >>
      BY SubSeqEmpty
    <2> QED
      BY <1>1, <2>1, <2>2
  <1>3. \A k \in 0..1 : k = 0 \/ k = 1
    OBVIOUS
  <1> QED
    BY <1>1, <1>2, <1>3 DEF Written

LEMMA WriteStringAdds ==
  ASSUME WorkspaceInv, Results, Ids, Adding, Added, NEW w \in Workers, ~At(w, "idle"),
         WriteString(w)
  PROVE  Added'
  <1>0. PICK m, id : m = call[w].output /\ id = call[w].id
    OBVIOUS
  <1>1. fs' = fs /\ asked' = asked /\ At(w, "finish") /\ Req(w).tool = "write_file"
    BY DEF WriteString, Quiet
  <1>2. id \in 1..Len(asked) /\ outcome[id] = "running"
    BY <1>0 DEF WorkspaceInv, GoodCalls, GoodCall, At, Ids
  <1>3. Req(w).append
    BY <1>0, <1>1, <1>2 DEF Adding, Adds, Req
  <1>4. PICK result, v :
            /\ data' = [data EXCEPT ![m] = v]
            /\ Finish(w, result) /\ result \in {"ok", "error"}
            /\ v = data[m] \o <<id>> \/ (result # "ok" /\ v = data[m] \o << >>)
    <2>1. PICK result \in {"ok", "error"} : \E text \in Written(<<id>>, result) :
              data' = [data EXCEPT ![m] = data[m] \o text] /\ Finish(w, result)
      BY <1>0, <1>3 DEF WriteString
    <2>2. PICK text \in Written(<<id>>, result) :
              data' = [data EXCEPT ![m] = data[m] \o text] /\ Finish(w, result)
      BY <2>1
    <2>3. text = <<id>> \/ (result # "ok" /\ text = << >>)
      BY WrittenOnce
    <2> QED
      BY <2>2, <2>3
  <1>5. m \in 1..Len(data) /\ Stored(m)
    BY <1>0, <1>1 DEF Added, Outputs
  <1>6. IsSequence(data[m])
    BY <1>5 DEF Added, Texts
  <1> DEFINE length == Len(data[m])
  <1>7. /\ IsSequence(v) /\ length \in Nat
        /\ \A i \in 1..length : v[i] = data[m][i]
        /\ \/ Len(v) = length + 1 /\ v[length + 1] = id
           \/ result # "ok" /\ Len(v) = length
    <2>1. PICK s, e : s = data[m] /\ e = id
      OBVIOUS
    <2>2. IsSequence(s) /\ (v = s \o <<e>> \/ (result # "ok" /\ v = s \o << >>))
      BY <1>4, <1>6, <2>1
    <2>3. /\ Len(s) \in Nat
          /\ Len(s \o <<e>>) = Len(s) + 1 /\ (s \o <<e>>)[Len(s) + 1] = e
          /\ \A i \in 1..Len(s) : (s \o <<e>>)[i] = s[i]
      BY <2>2, AppendedText
    <2>4. s \o << >> = s
      BY <2>2, ConcatEmptySeq DEF IsSequence
    <2>5. IsSequence(s \o <<e>>)
      <3>1. <<e>> \in Seq({e})
        OBVIOUS
      <3> QED
        BY <2>2, <3>1, PrefixOfLonger DEF IsSequence
    <2> QED
      BY <2>1, <2>2, <2>3, <2>4, <2>5
  <1> HIDE DEF length
  <1>8. /\ \A u \in Workers : ~At(u, "idle")' => call'[u] = call[u]
        /\ \A i \in 1..Len(asked) : outcome'[i] = IF i = id THEN result ELSE outcome[i]
    BY <1>0, <1>1, <1>4, IdsAfterEnd
  <1>9. id # 0 /\ Len(asked) \in Nat
    BY <1>2, LenProperties DEF WorkspaceInv, RecordsKept
  <1>10. /\ Texts' /\ Len(data') = Len(data)
         /\ \A n \in 1..Len(data) : data'[n] = IF n = m THEN v ELSE data[n]
    <2>1. Texts /\ (m \in 1..Len(data) => IsSequence(v))
      BY <1>7 DEF Added
    <2> QED
      BY <1>4, <2>1, OneTextChanges
  <1>11. \A n : Stored(n) => Stored(n)'
    BY <1>1, SameStored
  <1>12. Outputs'
    <2>1. ASSUME NEW u \in Workers, At(u, "finish")'
          PROVE  call'[u].output \in 1..Len(data') /\ Stored(call[u].output)'
      <3>1. call'[u] = call[u]
        BY <1>8, <2>1 DEF At
      <3>2. At(u, "finish")
        BY <2>1, <3>1 DEF At
      <3>3. call[u].output \in 1..Len(data) /\ Stored(call[u].output)
        BY <3>2 DEF Added, Outputs
      <3> QED
        BY <1>1, <1>10, <3>1, <3>3 DEF Stored, FilesIn
    <2> QED
      BY <2>1 DEF Outputs
  <1>13. Marks'
    <2>1. ASSUME NEW n \in 1..Len(data'), NEW k \in 1..Len(data'[n])
          PROVE  data'[n][k] = 0 \/ (data'[n][k] \in 1..Len(asked') /\ outcome'[data'[n][k]] # "running")
      <3>1. CASE n \in 1..Len(data) /\ k \in 1..Len(data[n]) /\ data'[n][k] = data[n][k]
        <4>1. data[n][k] = 0 \/ (data[n][k] \in 1..Len(asked) /\ outcome[data[n][k]] # "running")
          BY <3>1 DEF Added, Marks
        <4> QED
          BY <1>1, <1>4, <1>8, <3>1, <4>1
      <3>2. CASE n = m /\ k = length + 1 /\ Len(v) = length + 1
        <4>1. data'[n][k] = id
          BY <1>5, <1>7, <1>10, <3>2
        <4> QED
          BY <1>1, <1>2, <1>4, <1>8, <4>1
      <3> QED
        BY <1>7, <1>10, <2>1, <3>1, <3>2 DEF length
    <2> QED
      BY <2>1 DEF Marks
  <1>14. Kept'
    <2>1. ASSUME NEW i \in 1..Len(asked'), asked'[i].tool = "write_file", outcome'[i] = "ok"
          PROVE  \E n \in 1..Len(data') : Stored(n)' /\ Holds(n, i)'
      <3>1. CASE i = id
        <4>1. \A j \in 1..length : data[m][j] # id
          BY <1>2, <1>5, <1>9 DEF Added, Marks, length
        <4>2. result = "ok"
          BY <1>1, <1>2, <1>8, <2>1, <3>1
        <4>3. \A j \in 1..Len(v) : v[j] = id <=> j = length + 1
          BY <1>7, <4>1, <4>2
        <4>4. length + 1 \in 1..Len(v)
          BY <1>7, <4>2
        <4>5. data'[m] = v /\ m \in 1..Len(data') /\ Stored(m)'
          BY <1>5, <1>10, <1>11
        <4>6. Holds(m, i)'
          BY <3>1, <4>3, <4>4, <4>5 DEF Holds
        <4> QED
          BY <4>5, <4>6
      <3>2. CASE i # id
        <4>1. i \in 1..Len(asked) /\ asked[i].tool = "write_file" /\ outcome[i] = "ok"
          BY <1>1, <1>8, <2>1, <3>2
        <4>2. PICK n \in 1..Len(data) : Stored(n) /\ Holds(n, i)
          BY <4>1 DEF Added, Kept
        <4>3. PICK k \in 1..Len(data[n]) : \A j \in 1..Len(data[n]) : data[n][j] = i <=> j = k
          BY <4>2 DEF Holds
        <4>4. k \in 1..Len(data'[n]) /\ \A j \in 1..Len(data'[n]) : data'[n][j] = i <=> j = k
          <5>1. CASE n = m
            <6>1. data'[n] = v /\ k \in 1..length /\ k \in 1..Len(v)
              BY <1>5, <1>7, <1>10, <5>1 DEF length
            <6>2. ASSUME NEW j \in 1..Len(v)
                  PROVE  v[j] = i <=> j = k
              <7>1. CASE j \in 1..length
                BY <1>7, <4>3, <5>1, <7>1 DEF length
              <7>2. CASE j = length + 1
                BY <1>7, <3>2, <6>1, <6>2, <7>2
              <7> QED
                BY <1>7, <7>1, <7>2
            <6> QED
              BY <6>1, <6>2
          <5>2. CASE n # m
            BY <1>10, <4>3, <5>2
          <5> QED
            BY <5>1, <5>2
        <4>5. Holds(n, i)'
          BY <4>4 DEF Holds
        <4> QED
          BY <1>10, <1>11, <4>2, <4>5
      <3> QED
        BY <3>1, <3>2
    <2> QED
      BY <2>1 DEF Kept
  <1> QED
    BY <1>10, <1>12, <1>13, <1>14 DEF Added

(* The other steps leave every text as it is. *)
LEMMA StepAdds ==
  ASSUME WorkspaceInv, Results, Ids, Adding, Added, NEW w \in Workers, Step(w), ~Begin(w),
         ~At(w, "idle"), asked' = asked, Advances(w) \/ EndsCall(w), ~WriteString(w)
  PROVE  Added'
  <1>1. /\ call[w].id \in 1..Len(asked) /\ outcome[call[w].id] = "running"
        /\ Len(asked) \in Nat /\ call[w].path \in Path
    BY CallAt, LenProperties DEF WorkspaceInv, RecordsKept, GoodCalls, GoodCall, At, Ids
  <1>2. Len(data) \in Nat
    BY LenProperties DEF WorkspaceInv, RecordsKept, IsSequence
  <1>3. \A i \in 1..Len(asked) :
            /\ asked'[i] = asked[i]
            /\ \/ outcome'[i] = outcome[i]
               \/ outcome[i] = "running" /\ (outcome'[i] = "ok" => asked[i].tool # "write_file")
    <2>1. CASE Advances(w)
      BY <2>1 DEF Advances
    <2>2. CASE EndsCall(w)
      <3>1. PICK result \in {"ok", "error"} :
               Finish(w, result) /\ (result = "ok" => Req(w).tool # "write_file")
        BY <2>2 DEF EndsCall
      <3>2. \A i \in 1..Len(asked) : outcome'[i] = IF i = call[w].id THEN result ELSE outcome[i]
        BY <3>1, IdsAfterEnd
      <3> QED
        BY <1>1, <3>1, <3>2 DEF Req
    <2> QED
      BY <2>1, <2>2
  <1>4. CASE Open(w) /\ ~Fail(w)
    <2>1. CanOpen(call[w].path) /\ Opened(call[w].path, Truncates(Req(w)))
      BY <1>4 DEF Open
    <2>2. ~Truncates(Req(w))
      BY <1>1 DEF Adding, Adds, Req, Truncates
    <2>3. Opened(call[w].path, FALSE)
      BY <2>1, <2>2 DEF Opened
    <2>4. PICK c : /\ call' = [call EXCEPT ![w] = c] /\ c.pc = "finish"
                   /\ c.output = OpenNode(call[w].path)
      <3> DEFINE c == [call[w] EXCEPT !.output = OpenNode(call[w].path), !.pc = "finish"]
      <3>1. DOMAIN call[w] = CallFields
        BY CallAt
      <3>2. call' = [call EXCEPT ![w] = c]
        BY <1>4 DEF Open
      <3>3. c.pc = "finish" /\ c.output = OpenNode(call[w].path)
        BY <3>1 DEF CallFields
      <3> HIDE DEF c
      <3> QED
        BY <3>2, <3>3
    <2>5. /\ Len(data) \in Nat /\ Len(data') \in Nat /\ Len(data) <= Len(data')
          /\ \A n \in 1..Len(data) : data'[n] = data[n]
          /\ \A n \in 1..Len(data') : n \notin 1..Len(data) => data'[n] = << >>
          /\ \A n : Stored(n) => Stored(n)'
          /\ OpenNode(call[w].path) \in 1..Len(data')
          /\ \E q \in FilesIn(fs)' : fs'[q].node = OpenNode(call[w].path)
      BY <1>1, <2>1, <2>3, OpenAdds
    <2>6. Texts' /\ Marks' /\ Kept'
      BY <1>1, <1>3, <2>5, TextsStay DEF Added
    <2>7. ASSUME NEW v \in Workers, At(v, "finish")'
          PROVE  \/ call'[v] = call[v]
                 \/ call'[v].output \in 1..Len(data') /\ Stored(call[v].output)'
      <3>1. CASE v = w
        <4>1. call'[v] = c
          BY <2>4, <3>1 DEF WorkspaceInv, GoodCalls
        <4> QED
          BY <2>4, <2>5, <4>1 DEF Stored
      <3>2. CASE v # w
        BY <2>4, <3>2 DEF WorkspaceInv, GoodCalls
      <3> QED
        BY <3>1, <3>2
    <2>8. Outputs'
      BY <2>5, <2>7, OutputsStay DEF Added
    <2> QED
      BY <2>6, <2>8 DEF Added
  <1>5. CASE ~(Open(w) /\ ~Fail(w))
    <2>1. data' = data /\ \A n : Stored(n) => Stored(n)'
      <3>1. CASE UNCHANGED <<fs, data>>
        BY <3>1, SameStored
      <3>2. CASE Mkdir(w) /\ ~UNCHANGED <<fs, data>>
        <4>1. /\ data' = data /\ ~Exists(call[w].path)
              /\ fs' = [fs EXCEPT ![call[w].path] = Directory]
          BY <3>2 DEF Mkdir, Fail
        <4> QED
          BY <4>1, StillStored DEF Exists, IsFile, WorkspaceInv, SoundTree
      <3> QED
        BY <1>5, <3>1, <3>2, ContentShape
    <2>2. Texts' /\ Marks' /\ Kept'
      BY <1>1, <1>2, <1>3, <2>1, TextsStay DEF Added
    <2>3. ASSUME NEW v \in Workers, At(v, "finish")'
          PROVE  call'[v] = call[v]
      <3>1. CASE Advances(w)
        <4>1. PICK c : /\ call' = [call EXCEPT ![w] = c] /\ outcome' = outcome
                       /\ c.pc = "finish" => Open(w)
          BY <3>1 DEF Advances
        <4>2. ~Open(w)
          <5>1. outcome[call[w].id] # "error" /\ outcome' = outcome
            BY <1>1, <4>1
          <5>2. ~Fail(w)
            <6>1. ASSUME Fail(w)
                  PROVE  outcome'[call[w].id] = "error"
              BY <1>1, <6>1, IdsAfterEnd DEF Fail
            <6> QED
              BY <5>1, <6>1
          <5> QED
            BY <1>5, <5>2
        <4> QED
          BY <2>3, <4>1, <4>2 DEF WorkspaceInv, GoodCalls, At
      <3>2. CASE EndsCall(w)
        <4>1. PICK result : Finish(w, result)
          BY <3>2 DEF EndsCall
        <4>2. ~At(v, "idle")'
          BY <2>3 DEF At
        <4> QED
          BY <4>1, <4>2, IdsAfterEnd
      <3> QED
        BY <3>1, <3>2
    <2>4. Outputs'
      BY <1>2, <2>1, <2>3, OutputsStay DEF Added
    <2> QED
      BY <2>2, <2>4 DEF Added
  <1> QED
    BY <1>4, <1>5

LEMMA AddInit == Init => AddInv
  <1> SUFFICES ASSUME Init
               PROVE  AddInv
    OBVIOUS
  <1>1. WorkspaceInv
    BY InitEstablishes
  <1>2. asked = << >> /\ outcome = << >> /\ \A w \in Workers : At(w, "idle")
    BY DEF Init, Idle, At
  <1>3. Results /\ Len(asked) = 0
    <2>1. << >> \in Seq({})
      OBVIOUS
    <2> QED
      BY <1>2, <2>1 DEF Results, IsSequence
  <1>4. Ids
    BY <1>2 DEF Ids
  <1>5. Outputs
    BY <1>2 DEF Outputs, At
  <1>6. Kept
    BY <1>3 DEF Kept
  <1>7. Texts /\ Marks
    <2> DEFINE n == Cardinality(NodesIn(fs))
    <2>1. n \in Nat /\ NodesIn(fs) = 1..n
      BY WorkspaceAssumption, FS_CardinalityType DEF Init
    <2> HIDE DEF n
    <2>2. data = [i \in 1..n |-> <<0>>]
      BY <2>1 DEF Init
    <2>3. Len(data) = n
      BY <2>1, <2>2
    <2>4. <<0>> \in Seq({0}) /\ Len(<<0>>) = 1 /\ <<0>>[1] = 0
      OBVIOUS
    <2>5. \A i \in 1..Len(data) : data[i] = <<0>>
      BY <2>2, <2>3
    <2>6. Texts
      BY <2>4, <2>5 DEF Texts, IsSequence
    <2>7. \A i \in 1..Len(data) : \A k \in 1..Len(data[i]) : data[i][k] = 0
      BY <2>4, <2>5
    <2> QED
      BY <2>6, <2>7 DEF Marks
  <1> QED
    BY <1>3, <1>4, <1>5, <1>6, <1>7 DEF AddInv, Added

LEMMA AddNext == AddInv /\ WorkspaceInv /\ [Next]_vars => AddInv'
  <1> SUFFICES ASSUME AddInv, WorkspaceInv, [Next]_vars
               PROVE  AddInv'
    OBVIOUS
  <1>1. Results /\ Ids
    BY DEF AddInv
  <1>2. CASE UNCHANGED vars
    <2>1. UNCHANGED <<fs, data, call, asked, outcome>>
      BY <1>2 DEF vars
    <2>2. Results' /\ Ids' /\ (Adding' <=> Adding)
      BY <1>1, <2>1 DEF Results, IsSequence, Ids, At, Req, Adding
    <2>3. Added => Added'
      <3>1. Texts => Texts'
        BY <2>1 DEF Texts, IsSequence
      <3>2. Outputs => Outputs'
        BY <2>1 DEF Outputs, Stored, FilesIn, At
      <3>3. Marks => Marks'
        BY <2>1 DEF Marks
      <3>4. Kept => Kept'
        <4>1. \A n : Stored(n) => Stored(n)'
          BY <2>1, SameStored
        <4>2. \A n, i : Holds(n, i) => Holds(n, i)'
          BY <2>1 DEF Holds
        <4> QED
          BY <2>1, <4>1, <4>2 DEF Kept
      <3> QED
        BY <3>1, <3>2, <3>3, <3>4 DEF Added
    <2> QED
      BY <2>2, <2>3 DEF AddInv
  <1>3. ASSUME NEW w \in Workers, Begin(w)
        PROVE  AddInv'
    <2>1. /\ Results' /\ Ids' /\ UNCHANGED <<fs, data>>
          /\ Len(asked) \in Nat /\ Len(asked') = Len(asked) + 1
          /\ \A i \in 1..Len(asked) : asked'[i] = asked[i] /\ outcome'[i] = outcome[i]
          /\ outcome'[Len(asked) + 1] = "running"
          /\ \A v \in Workers : At(v, "finish")' => call'[v] = call[v]
      BY <1>1, <1>3, IdsAfterBegin
    <2>2. Len(data) \in Nat
      BY LenProperties DEF WorkspaceInv, RecordsKept, IsSequence
    <2>3. ASSUME Adding'
          PROVE  Added'
      <3>1. Adding
        BY <2>1, <2>3 DEF Adding
      <3>2. Added
        BY <3>1 DEF AddInv
      <3>3. \A n : Stored(n) => Stored(n)'
        BY <2>1, SameStored
      <3>4. \A i \in 1..Len(asked') : i \notin 1..Len(asked) => outcome'[i] = "running"
        <4>1. \A i \in 1..Len(asked') : i \notin 1..Len(asked) => i = Len(asked) + 1
          BY <2>1
        <4> QED
          BY <2>1, <4>1
      <3>5. Texts' /\ Marks' /\ Kept'
        BY <1>1, <2>1, <2>2, <3>2, <3>3, <3>4, TextsStay DEF Added
      <3>6. Outputs'
        BY <2>1, <2>2, <3>2, <3>3, OutputsStay DEF Added
      <3> QED
        BY <3>5, <3>6 DEF Added
    <2> QED
      BY <2>1, <2>3 DEF AddInv
  <1>4. ASSUME NEW w \in Workers, Step(w), ~Begin(w)
        PROVE  AddInv'
    <2>1. ~At(w, "idle") /\ asked' = asked /\ (Advances(w) \/ EndsCall(w))
      BY <1>1, <1>4, StepShape
    <2>2. Results' /\ Ids'
      <3>1. CASE Advances(w)
        BY <1>1, <2>1, <3>1, IdsAfterAdvance DEF Advances
      <3>2. CASE EndsCall(w)
        BY <1>1, <2>1, <3>2, IdsAfterEnd DEF EndsCall
      <3> QED
        BY <2>1, <3>1, <3>2
    <2>3. ASSUME Adding'
          PROVE  Added'
      <3>1. Adding /\ Added
        BY <2>1, <2>3 DEF Adding, AddInv
      <3> QED
        BY <1>1, <1>4, <2>1, <3>1, StepAdds, WriteStringAdds
    <2> QED
      BY <2>2, <2>3 DEF AddInv
  <1> QED
    BY <1>2, <1>3, <1>4 DEF Next, Served

(* While callers only add, no interleaving of their calls loses a text     *)
(* that an append reported as written, nor writes it twice: runWriteFile   *)
(* opens with O_APPEND and without O_TRUNC, and what else adds, runTouch   *)
(* and runMkdir, replaces no file.                                         *)
THEOREM AppendsAreKept == Spec => []AppendsKept
  <1>1. AddInv => AppendsKept
    <2> SUFFICES ASSUME AddInv, Adding, NEW i \in 1..Len(asked),
                        asked[i].tool = "write_file", outcome[i] = "ok"
                 PROVE  \E n \in 1..Len(data) :
                            /\ Stored(n)
                            /\ Cardinality({k \in 1..Len(data[n]) : data[n][k] = i}) = 1
      BY DEF AppendsKept, Adding
    <2>1. PICK n \in 1..Len(data) : Stored(n) /\ Holds(n, i)
      BY DEF AddInv, Added, Kept
    <2>2. PICK k \in 1..Len(data[n]) : \A j \in 1..Len(data[n]) : data[n][j] = i <=> j = k
      BY <2>1 DEF Holds
    <2>3. {j \in 1..Len(data[n]) : data[n][j] = i} = {k}
      BY <2>2
    <2>4. Cardinality({k}) = 1
      BY FS_Singleton
    <2> QED
      BY <2>1, <2>3, <2>4
  <1>2. AddInv /\ WorkspaceInv /\ [Next]_vars => AddInv'
    BY AddNext
  <1> QED
    BY <1>1, <1>2, AddInit, InitEstablishes, StepKeeps, PTL DEF Spec

-----------------------------------------------------------------------------
(***************************************************************************)
(* A find among other calls: every path once, no more than asked for, only *)
(* what lay there at some time of the call and, unless it is flagged, all  *)
(* that lay there at every time.                                           *)
(*                                                                         *)
(* The argument: the entries that are left to go through lead to parts of  *)
(* the tree that do not overlap (Unrelated), to none that was found        *)
(* (Apart), and to all that must still be found (NothingMissed).  ReadDir  *)
(* keeps that because a directory is read under the name the walk knows it *)
(* by: no link ever comes to lie on a path that had none (NoNewLink, the   *)
(* only steps that could bring one there being renames, and what mv has    *)
(* resolved is no link), and because whatever lay in it all the time is    *)
(* below one of the children it has now.                                   *)
(***************************************************************************)
(* Paths by their length and names. *)
LEMMA PathNames ==
  ASSUME NEW p \in Path, NEW q \in Path
  PROVE  /\ Len(p) \in 0..2
         /\ IsPrefix(p, q) <=> /\ Len(p) <= Len(q)
                               /\ Len(p) >= 1 => p[1] = q[1]
                               /\ Len(p) = 2 => p[2] = q[2]
         /\ p = q <=> /\ Len(p) = Len(q)
                      /\ Len(p) >= 1 => p[1] = q[1]
                      /\ Len(p) = 2 => p[2] = q[2]
  <1>1. CASE p = Root
    <2>1. Len(p) = 0 /\ Len(q) \in 0..2 /\ (Len(q) = 0 => q = Root)
      BY <1>1, PathShape DEF Root
    <2>2. SubSeq(q, 1, 0) = << >>
      BY SubSeqEmpty
    <2> QED
      BY <1>1, <2>1, <2>2 DEF IsPrefix, Root
  <1>2. CASE \E n \in Names : p = <<n>>
    <2>1. PICK n \in Names : p = <<n>> /\ Len(p) = 1 /\ p[1] = n
      BY <1>2
    <2>2. CASE q = Root
      BY <2>1, <2>2, PathPrefixes DEF Root
    <2>3. CASE \E k \in Names : q = <<k>>
      BY <2>1, <2>3, PathPrefixes
    <2>4. CASE \E k, l \in Names : q = <<k, l>>
      BY <2>1, <2>4, PathPrefixes
    <2> QED
      BY <2>2, <2>3, <2>4, PathShape
  <1>3. CASE \E n, m \in Names : p = <<n, m>>
    <2>1. PICK n \in Names, m \in Names : p = <<n, m>> /\ Len(p) = 2 /\ p[1] = n /\ p[2] = m
      BY <1>3
    <2>2. CASE q = Root
      BY <2>1, <2>2, PathPrefixes DEF Root
    <2>3. CASE \E k \in Names : q = <<k>>
      BY <2>1, <2>3, PathPrefixes
    <2>4. CASE \E k, l \in Names : q = <<k, l>>
      BY <2>1, <2>4, PathPrefixes
    <2> QED
      BY <2>2, <2>3, <2>4, PathShape
  <1> QED
    BY <1>1, <1>2, <1>3, PathShape

LEMMA PrefixOrder ==
  ASSUME NEW p \in Path, NEW q \in Path, NEW r \in Path
  PROVE  /\ IsPrefix(p, p)
         /\ IsPrefix(p, q) <=> p = q \/ Inside(q, p)
         /\ IsPrefix(p, q) /\ IsPrefix(q, r) => IsPrefix(p, r)
         /\ Inside(q, p) => IsPrefix(p, q) /\ p # q
  BY PathNames DEF Inside

LEMMA ChildNames ==
  ASSUME NEW d \in Path, NEW c \in Children(d)
  PROVE  /\ c \in Path /\ Len(c) = Len(d) + 1 /\ Len(d) \in 0..1
         /\ Len(d) = 1 => c[1] = d[1]
         /\ Front(c) = d
  <1>1. PICK n \in Names : c = Append(d, n) /\ c \in Path
    BY DEF Children
  <1>2. CASE d = Root
    <2>1. c = <<n>> /\ d = << >>
      BY <1>1, <1>2, AppendOne DEF Root
    <2>2. Len(<<n>>) = 1 /\ Len(<< >>) = 0
      OBVIOUS
    <2>3. Front(c) = d
      BY <2>1, Fronts
    <2> QED
      BY <1>1, <2>1, <2>2, <2>3
  <1>3. CASE \E k \in Names : d = <<k>>
    <2>1. PICK k \in Names : d = <<k>>
      BY <1>3
    <2>2. c = <<k, n>>
      BY <1>1, <2>1, AppendOne
    <2>3. /\ Len(<<k, n>>) = 2 /\ Len(<<k>>) = 1
          /\ <<k, n>>[1] = k /\ <<k>>[1] = k
      OBVIOUS
    <2>4. Front(c) = d
      BY <2>1, <2>2, Fronts
    <2> QED
      BY <1>1, <2>1, <2>2, <2>3, <2>4
  <1>4. CASE \E k, l \in Names : d = <<k, l>>
    <2>1. PICK k \in Names, l \in Names : d = <<k, l>>
      BY <1>4
    <2>2. <<k, l>> \in Seq(Names) /\ n \in Names /\ Len(<<k, l>>) = 2
      OBVIOUS
    <2>3. Len(Append(<<k, l>>, n)) = 3
      BY <2>2, AppendProperties
    <2>4. Len(c) \in 0..2
      BY <1>1, PathNames
    <2> QED
      BY <1>1, <2>1, <2>3, <2>4
  <1> QED
    BY <1>2, <1>3, <1>4, PathShape

LEMMA ChildOnTheWay ==
  ASSUME NEW d \in Path, NEW p \in Path, Inside(p, d)
  PROVE  \E c \in Children(d) : IsPrefix(c, p)
  <1>1. CASE d = Root
    <2>1. Len(p) \in 1..2
      BY <1>1, PathNames DEF Inside, Root
    <2>2. p[1] \in Names
      BY <2>1, PathShape
    <2>3. <<p[1]>> \in Path /\ <<p[1]>> = Append(d, p[1])
      BY <1>1, <2>2, AppendOne, NamesInPath DEF Root
    <2>4. Len(<<p[1]>>) = 1 /\ <<p[1]>>[1] = p[1]
      OBVIOUS
    <2>5. IsPrefix(<<p[1]>>, p)
      BY <2>1, <2>3, <2>4, PathNames
    <2> QED
      BY <2>2, <2>3, <2>5 DEF Children
  <1>2. CASE d # Root
    <2>1. Len(d) = 1 /\ Len(p) = 2 /\ d[1] = p[1]
      <3>1. Len(d) # 0
        BY <1>2, PathShape
      <3> QED
        BY <3>1, PathNames DEF Inside
    <2>2. p[2] \in Names /\ p = <<p[1], p[2]>> /\ d = <<p[1]>>
      <3>1. \E n, m \in Names : p = <<n, m>>
        BY <2>1, PathShape
      <3>2. \E n \in Names : d = <<n>>
        BY <2>1, PathShape
      <3> QED
        BY <2>1, <3>1, <3>2
    <2>3. p = Append(d, p[2])
      BY <2>2, AppendOne
    <2>4. p \in Children(d)
      BY <2>2, <2>3 DEF Children
    <2>5. IsPrefix(p, p)
      BY PrefixOrder
    <2> QED
      BY <2>4, <2>5
  <1> QED
    BY <1>1, <1>2

LEMMA ChildOrder ==
  ASSUME NEW d \in Path, NEW c \in Children(d), NEW p \in Path
  PROVE  /\ Inside(c, d)
         /\ IsPrefix(c, p) => Inside(p, d)
         /\ IsPrefix(p, c) => p = c \/ IsPrefix(p, d)
         /\ p \in Children(d) /\ IsPrefix(p, c) => p = c
  <1>1. /\ c \in Path /\ Len(c) = Len(d) + 1 /\ Len(d) \in 0..1
        /\ Len(d) = 1 => c[1] = d[1]
    BY ChildNames
  <1>2. Inside(c, d)
    BY <1>1, PathNames DEF Inside
  <1>3. IsPrefix(c, p) => Inside(p, d)
    BY <1>1, PathNames DEF Inside
  <1>4. IsPrefix(p, c) => p = c \/ IsPrefix(p, d)
    BY <1>1, PathNames
  <1>5. p \in Children(d) /\ IsPrefix(p, c) => p = c
    <2>1. p \in Children(d) => Len(p) = Len(d) + 1
      BY ChildNames
    <2> QED
      BY <1>1, <2>1, PathNames
  <1> QED
    BY <1>2, <1>3, <1>4, <1>5

(* SetToSeq lists every member of a finite set once. *)
LEMMA SetInList ==
  ASSUME NEW S, IsFiniteSet(S)
  PROVE  /\ SetToSeq(S) \in Seq(S)
         /\ \A i, j \in 1..Len(SetToSeq(S)) : SetToSeq(S)[i] = SetToSeq(S)[j] => i = j
         /\ \A x \in S : \E i \in 1..Len(SetToSeq(S)) : SetToSeq(S)[i] = x
  <1> DEFINE n == Cardinality(S)
             list == SetToSeq(S)
  <1>1. n \in Nat /\ ExistsBijection(1..n, S)
    BY FS_CardinalityType
  <1>2. \E f \in [1..n -> S] : IsInjective(f)
    BY <1>1 DEF ExistsBijection, Bijection, Injection
  <1>3. list \in [1..n -> S] /\ IsInjective(list)
    BY <1>2 DEF SetToSeq
  <1>4. list \in Injection(1..n, S)
    BY <1>3 DEF Injection
  <1>5. IsFiniteSet(1..n) /\ Cardinality(1..n) = n
    BY <1>1, FS_Interval
  <1>6. list \in Surjection(1..n, S)
    BY <1>4, <1>5, FS_Injection
  <1> HIDE DEF n, list
  <1>7. list \in Seq(S) /\ Len(list) = n
    BY <1>1, <1>3
  <1>8. \A i, j \in 1..Len(list) : list[i] = list[j] => i = j
    BY <1>3, <1>7 DEF IsInjective
  <1>9. \A x \in S : \E i \in 1..Len(list) : list[i] = x
    BY <1>6, <1>7 DEF Surjection
  <1> QED
    BY <1>7, <1>8, <1>9 DEF list

(* The entries a find meets, and those on its list. *)
Kinds == [path : Path, kind : {"none", "file", "dir", "link"}]
Visits == [path : Path, kind : {"none", "file", "dir", "link"}, enter : BOOLEAN]

(* What a directory that is read tells: every child that exists, once. *)
LEMMA ListingTells ==
  ASSUME SoundTree(fs), NEW d \in Path
  PROVE  LET list == Listing(d) IN
         /\ list \in Seq(Visits)
         /\ \A i \in 1..Len(list) : /\ list[i].path \in Children(d) /\ Exists(list[i].path)
                                    /\ list[i] = Visit(list[i].path)
         /\ \A i, j \in 1..Len(list) : list[i].path = list[j].path => i = j
         /\ \A c \in Children(d) : Exists(c) => \E i \in 1..Len(list) : list[i] = Visit(c)
  <1> DEFINE S == {p \in Children(d) : Exists(p)}
             there == SetToSeq(S)
             list == [i \in 1..Len(there) |-> Visit(there[i])]
  <1>1. Children(d) \subseteq Path /\ IsFiniteSet(Children(d))
    <2>1. IsFiniteSet(Names)
      BY WorkspaceAssumption
    <2> DEFINE N == {m \in Names : Append(d, m) \in Path}
               f == [n \in N |-> Append(d, n)]
    <2>2. IsFiniteSet(N)
      BY <2>1, FS_Subset
    <2>3. f \in Surjection(N, Children(d))
      BY DEF Surjection, Children
    <2>4. Children(d) \subseteq Path
      BY DEF Children
    <2> QED
      BY <2>2, <2>3, <2>4, FS_Surjection
  <1>2. IsFiniteSet(S)
    BY <1>1, FS_Subset
  <1>3. /\ there \in Seq(S)
        /\ \A i, j \in 1..Len(there) : there[i] = there[j] => i = j
        /\ \A x \in S : \E i \in 1..Len(there) : there[i] = x
    BY <1>2, SetInList
  <1>4. Listing(d) = list
    BY DEF Listing
  <1>5. \A p : Visit(p).path = p /\ Visit(p).kind = fs[p].kind /\ Visit(p).enter = FALSE
    BY DEF Visit
  <1>6. \A i \in 1..Len(there) : there[i] \in S
    BY <1>3, ElementOfSeq
  <1> HIDE DEF there
  <1>7. Len(there) \in Nat
    BY <1>3
  <1>8. \A p \in Path : Visit(p) \in Visits
    BY DEF Visit, Visits, SoundTree, Entry
  <1>9. list \in [1..Len(there) -> Visits]
    BY <1>1, <1>6, <1>8
  <1> HIDE DEF list
  <1>10. list \in Seq(Visits) /\ Len(list) = Len(there)
    BY <1>7, <1>9
  <1>11. \A i \in 1..Len(list) : list[i] = Visit(there[i]) /\ list[i].path = there[i]
    BY <1>5, <1>10 DEF list
  <1>12. \A i \in 1..Len(list) : /\ list[i].path \in Children(d) /\ Exists(list[i].path)
                                 /\ list[i] = Visit(list[i].path)
    BY <1>6, <1>10, <1>11
  <1>13. \A i, j \in 1..Len(list) : list[i].path = list[j].path => i = j
    BY <1>3, <1>10, <1>11
  <1>14. \A c \in Children(d) : Exists(c) => \E i \in 1..Len(list) : list[i] = Visit(c)
    BY <1>3, <1>10, <1>11
  <1> QED
    BY <1>4, <1>10, <1>12, <1>13, <1>14

(* What a find has been told of an entry; no link lies on the way to it. *)
Told(t) == [path |-> t.path, kind |-> t.kind]
NoLinkTo(p) == \A q \in Path : IsPrefix(q, p) => fs[q].kind # "link"
Clear == {p \in Path : NoLinkTo(p)}

LEMMA DirectoriesAbove ==
  ASSUME TreeIntact, NEW p \in Path, NEW d \in Path, Inside(p, d), Exists(p)
  PROVE  IsDir(d)
  <1>1. fs[Root].kind = "dir" /\ \A q \in Path : Exists(q) /\ q # Root => IsDir(Front(q))
    BY DEF TreeIntact, IsTree, Exists, IsDir
  <1>2. CASE d = Root
    BY <1>1, <1>2 DEF IsDir
  <1>3. CASE d # Root
    <2>1. Len(d) = 1 /\ Len(p) = 2 /\ d[1] = p[1]
      <3>1. Len(d) # 0
        BY <1>3, PathShape
      <3> QED
        BY <3>1, PathNames DEF Inside
    <2>2. PICK n \in Names, m \in Names : p = <<n, m>>
      BY <2>1, PathShape
    <2>3. PICK k \in Names : d = <<k>>
      BY <2>1, PathShape
    <2>4. Front(p) = d
      BY <2>1, <2>2, <2>3, Fronts
    <2>5. p # Root
      BY <2>1 DEF Root
    <2> QED
      BY <1>1, <2>4, <2>5
  <1> QED
    BY <1>2, <1>3

LEMMA NoLinksAbove ==
  ASSUME TreeIntact, NEW p \in Path, IsDir(p)
  PROVE  NoLinkTo(p)
  <1>1. Exists(p) /\ fs[p].kind # "link"
    BY DEF IsDir, Exists
  <1>2. ASSUME NEW q \in Path, IsPrefix(q, p), fs[q].kind = "link"
        PROVE  FALSE
    <2>1. Inside(p, q)
      BY <1>1, <1>2, PrefixOrder
    <2> QED
      BY <1>1, <1>2, <2>1, DirectoriesAbove DEF IsDir
  <1> QED
    BY <1>2 DEF NoLinkTo

LEMMA NothingToFollow ==
  ASSUME NEW p \in Path, NoLinkTo(p)
  PROVE  EvalSymlinks(p) = p
  <1>1. fs[p].kind # "link"
    BY PrefixOrder DEF NoLinkTo
  <1>2. CASE p = Root
    BY <1>1, <1>2 DEF EvalSymlinks, Follow, Root
  <1>3. CASE \E n \in Names : p = <<n>>
    BY <1>1, <1>3, EvalSymlinksOf DEF Follow
  <1>4. CASE \E n, m \in Names : p = <<n, m>>
    <2>1. PICK n \in Names, m \in Names : p = <<n, m>>
      BY <1>4
    <2>2. <<n>> \in Path /\ IsPrefix(<<n>>, p)
      BY <2>1, NamesInPath, PathPrefixes
    <2>3. Follow(<<n>>) = <<n>>
      BY <2>2 DEF NoLinkTo, Follow
    <2> QED
      BY <2>1, <2>3, EvalSymlinksOf, AppendOne
  <1> QED
    BY <1>2, <1>3, <1>4, PathShape

-----------------------------------------------------------------------------
(* What a walk has found and what it has left to go through; ever and      *)
(* always are what lay there at some time and at every time of the call,   *)
(* clear the paths without a link on the way.                              *)

(* The paths an entry of the list will lead to. *)
Ahead(t, p) == IF t.enter THEN Inside(p, t.path) ELSE IsPrefix(t.path, p)

(* It was there, and whatever lay at or below it all the time is told of.  *)
EntrySound(t, clear, ever, always) ==
    /\ Told(t) \in ever
    /\ t.enter => t.kind = "dir"
    /\ t.kind = "dir" => t.path \in clear
    /\ \A e \in always : /\ e.path = t.path => e.kind = t.kind
                         /\ Inside(e.path, t.path) => t.kind = "dir"
Unrelated(list) ==
    \A i, j \in 1..Len(list) : i # j => ~IsPrefix(list[i].path, list[j].path)
ListSound(todo, clear, ever, always) ==
    /\ todo \in Seq(Visits) /\ Unrelated(todo)
    /\ \A i \in 1..Len(todo) : EntrySound(todo[i], clear, ever, always)
FoundSound(found, ever) ==
    /\ found \in Seq(Kinds) /\ \A k \in 1..Len(found) : found[k] \in ever
    /\ \A j, k \in 1..Len(found) : found[j].path = found[k].path => j = k
Apart(found, todo) ==
    \A i \in 1..Len(todo) : \A k \in 1..Len(found) : ~Ahead(todo[i], found[k].path)
Wanted(always, root, req) == {e \in always : Inside(e.path, root) /\ Matched(req, e)}
NothingMissed(found, todo, wanted) ==
    \A e \in wanted : \/ \E k \in 1..Len(found) : found[k] = e
                      \/ \E i \in 1..Len(todo) : Ahead(todo[i], e.path)

LEMMA AheadIsBelow ==
  ASSUME NEW t \in Visits, NEW p \in Path, Ahead(t, p)
  PROVE  IsPrefix(t.path, p)
  <1>1. t.path \in Path
    BY DEF Visits
  <1> QED
    BY <1>1, PrefixOrder DEF Ahead

LEMMA ListedPaths ==
  ASSUME NEW list \in Seq(Visits), NEW i \in 1..Len(list)
  PROVE  list[i] \in Visits /\ list[i].path \in Path
  <1>1. list[i] \in Visits
    BY ElementOfSeq
  <1> QED
    BY <1>1 DEF Visits

LEMMA FoundPaths ==
  ASSUME NEW found \in Seq(Kinds), NEW k \in 1..Len(found)
  PROVE  found[k] \in Kinds /\ found[k].path \in Path
  <1>1. found[k] \in Kinds
    BY ElementOfSeq
  <1> QED
    BY <1>1 DEF Kinds

LEMMA PrefixesCompare ==
  ASSUME NEW p \in Path, NEW q \in Path, NEW r \in Path, IsPrefix(p, r), IsPrefix(q, r)
  PROVE  IsPrefix(p, q) \/ IsPrefix(q, p)
  BY PathNames

(* The list once its first entry gave way to others. *)
LEMMA ListParts ==
  ASSUME NEW S, NEW todo \in Seq(S), todo # << >>, NEW L \in Seq(S)
  PROVE  LET new == L \o Tail(todo) IN
         /\ new \in Seq(S)
         /\ \A i \in 1..Len(new) :
                \/ i \in 1..Len(L) /\ new[i] = L[i]
                \/ i - Len(L) + 1 \in 2..Len(todo) /\ new[i] = todo[i - Len(L) + 1]
         /\ \A i \in 1..Len(L) : i \in 1..Len(new) /\ new[i] = L[i]
         /\ \A j \in 2..Len(todo) : Len(L) + j - 1 \in 1..Len(new) /\ new[Len(L) + j - 1] = todo[j]
  <1> DEFINE rest == Tail(todo)
             new == L \o rest
  <1>1. /\ rest \in Seq(S) /\ Len(rest) = Len(todo) - 1 /\ Len(todo) \in Nat /\ Len(todo) > 0
        /\ \A i \in 1..Len(rest) : rest[i] = todo[i + 1]
    BY HeadTailProperties, EmptySeq
  <1> HIDE DEF rest
  <1>2. /\ new \in Seq(S) /\ Len(new) = Len(L) + Len(rest) /\ Len(L) \in Nat /\ Len(rest) \in Nat
        /\ \A i \in 1..(Len(L) + Len(rest)) :
               new[i] = IF i <= Len(L) THEN L[i] ELSE rest[i - Len(L)]
    <2>1. rest \in Seq(S)
      BY <1>1
    <2>2. Len(L) \in Nat /\ Len(rest) \in Nat
      BY <2>1, LenProperties
    <2> QED
      BY <2>1, <2>2, ConcatProperties
  <1> HIDE DEF new
  <1>3. ASSUME NEW i \in 1..Len(new)
        PROVE  \/ i \in 1..Len(L) /\ new[i] = L[i]
               \/ i - Len(L) + 1 \in 2..Len(todo) /\ new[i] = todo[i - Len(L) + 1]
    <2>1. CASE i <= Len(L)
      BY <1>2, <2>1
    <2>2. CASE i > Len(L)
      <3>1. i - Len(L) \in 1..Len(rest)
        BY <1>2, <2>2
      <3>2. new[i] = rest[i - Len(L)]
        BY <1>2, <2>2
      <3>3. rest[i - Len(L)] = todo[(i - Len(L)) + 1]
        BY <1>1, <3>1
      <3> QED
        BY <1>1, <1>2, <3>1, <3>2, <3>3
    <2> QED
      BY <1>2, <2>1, <2>2
  <1>4. \A i \in 1..Len(L) : i \in 1..Len(new) /\ new[i] = L[i]
    BY <1>2
  <1>5. ASSUME NEW j \in 2..Len(todo)
        PROVE  Len(L) + j - 1 \in 1..Len(new) /\ new[Len(L) + j - 1] = todo[j]
    <2>1. j - 1 \in 1..Len(rest) /\ (j - 1) + 1 = j
      BY <1>1
    <2>2. rest[j - 1] = todo[j]
      BY <1>1, <2>1
    <2>3. Len(L) + j - 1 \in 1..(Len(L) + Len(rest)) /\ ~(Len(L) + j - 1 <= Len(L))
      BY <1>2, <2>1
    <2>4. new[Len(L) + j - 1] = rest[(Len(L) + j - 1) - Len(L)]
      BY <1>2, <2>3
    <2>5. (Len(L) + j - 1) - Len(L) = j - 1
      BY <1>2, <2>1
    <2> QED
      BY <1>2, <2>2, <2>3, <2>4, <2>5
  <1> QED
    BY <1>2, <1>3, <1>4, <1>5 DEF new, rest

(* An entry of the list gives way to what lies at or below it. *)
LEMMA ListGoesOn ==
  ASSUME NEW clear, NEW ever, NEW always, NEW todo, ListSound(todo, clear, ever, always), todo # << >>,
         NEW L \in Seq(Visits), Unrelated(L),
         \A i \in 1..Len(L) : /\ EntrySound(L[i], clear, ever, always)
                              /\ IsPrefix(todo[1].path, L[i].path)
  PROVE  ListSound(L \o Tail(todo), clear, ever, always)
  <1> DEFINE new == L \o Tail(todo)
  <1>1. todo \in Seq(Visits) /\ Unrelated(todo) /\ Len(todo) \in Nat \ {0}
    BY EmptySeq DEF ListSound
  <1>2. /\ new \in Seq(Visits)
        /\ \A i \in 1..Len(new) :
               \/ i \in 1..Len(L) /\ new[i] = L[i]
               \/ i - Len(L) + 1 \in 2..Len(todo) /\ new[i] = todo[i - Len(L) + 1]
    BY <1>1, ListParts
  <1> HIDE DEF new
  <1>3. Len(new) \in Nat /\ Len(L) \in Nat
    BY <1>2, LenProperties
  <1>4. /\ \A i \in 1..Len(todo) : todo[i].path \in Path
        /\ \A i \in 1..Len(L) : L[i].path \in Path
    BY <1>1, ListedPaths
  <1>5. ASSUME NEW i \in 1..Len(L), NEW j \in 2..Len(todo)
        PROVE  ~IsPrefix(L[i].path, todo[j].path) /\ ~IsPrefix(todo[j].path, L[i].path)
    <2>1. j \in 1..Len(todo) /\ 1 \in 1..Len(todo) /\ j # 1
      BY <1>1
    <2>2. ~IsPrefix(todo[1].path, todo[j].path) /\ ~IsPrefix(todo[j].path, todo[1].path)
      BY <1>1, <2>1 DEF Unrelated
    <2>3. todo[1].path \in Path /\ todo[j].path \in Path /\ L[i].path \in Path
      BY <1>4, <2>1
    <2>4. IsPrefix(todo[1].path, L[i].path)
      OBVIOUS
    <2>5. IsPrefix(L[i].path, todo[j].path) => IsPrefix(todo[1].path, todo[j].path)
      BY <2>3, <2>4, PrefixOrder
    <2>6. IsPrefix(todo[j].path, L[i].path) => \/ IsPrefix(todo[1].path, todo[j].path)
                                               \/ IsPrefix(todo[j].path, todo[1].path)
      BY <2>3, <2>4, PrefixesCompare
    <2> QED
      BY <2>2, <2>5, <2>6
  <1>6. ASSUME NEW i \in 1..Len(new), NEW j \in 1..Len(new), i # j
        PROVE  ~IsPrefix(new[i].path, new[j].path)
    <2>1. CASE i \in 1..Len(L) /\ new[i] = L[i] /\ j \in 1..Len(L) /\ new[j] = L[j]
      BY <1>6, <2>1 DEF Unrelated
    <2>2. CASE /\ i \in 1..Len(L) /\ new[i] = L[i]
               /\ j - Len(L) + 1 \in 2..Len(todo) /\ new[j] = todo[j - Len(L) + 1]
      BY <1>5, <2>2
    <2>3. CASE /\ j \in 1..Len(L) /\ new[j] = L[j]
               /\ i - Len(L) + 1 \in 2..Len(todo) /\ new[i] = todo[i - Len(L) + 1]
      BY <1>5, <2>3
    <2>4. CASE /\ i - Len(L) + 1 \in 2..Len(todo) /\ new[i] = todo[i - Len(L) + 1]
               /\ j - Len(L) + 1 \in 2..Len(todo) /\ new[j] = todo[j - Len(L) + 1]
      <3>1. /\ i - Len(L) + 1 \in 1..Len(todo) /\ j - Len(L) + 1 \in 1..Len(todo)
            /\ i - Len(L) + 1 # j - Len(L) + 1
        BY <1>1, <1>3, <1>6, <2>4
      <3> QED
        BY <1>1, <2>4, <3>1 DEF Unrelated
    <2> QED
      BY <1>2, <2>1, <2>2, <2>3, <2>4
  <1>7. ASSUME NEW i \in 1..Len(new)
        PROVE  EntrySound(new[i], clear, ever, always)
    <2>1. CASE i \in 1..Len(L) /\ new[i] = L[i]
      BY <2>1
    <2>2. CASE i - Len(L) + 1 \in 2..Len(todo) /\ new[i] = todo[i - Len(L) + 1]
      <3>1. i - Len(L) + 1 \in 1..Len(todo)
        BY <1>1, <2>2
      <3> QED
        BY <2>2, <3>1 DEF ListSound
    <2> QED
      BY <1>2, <2>1, <2>2
  <1> QED
    BY <1>2, <1>6, <1>7 DEF ListSound, Unrelated, new

LEMMA StillApart ==
  ASSUME NEW found \in Seq(Kinds), NEW todo \in Seq(Visits), todo # << >>, NEW L \in Seq(Visits),
         Apart(found, todo),
         \A i \in 1..Len(L) : \A p \in Path : Ahead(L[i], p) => Ahead(todo[1], p)
  PROVE  Apart(found, L \o Tail(todo))
  <1> DEFINE new == L \o Tail(todo)
  <1>1. \A i \in 1..Len(new) :
            \/ i \in 1..Len(L) /\ new[i] = L[i]
            \/ i - Len(L) + 1 \in 2..Len(todo) /\ new[i] = todo[i - Len(L) + 1]
    BY ListParts
  <1>2. Len(todo) \in Nat \ {0} /\ \A k \in 1..Len(found) : found[k].path \in Path
    BY EmptySeq, FoundPaths
  <1> HIDE DEF new
  <1>3. ASSUME NEW i \in 1..Len(new), NEW k \in 1..Len(found)
        PROVE  ~Ahead(new[i], found[k].path)
    <2>1. CASE i \in 1..Len(L) /\ new[i] = L[i]
      <3>1. 1 \in 1..Len(todo)
        BY <1>2
      <3>2. ~Ahead(todo[1], found[k].path)
        BY <3>1 DEF Apart
      <3> QED
        BY <1>2, <2>1, <3>2
    <2>2. CASE i - Len(L) + 1 \in 2..Len(todo) /\ new[i] = todo[i - Len(L) + 1]
      <3>1. i - Len(L) + 1 \in 1..Len(todo)
        BY <1>2, <2>2
      <3> QED
        BY <2>2, <3>1 DEF Apart
    <2> QED
      BY <1>1, <2>1, <2>2
  <1> QED
    BY <1>3 DEF Apart, new

LEMMA StillNothingMissed ==
  ASSUME NEW found, NEW found2, NEW wanted, NEW todo \in Seq(Visits), todo # << >>,
         NEW L \in Seq(Visits), NothingMissed(found, todo, wanted),
         \A k \in 1..Len(found) : k \in 1..Len(found2) /\ found2[k] = found[k],
         \A e \in wanted : Ahead(todo[1], e.path) =>
             \/ \E k \in 1..Len(found2) : found2[k] = e
             \/ \E i \in 1..Len(L) : Ahead(L[i], e.path)
  PROVE  NothingMissed(found2, L \o Tail(todo), wanted)
  <1> DEFINE new == L \o Tail(todo)
  <1>1. /\ \A i \in 1..Len(L) : i \in 1..Len(new) /\ new[i] = L[i]
        /\ \A j \in 2..Len(todo) : Len(L) + j - 1 \in 1..Len(new) /\ new[Len(L) + j - 1] = todo[j]
    BY ListParts
  <1>2. Len(todo) \in Nat \ {0}
    BY EmptySeq
  <1> HIDE DEF new
  <1>3. ASSUME NEW e \in wanted
        PROVE  \/ \E k \in 1..Len(found2) : found2[k] = e
               \/ \E i \in 1..Len(new) : Ahead(new[i], e.path)
    <2>1. CASE \E k \in 1..Len(found) : found[k] = e
      BY <2>1
    <2>2. CASE \E i \in 1..Len(todo) : Ahead(todo[i], e.path)
      <3>1. PICK i \in 1..Len(todo) : Ahead(todo[i], e.path)
        BY <2>2
      <3>2. CASE i = 1
        BY <1>1, <3>1, <3>2
      <3>3. CASE i # 1
        <4>1. i \in 2..Len(todo)
          BY <1>2, <3>3
        <4> QED
          BY <1>1, <3>1, <4>1
      <3> QED
        BY <3>2, <3>3
    <2> QED
      BY <2>1, <2>2 DEF NothingMissed
  <1> QED
    BY <1>3 DEF NothingMissed, new

(* ReadDir puts the children of a directory in its place. *)
LEMMA ReadGoesOn ==
  ASSUME TreeIntact, SoundTree(fs), NEW clear, clear = Clear, NEW ever, NEW always, Entries \subseteq ever,
         always \subseteq Entries, NEW todo, ListSound(todo, clear, ever, always), todo # << >>,
         todo[1].enter, NEW found, FoundSound(found, ever), Apart(found, todo),
         NEW d, d = EvalSymlinks(todo[1].path), IsDir(d)
  PROVE  /\ ListSound(Listing(d) \o Tail(todo), clear, ever, always)
         /\ Apart(found, Listing(d) \o Tail(todo))
         /\ \A wanted \in SUBSET always :
                NothingMissed(found, todo, wanted)
                    => NothingMissed(found, Listing(d) \o Tail(todo), wanted)
  <1> DEFINE L == Listing(d)
  <1>1. todo \in Seq(Visits) /\ 1 \in 1..Len(todo) /\ found \in Seq(Kinds)
    BY EmptySeq DEF ListSound, FoundSound
  <1>2. todo[1].path \in Path /\ d = todo[1].path
    <2>1. EntrySound(todo[1], clear, ever, always)
      BY <1>1 DEF ListSound
    <2>2. NoLinkTo(todo[1].path)
      BY <2>1 DEF EntrySound, Clear
    <2>3. todo[1].path \in Path
      BY <1>1, ListedPaths
    <2> QED
      BY <2>2, <2>3, NothingToFollow
  <1>3. /\ L \in Seq(Visits)
        /\ \A i \in 1..Len(L) : /\ L[i].path \in Children(d) /\ Exists(L[i].path)
                                /\ L[i] = Visit(L[i].path)
        /\ \A i, j \in 1..Len(L) : L[i].path = L[j].path => i = j
        /\ \A c \in Children(d) : Exists(c) => \E i \in 1..Len(L) : L[i] = Visit(c)
    BY <1>2, ListingTells
  <1> HIDE DEF L
  <1>4. \A p : Visit(p).path = p /\ Visit(p).kind = fs[p].kind /\ Visit(p).enter = FALSE
    BY DEF Visit
  <1>5. \A c \in Children(d) : c \in Path
    BY <1>2, ChildNames
  <1>6. \A e \in always : e.path \in Path /\ Exists(e.path) /\ e.kind = fs[e.path].kind
    BY DEF Entries
  <1>7. Unrelated(L)
    <2> SUFFICES ASSUME NEW i \in 1..Len(L), NEW j \in 1..Len(L), i # j,
                        IsPrefix(L[i].path, L[j].path)
                 PROVE  FALSE
      BY DEF Unrelated
    <2>1. L[i].path = L[j].path
      BY <1>2, <1>3, <1>5, ChildOrder
    <2> QED
      BY <1>3, <2>1
  <1>8. ASSUME NEW i \in 1..Len(L)
        PROVE  /\ EntrySound(L[i], clear, ever, always)
               /\ IsPrefix(todo[1].path, L[i].path)
               /\ \A p \in Path : Ahead(L[i], p) => Ahead(todo[1], p)
    <2> DEFINE c == L[i].path
    <2>1. c \in Children(d) /\ c \in Path /\ Exists(c) /\ L[i].kind = fs[c].kind /\ L[i].enter = FALSE
      BY <1>3, <1>4, <1>5
    <2>2. Told(L[i]) \in ever
      BY <2>1 DEF Told, Entries
    <2>3. L[i].kind = "dir" => c \in clear
      BY <2>1, NoLinksAbove DEF IsDir, Clear
    <2>4. \A e \in always : /\ e.path = c => e.kind = L[i].kind
                            /\ Inside(e.path, c) => L[i].kind = "dir"
      BY <1>6, <2>1, DirectoriesAbove DEF IsDir
    <2>5. EntrySound(L[i], clear, ever, always)
      BY <2>1, <2>2, <2>3, <2>4 DEF EntrySound
    <2>6. Inside(c, d) /\ \A p \in Path : IsPrefix(c, p) => Inside(p, d)
      BY <1>2, <2>1, ChildOrder
    <2>7. IsPrefix(todo[1].path, c)
      BY <1>2, <2>1, <2>6, PrefixOrder
    <2>8. \A p \in Path : Ahead(L[i], p) => Ahead(todo[1], p)
      BY <1>2, <2>1, <2>6 DEF Ahead
    <2> QED
      BY <2>5, <2>7, <2>8
  <1>9. ListSound(L \o Tail(todo), clear, ever, always)
    BY <1>3, <1>7, <1>8, ListGoesOn
  <1>10. Apart(found, L \o Tail(todo))
    BY <1>1, <1>3, <1>8, StillApart
  <1>11. ASSUME NEW wanted \in SUBSET always, NothingMissed(found, todo, wanted)
         PROVE  NothingMissed(found, L \o Tail(todo), wanted)
    <2>1. ASSUME NEW e \in wanted, Ahead(todo[1], e.path)
          PROVE  \E i \in 1..Len(L) : Ahead(L[i], e.path)
      <3>1. e.path \in Path /\ Exists(e.path) /\ Inside(e.path, d)
        BY <1>2, <1>6, <2>1 DEF Ahead
      <3>2. PICK c \in Children(d) : IsPrefix(c, e.path)
        BY <1>2, <3>1, ChildOnTheWay
      <3>3. c \in Path
        BY <1>5
      <3>4. Exists(c)
        <4>1. CASE c = e.path
          BY <3>1, <4>1
        <4>2. CASE Inside(e.path, c)
          BY <3>1, <3>3, <4>2, DirectoriesAbove DEF IsDir, Exists
        <4> QED
          BY <3>1, <3>2, <3>3, <4>1, <4>2, PrefixOrder
      <3>5. PICK i \in 1..Len(L) : L[i] = Visit(c)
        BY <1>3, <3>4
      <3>6. Ahead(L[i], e.path)
        BY <1>4, <3>2, <3>5 DEF Ahead
      <3> QED
        BY <3>6
    <2>2. \A k \in 1..Len(found) : k \in 1..Len(found) /\ found[k] = found[k]
      OBVIOUS
    <2> QED
      BY <1>1, <1>3, <1>11, <2>1, <2>2, StillNothingMissed
  <1> QED
    BY <1>9, <1>10, <1>11 DEF L

(* The callback goes past an entry, or finds it. *)
Passed(h) == IF h.kind = "dir" THEN <<[h EXCEPT !.enter = TRUE]>> ELSE << >>

LEMMA PassedEntry ==
  ASSUME NEW clear, NEW ever, NEW always, NEW h \in Visits, EntrySound(h, clear, ever, always)
  PROVE  /\ Passed(h) \in Seq(Visits) /\ Unrelated(Passed(h))
         /\ h.kind = "dir" => 1 \in 1..Len(Passed(h)) /\ \A p : Ahead(Passed(h)[1], p) <=> Inside(p, h.path)
         /\ \A i \in 1..Len(Passed(h)) : /\ EntrySound(Passed(h)[i], clear, ever, always)
                                         /\ IsPrefix(h.path, Passed(h)[i].path)
                                         /\ \A p : Ahead(Passed(h)[i], p) <=> Inside(p, h.path)
  <1>1. CASE h.kind # "dir"
    <2>1. Passed(h) = << >> /\ Len(<< >>) = 0 /\ << >> \in Seq(Visits)
      BY <1>1 DEF Passed
    <2> QED
      BY <1>1, <2>1 DEF Unrelated
  <1>2. CASE h.kind = "dir"
    <2> DEFINE t == [h EXCEPT !.enter = TRUE]
    <2>1. t \in Visits /\ t.path = h.path /\ t.kind = "dir" /\ t.enter = TRUE
      BY <1>2 DEF Visits
    <2> HIDE DEF t
    <2>2. Passed(h) = <<t>> /\ <<t>> \in Seq(Visits) /\ Len(<<t>>) = 1 /\ <<t>>[1] = t
      BY <1>2, <2>1 DEF Passed, t
    <2>3. \A i \in 1..Len(Passed(h)) : i = 1 /\ Passed(h)[i] = t
      BY <2>2
    <2>4. h.path \in Path
      BY DEF Visits
    <2>5. EntrySound(t, clear, ever, always)
      BY <1>2, <2>1 DEF EntrySound, Told
    <2>6. IsPrefix(h.path, t.path)
      BY <2>1, <2>4, PrefixOrder
    <2>7. \A p : Ahead(t, p) <=> Inside(p, h.path)
      BY <2>1 DEF Ahead
    <2>8. Unrelated(Passed(h))
      BY <2>3 DEF Unrelated
    <2> QED
      BY <2>2, <2>3, <2>5, <2>6, <2>7, <2>8
  <1> QED
    BY <1>1, <1>2

(* An entry of the list was found, and lies ahead of the list no more. *)
Grown(found, more, t, rest) ==
    /\ Len(more) = Len(found) + 1 /\ Len(found) \in Nat /\ more[Len(more)] = Told(t)
    /\ \A k \in 1..Len(found) : k \in 1..Len(more) /\ more[k] = found[k]
    /\ \A L \in Seq(Visits) :
           Apart(found, L \o rest) /\ (\A i \in 1..Len(L) : ~Ahead(L[i], t.path))
               => Apart(more, L \o rest)

LEMMA FoundGrows ==
  ASSUME NEW clear, NEW ever, ever \subseteq Kinds, NEW always, NEW todo, ListSound(todo, clear, ever, always),
         todo # << >>, ~todo[1].enter, NEW found, FoundSound(found, ever), Apart(found, todo),
         NEW more, more = Append(found, Told(todo[1]))
  PROVE  FoundSound(more, ever) /\ Grown(found, more, todo[1], Tail(todo))
  <1> DEFINE h == todo[1]
  <1>1. /\ todo \in Seq(Visits) /\ Unrelated(todo) /\ found \in Seq(Kinds)
        /\ Len(todo) \in Nat \ {0} /\ Len(found) \in Nat
    BY EmptySeq, LenProperties DEF ListSound, FoundSound
  <1>2. h \in Visits /\ h.path \in Path /\ Told(h) \in ever
    BY <1>1, ListedPaths DEF ListSound, EntrySound
  <1>3. Told(h).path = h.path /\ Told(h) \in Kinds
    BY <1>2 DEF Told
  <1> HIDE DEF h
  <1>4. /\ more \in Seq(Kinds) /\ Len(more) = Len(found) + 1 /\ more[Len(found) + 1] = Told(h)
        /\ \A k \in 1..Len(found) : more[k] = found[k]
    BY <1>1, <1>3, AppendProperties DEF h
  <1>5. \A k \in 1..Len(more) : \/ k \in 1..Len(found) /\ more[k] = found[k]
                                \/ k = Len(found) + 1 /\ more[k] = Told(h)
    BY <1>1, <1>4
  <1>6. \A k \in 1..Len(more) : more[k] \in ever
    BY <1>2, <1>5 DEF FoundSound
  <1>7. \A k \in 1..Len(found) : found[k].path # h.path
    <2>1. ASSUME NEW k \in 1..Len(found), found[k].path = h.path
          PROVE  FALSE
      <3>1. ~Ahead(h, h.path)
        BY <1>1, <2>1 DEF Apart, h
      <3>2. IsPrefix(h.path, h.path)
        BY <1>2, PrefixOrder
      <3> QED
        BY <3>1, <3>2 DEF Ahead, h
    <2> QED
      BY <2>1
  <1>8. \A j, k \in 1..Len(more) : more[j].path = more[k].path => j = k
    <2> SUFFICES ASSUME NEW j \in 1..Len(more), NEW k \in 1..Len(more), more[j].path = more[k].path
                 PROVE  j = k
      OBVIOUS
    <2>1. CASE j \in 1..Len(found) /\ k \in 1..Len(found)
      BY <1>4, <2>1 DEF FoundSound
    <2>2. CASE j \notin 1..Len(found) \/ k \notin 1..Len(found)
      BY <1>3, <1>5, <1>7, <2>2
    <2> QED
      BY <2>1, <2>2
  <1>9. ASSUME NEW L \in Seq(Visits), Apart(found, L \o Tail(todo)),
               \A i \in 1..Len(L) : ~Ahead(L[i], h.path)
        PROVE  Apart(more, L \o Tail(todo))
    <2> DEFINE new == L \o Tail(todo)
    <2>1. \A i \in 1..Len(new) :
              \/ i \in 1..Len(L) /\ new[i] = L[i]
              \/ i - Len(L) + 1 \in 2..Len(todo) /\ new[i] = todo[i - Len(L) + 1]
      BY <1>1, ListParts
    <2> HIDE DEF new
    <2>2. ASSUME NEW i \in 1..Len(new)
          PROVE  ~Ahead(new[i], h.path)
      <3>1. CASE i \in 1..Len(L) /\ new[i] = L[i]
        BY <1>9, <3>1
      <3>2. CASE i - Len(L) + 1 \in 2..Len(todo) /\ new[i] = todo[i - Len(L) + 1]
        <4>1. PICK j \in 2..Len(todo) : new[i] = todo[j]
          BY <3>2
        <4>2. j \in 1..Len(todo) /\ 1 \in 1..Len(todo) /\ j # 1
          BY <1>1
        <4>3. ~IsPrefix(todo[j].path, h.path)
          BY <1>1, <4>2 DEF Unrelated, h
        <4>4. todo[j] \in Visits
          BY <1>1, <4>2, ListedPaths
        <4> QED
          BY <1>2, <4>1, <4>3, <4>4, AheadIsBelow
      <3> QED
        BY <2>1, <3>1, <3>2
    <2>3. \A i \in 1..Len(new) : \A k \in 1..Len(more) : ~Ahead(new[i], more[k].path)
      BY <1>3, <1>5, <1>9, <2>2 DEF Apart, new
    <2> QED
      BY <2>3 DEF Apart, new
  <1> QED
    BY <1>1, <1>4, <1>6, <1>8, <1>9 DEF FoundSound, Grown, h

FoundAfter(found, req, t) == IF Matched(req, t) THEN Append(found, Told(t)) ELSE found

LEMMA VisitGoesOn ==
  ASSUME NEW clear, NEW ever, ever \subseteq Kinds, NEW always, always \subseteq Kinds,
         NEW todo, ListSound(todo, clear, ever, always),
         todo # << >>, ~todo[1].enter, NEW found, FoundSound(found, ever), Apart(found, todo),
         NEW req, NEW root, NothingMissed(found, todo, Wanted(always, root, req))
  PROVE  LET more == FoundAfter(found, req, todo[1])
             rest == Passed(todo[1]) \o Tail(todo) IN
         /\ ListSound(rest, clear, ever, always) /\ FoundSound(more, ever) /\ Apart(more, rest)
         /\ Len(found) \in Nat
         /\ more = found \/ Len(more) = Len(found) + 1
         /\ NothingMissed(more, rest, Wanted(always, root, req))
  <1> DEFINE h == todo[1]
             more == FoundAfter(found, req, h)
             L == Passed(h)
             rest == L \o Tail(todo)
  <1>1. /\ todo \in Seq(Visits) /\ found \in Seq(Kinds)
        /\ 1 \in 1..Len(todo) /\ Len(found) \in Nat
    BY EmptySeq, LenProperties DEF ListSound, FoundSound
  <1>2. h \in Visits /\ h.path \in Path /\ EntrySound(h, clear, ever, always)
    BY <1>1, ListedPaths DEF ListSound
  <1>3. /\ L \in Seq(Visits) /\ Unrelated(L)
        /\ h.kind = "dir" => 1 \in 1..Len(L) /\ \A p : Ahead(L[1], p) <=> Inside(p, h.path)
        /\ \A i \in 1..Len(L) : /\ EntrySound(L[i], clear, ever, always) /\ IsPrefix(h.path, L[i].path)
                                /\ \A p : Ahead(L[i], p) <=> Inside(p, h.path)
    BY <1>2, PassedEntry
  <1> HIDE DEF L, more
  <1>4. ListSound(rest, clear, ever, always)
    BY <1>3, ListGoesOn
  <1>5. \A p \in Path : Inside(p, h.path) => Ahead(todo[1], p)
    BY <1>2, PrefixOrder DEF Ahead
  <1>6. Apart(found, rest)
    BY <1>1, <1>3, <1>5, StillApart
  <1>7. ~Inside(h.path, h.path)
    BY <1>2, PrefixOrder
  <1>8. \A i \in 1..Len(L) : ~Ahead(L[i], todo[1].path)
    BY <1>3, <1>7
  <1>9. /\ FoundSound(more, ever) /\ Apart(more, rest)
        /\ more = found \/ Len(more) = Len(found) + 1
        /\ \A k \in 1..Len(found) : k \in 1..Len(more) /\ more[k] = found[k]
        /\ Matched(req, h) => Len(more) \in 1..Len(more) /\ more[Len(more)] = Told(h)
    <2>1. CASE ~Matched(req, h)
      <3>1. more = found
        BY <2>1 DEF more, FoundAfter
      <3> QED
        BY <1>6, <2>1, <3>1
    <2>2. CASE Matched(req, h)
      <3>1. more = Append(found, Told(todo[1]))
        BY <2>2 DEF more, FoundAfter
      <3>2. /\ FoundSound(more, ever) /\ Len(more) = Len(found) + 1
            /\ more[Len(more)] = Told(h)
            /\ \A k \in 1..Len(found) : k \in 1..Len(more) /\ more[k] = found[k]
            /\ \A l \in Seq(Visits) : /\ Apart(found, l \o Tail(todo))
                                      /\ \A i \in 1..Len(l) : ~Ahead(l[i], todo[1].path)
                                      => Apart(more, l \o Tail(todo))
        <4>1. FoundSound(more, ever) /\ Grown(found, more, todo[1], Tail(todo))
          BY <3>1, FoundGrows
        <4> QED
          BY <4>1 DEF Grown
      <3>3. Apart(more, rest)
        BY <1>3, <1>6, <1>8, <3>2
      <3>4. Len(more) \in 1..Len(more)
        BY <1>1, <3>2
      <3> QED
        BY <3>2, <3>3, <3>4
    <2> QED
      BY <2>1, <2>2
  <1>10. NothingMissed(more, rest, Wanted(always, root, req))
    <2> DEFINE wanted == Wanted(always, root, req)
    <2>1. ASSUME NEW e \in wanted, Ahead(todo[1], e.path)
          PROVE  \/ \E k \in 1..Len(more) : more[k] = e
                 \/ \E i \in 1..Len(L) : Ahead(L[i], e.path)
      <3>1. e \in always /\ e \in Kinds /\ Matched(req, e)
        BY DEF Wanted
      <3>2. e.path \in Path /\ IsPrefix(h.path, e.path)
        BY <3>1, <2>1 DEF Kinds, Ahead
      <3>3. CASE e.path = h.path
        <4>1. e.kind = h.kind
          BY <1>2, <3>1, <3>3 DEF EntrySound
        <4>2. e = Told(h)
          BY <3>1, <3>3, <4>1 DEF Kinds, Told
        <4>3. Matched(req, h)
          BY <3>1, <3>3, <4>1 DEF Matched
        <4> QED
          BY <1>9, <4>2, <4>3
      <3>4. CASE Inside(e.path, h.path)
        <4>1. h.kind = "dir"
          BY <1>2, <3>1, <3>4 DEF EntrySound
        <4> QED
          BY <1>3, <3>4, <4>1
      <3> QED
        BY <1>2, <3>2, <3>3, <3>4, PrefixOrder
    <2> HIDE DEF wanted
    <2>2. NothingMissed(found, todo, wanted)
      BY DEF wanted
    <2>3. NothingMissed(more, L \o Tail(todo), wanted)
      BY <1>1, <1>3, <1>9, <2>1, <2>2, StillNothingMissed
    <2> QED
      BY <2>3 DEF wanted
  <1> QED
    BY <1>1, <1>4, <1>9, <1>10 DEF L, more

-----------------------------------------------------------------------------
(* No link is ever moved: what mv has resolved is none. *)
Moving(w) == call[w].pc \in {"path", "check", "act"} /\ Req(w).tool = "mv"
LinksInv == Links /\ \A w \in Workers : Moving(w) => fs[call[w].source].kind # "link"

LEMMA NoStepMovesLinks ==
  ASSUME WorkspaceInv, LinksInv, NEW w \in Workers, Step(w)
  PROVE  NoNewLink
  <1>1. SoundTree(fs) /\ fs \in [Path -> Entry]
    BY DEF WorkspaceInv, SoundTree
  <1>2. CASE fs' = fs
    BY <1>2 DEF NoNewLink
  <1>3. CASE fs' # fs /\ Rename(w)
    <2>1. fs' = Renamed(call[w].source, call[w].path) /\ Moving(w) /\ ~At(w, "idle")
      BY <1>3 DEF Rename, Fail, Moving, At
    <2>2. call[w].source \in Path /\ call[w].source # Root /\ call[w].path \in Path
      BY <2>1, CallAt DEF Moving
    <2>3. fs[call[w].source].kind # "link" /\ Links
      BY <2>1 DEF LinksInv
    <2> QED
      BY <1>1, <2>1, <2>2, <2>3, RenameMovesNoLink
  <1>4. CASE fs' # fs /\ (Mkdir(w) \/ RemoveEntry(w) \/ Open(w))
    <2>1. \E p, e : fs' = [fs EXCEPT ![p] = e] /\ e.kind # "link"
      <3>1. Directory.kind # "link" /\ Nothing.kind # "link" /\ \A n : File(n).kind # "link"
        BY DEF Directory, Nothing, File
      <3>2. CASE Mkdir(w)
        BY <1>4, <3>1, <3>2 DEF Mkdir, Fail
      <3>3. CASE RemoveEntry(w)
        BY <1>4, <3>1, <3>3 DEF RemoveEntry, Removed, Fail
      <3>4. CASE Open(w)
        <4>1. fs' = [fs EXCEPT ![Follow(call[w].path)] = File(Len(data) + 1)]
          BY <1>4, <3>4 DEF Open, Opened, Fail
        <4> QED
          BY <3>1, <4>1
      <3> QED
        BY <1>4, <3>2, <3>3, <3>4
    <2> QED
      BY <1>1, <2>1 DEF NoNewLink
  <1> QED
    BY <1>2, <1>3, <1>4 DEF Step, Begin, ResolveSource, ResolveTarget, Check, OpenSource, Chtimes,
       WriteString, Copy, StartWalk, ReadDir, VisitEntry, WalkTimesOut, WalkEnds, SystemCallFails, Fail

(* filepath.EvalSymlinks leads to no link. *)
LEMMA MovedIsNoLink ==
  ASSUME WorkspaceInv, LinksInv, Ids, NEW w \in Workers, Step(w), Moving(w)'
  PROVE  fs[call'[w].source].kind # "link"
  <1>1. DOMAIN call = Workers
    BY DEF WorkspaceInv, GoodCalls
  <1>2. CASE Begin(w)
    <2>1. PICK req \in Requests[transport] :
              /\ asked' = Append(asked, req)
              /\ call' = [call EXCEPT ![w] =
                    [Idle EXCEPT !.pc = IF req.tool \in {"cp", "mv"} THEN "source" ELSE "path",
                                 !.id = Len(asked) + 1]]
      BY <1>2 DEF Begin
    <2> DEFINE c == [Idle EXCEPT !.pc = IF req.tool \in {"cp", "mv"} THEN "source" ELSE "path",
                                 !.id = Len(asked) + 1]
    <2>2. c.pc = (IF req.tool \in {"cp", "mv"} THEN "source" ELSE "path") /\ c.id = Len(asked) + 1
      BY DEF Idle
    <2>3. call'[w] = c
      BY <1>1, <2>1
    <2> HIDE DEF c
    <2>4. asked'[Len(asked) + 1] = req
      <3>1. asked \in Seq(Request) /\ req \in Request
        BY WorkspaceAssumption DEF WorkspaceInv, RecordsKept
      <3> QED
        BY <2>1, <3>1
    <2>5. Req(w)' = req
      BY <2>2, <2>3, <2>4 DEF Req
    <2> QED
      BY <2>2, <2>3, <2>5 DEF Moving
  <1>3. CASE ~Begin(w)
    <2>1. ~At(w, "idle") /\ asked' = asked /\ (Advances(w) \/ EndsCall(w))
      BY <1>3, StepShape
    <2>2. DOMAIN call[w] = CallFields
      BY <2>1, CallAt
    <2>3. CASE \E result : Finish(w, result)
      BY <1>1, <2>3 DEF Finish, Idle, Moving
    <2>4. CASE ResolveSource(w) /\ ~Fail(w)
      <3>1. call' = [call EXCEPT ![w] = [call[w] EXCEPT !.source = EvalSymlinks(Req(w).source),
                                                        !.pc = "path"]]
        BY <2>4 DEF ResolveSource
      <3>2. call'[w].source = EvalSymlinks(Req(w).source)
        BY <1>1, <2>2, <3>1 DEF CallFields
      <3>3. Req(w).source \in Path
        BY <2>1, RequestAsked
      <3> QED
        BY <3>2, <3>3, ResolvedIsNoLink DEF LinksInv, WorkspaceInv
    <2>5. CASE (ResolveTarget(w) \/ Check(w)) /\ ~Fail(w)
      <3>1. /\ call'[w].source = call[w].source /\ call'[w].id = call[w].id
            /\ call[w].pc \in {"path", "check"}
        BY <1>1, <2>2, <2>5 DEF ResolveTarget, Check, Goto, CallFields, At
      <3>2. Req(w)' = Req(w)
        BY <2>1, <3>1 DEF Req
      <3>3. Moving(w)
        BY <3>1, <3>2 DEF Moving
      <3> QED
        BY <3>1, <3>3 DEF LinksInv
    <2>6. CASE ~(\E result : Finish(w, result)) /\ ~Fail(w) /\ ~ResolveSource(w)
               /\ ~ResolveTarget(w) /\ ~Check(w)
      <3>1. call'[w].pc \in {"open", "finish", "walk"}
        <4>1. CASE OpenSource(w) \/ Open(w)
          <5>1. \/ \E n : call' = [call EXCEPT ![w] = [call[w] EXCEPT !.input = n, !.pc = "open"]]
                \/ \E n : call' = [call EXCEPT ![w] = [call[w] EXCEPT !.output = n, !.pc = "finish"]]
            BY <2>6, <4>1 DEF OpenSource, Open
          <5> QED
            BY <1>1, <2>2, <5>1 DEF CallFields
        <4>2. CASE StartWalk(w) \/ ReadDir(w)
          <5>1. PICK todo : call' = [call EXCEPT ![w] = [call[w] EXCEPT !.pc = "walk", !.todo = todo]]
            BY <2>6, <4>2 DEF StartWalk, ReadDir, Continue
          <5> QED
            BY <1>1, <2>2, <5>1 DEF CallFields
        <4>3. CASE VisitEntry(w)
          <5>1. PICK found, full, todo :
                    call' = [call EXCEPT ![w].found = found, ![w].truncated = full, ![w].todo = todo]
            BY <4>3 DEF VisitEntry
          <5>2. call[w].pc = "walk"
            BY <4>3 DEF VisitEntry, At
          <5> QED
            BY <1>1, <2>2, <5>1, <5>2 DEF CallFields
        <4> QED
          BY <1>3, <2>6, <4>1, <4>2, <4>3 DEF Step, Mkdir, Rename, RemoveEntry, Chtimes,
             WriteString, Copy, WalkTimesOut, WalkEnds, SystemCallFails
      <3> QED
        BY <3>1 DEF Moving
    <2> QED
      BY <2>3, <2>4, <2>5, <2>6 DEF Fail
  <1> QED
    BY <1>2, <1>3

(* A step of one worker leaves the calls of the others alone. *)
LEMMA OtherCalls ==
  ASSUME WorkspaceInv, Ids, NEW w \in Workers, Step(w), NEW v \in Workers, v # w
  PROVE  call'[v] = call[v] /\ (~At(v, "idle") => Req(v)' = Req(v))
  <1>1. DOMAIN call = Workers
    BY DEF WorkspaceInv, GoodCalls
  <1>2. CASE Begin(w)
    <2>1. PICK req \in Requests[transport] : asked' = Append(asked, req)
      BY <1>2 DEF Begin
    <2>2. call'[v] = call[v]
      BY <1>1, <1>2 DEF Begin
    <2>3. asked \in Seq(Request) /\ req \in Request
      BY WorkspaceAssumption DEF WorkspaceInv, RecordsKept
    <2>4. ~At(v, "idle") => call[v].id \in 1..Len(asked)
      BY DEF WorkspaceInv, GoodCalls, GoodCall, At
    <2>5. \A i \in 1..Len(asked) : asked'[i] = asked[i]
      BY <2>1, <2>3
    <2> QED
      BY <2>2, <2>4, <2>5 DEF Req
  <1>3. CASE ~Begin(w)
    <2>1. asked' = asked /\ \E c : call' = [call EXCEPT ![w] = c]
      BY <1>3, StepShape DEF Advances, EndsCall, Finish
    <2>2. call'[v] = call[v]
      BY <1>1, <2>1
    <2> QED
      BY <2>1, <2>2 DEF Req
  <1> QED
    BY <1>2, <1>3

LEMMA LinksInit == Init => LinksInv
  <1> SUFFICES ASSUME Init
               PROVE  LinksInv
    OBVIOUS
  <1>1. Links
    BY WorkspaceAssumption DEF Init, Links
  <1>2. \A w \in Workers : ~Moving(w)
    BY DEF Init, Moving, Idle
  <1> QED
    BY <1>1, <1>2 DEF LinksInv

LEMMA LinksNext == LinksInv /\ Ids /\ WorkspaceInv /\ [Next]_vars => LinksInv' /\ NoNewLink
  <1> SUFFICES ASSUME LinksInv, Ids, WorkspaceInv, [Next]_vars
               PROVE  LinksInv' /\ NoNewLink
    OBVIOUS
  <1>1. CASE UNCHANGED vars
    <2>1. UNCHANGED <<fs, call, asked>>
      BY <1>1 DEF vars
    <2> QED
      BY <2>1 DEF LinksInv, Links, Moving, Req, NoNewLink
  <1>2. ASSUME NEW w \in Workers, Step(w)
        PROVE  LinksInv' /\ NoNewLink
    <2>1. NoNewLink
      BY <1>2, NoStepMovesLinks
    <2>2. Links'
      BY <2>1, LinksStay DEF LinksInv, WorkspaceInv
    <2>3. ASSUME NEW v \in Workers, Moving(v)'
          PROVE  fs'[call'[v].source].kind # "link"
      <3>1. fs[call'[v].source].kind # "link"
        <4>1. CASE v = w
          BY <1>2, <2>3, <4>1, MovedIsNoLink
        <4>2. CASE v # w
          <5>1. call'[v] = call[v] /\ (~At(v, "idle") => Req(v)' = Req(v))
            BY <1>2, <4>2, OtherCalls
          <5>2. Moving(v)
            BY <2>3, <5>1 DEF Moving, At
          <5> QED
            BY <5>1, <5>2 DEF LinksInv
        <4> QED
          BY <4>1, <4>2
      <3>2. call'[v].source \in Path
        <4>1. WorkspaceInv'
          BY StepKeeps
        <4> QED
          BY <4>1 DEF WorkspaceInv, GoodCalls, GoodCall
      <3> QED
        BY <2>1, <3>1, <3>2 DEF NoNewLink
    <2> QED
      BY <2>1, <2>2, <2>3 DEF LinksInv
  <1> QED
    BY <1>1, <1>2 DEF Next, Served

-----------------------------------------------------------------------------
(* The inductive invariant of a walk, of what it is watched with, and of   *)
(* the calls that do not walk.                                             *)
WalkSound(c, clear, ever, always, req) ==
    /\ ListSound(c.todo, clear, ever, always)
    /\ FoundSound(c.found, ever) /\ Apart(c.found, c.todo)
    /\ ~c.truncated => NothingMissed(c.found, c.todo, Wanted(always, c.path, req))
    /\ Len(c.found) <= Limit(req) /\ (~c.truncated => Len(c.found) < Limit(req))
    /\ c.truncated => c.todo = << >>
Walking(w) == IF At(w, "walk") THEN WalkSound(call[w], Clear, seen[w].ever, seen[w].always, Req(w))
              ELSE call[w].found = << >> /\ call[w].truncated = FALSE
Watching(w) == Finding(w) => /\ Entries \subseteq seen[w].ever /\ seen[w].ever \subseteq Kinds
                             /\ seen[w].always \subseteq Entries
WalkInv == DOMAIN seen = Workers /\ \A w \in Workers : Watching(w) /\ Walking(w)

LEMMA LimitIsPositive ==
  ASSUME NEW req \in Request
  PROVE  Limit(req) \in Nat \ {0}
  BY WorkspaceAssumption DEF Limit, Request

LEMMA EntriesAreKinds ==
  ASSUME SoundTree(fs)
  PROVE  Entries \subseteq Kinds
  BY DEF Entries, Kinds, SoundTree, Entry

LEMMA ClearStays ==
  ASSUME NoNewLink
  PROVE  Clear \subseteq Clear'
  BY DEF Clear, NoLinkTo, NoNewLink

LEMMA WalkCarries ==
  ASSUME NEW c, NEW req, NEW clear, NEW ever, NEW always, WalkSound(c, clear, ever, always, req),
         NEW clear2, NEW ever2, NEW always2,
         clear \subseteq clear2, ever \subseteq ever2, always2 \subseteq always
  PROVE  WalkSound(c, clear2, ever2, always2, req)
  <1>1. ASSUME NEW t, EntrySound(t, clear, ever, always)
        PROVE  EntrySound(t, clear2, ever2, always2)
    BY <1>1 DEF EntrySound
  <1>2. ListSound(c.todo, clear2, ever2, always2)
    BY <1>1 DEF WalkSound, ListSound
  <1>3. FoundSound(c.found, ever2)
    BY DEF WalkSound, FoundSound
  <1>4. ~c.truncated => NothingMissed(c.found, c.todo, Wanted(always2, c.path, req))
    BY DEF WalkSound, NothingMissed, Wanted
  <1> QED
    BY <1>2, <1>3, <1>4 DEF WalkSound

LEMMA StepIsQuiet ==
  ASSUME NEW w \in Workers, Step(w), ~Begin(w)
  PROVE  Quiet
  BY DEF Step, ResolveSource, ResolveTarget, Check, Mkdir, Rename, RemoveEntry, OpenSource,
         Open, Chtimes, WriteString, Copy, StartWalk, ReadDir, VisitEntry, WalkTimesOut, WalkEnds,
         SystemCallFails

LEMMA SeenGrows ==
  ASSUME Quiet, NEW v \in Workers, Finding(v)'
  PROVE  /\ seen'[v].ever = seen[v].ever \cup Entries'
         /\ seen'[v].always = seen[v].always \cap Entries'
  BY DEF Quiet

LEMMA StillFinding ==
  ASSUME WorkspaceInv, Ids, NEW w \in Workers, Step(w), ~Begin(w), NEW v \in Workers, Finding(v)'
  PROVE  Finding(v) /\ Req(v)' = Req(v)
  <1>1. CASE v # w
    <2>1. call'[v] = call[v] /\ (~At(v, "idle") => Req(v)' = Req(v))
      BY <1>1, OtherCalls
    <2> QED
      BY <2>1 DEF Finding, At
  <1>2. CASE v = w
    <2>1. ~At(w, "idle") /\ asked' = asked /\ (Advances(w) \/ EndsCall(w)) /\ DOMAIN call = Workers
      BY StepShape DEF WorkspaceInv, GoodCalls
    <2>2. CASE Advances(w)
      <3>1. call'[w].id = call[w].id
        BY <2>1, <2>2 DEF Advances
      <3>2. Req(w)' = Req(w)
        BY <2>1, <3>1 DEF Req
      <3> QED
        BY <1>2, <2>1, <3>2 DEF Finding
    <2>3. CASE EndsCall(w)
      BY <1>2, <2>1, <2>3 DEF EndsCall, Finish, Idle, Finding, At
    <2> QED
      BY <2>1, <2>2, <2>3
  <1> QED
    BY <1>1, <1>2

LEMMA WatchesOn ==
  ASSUME WorkspaceInv', Quiet, NEW v \in Workers, Watching(v), Finding(v)' => Finding(v)
  PROVE  Watching(v)'
  <1> SUFFICES ASSUME Finding(v)'
               PROVE  /\ Entries' \subseteq seen'[v].ever /\ seen'[v].ever \subseteq Kinds
                      /\ seen'[v].always \subseteq Entries'
    BY DEF Watching
  <1>1. Entries' \subseteq Kinds
    BY DEF WorkspaceInv, SoundTree, Entry, Entries, Kinds
  <1> QED
    BY <1>1, SeenGrows DEF Watching

(* Whatever other calls do, the walk stays sound: what it has met only     *)
(* grows, what it must meet only shrinks, and no link comes into its way.  *)
LEMMA OthersWalkOn ==
  ASSUME WorkspaceInv, WorkspaceInv', Ids, WalkInv, NoNewLink, NEW w \in Workers, Step(w),
         NEW v \in Workers, v # w
  PROVE  Watching(v)' /\ Walking(v)'
  <1>1. call'[v] = call[v] /\ (~At(v, "idle") => Req(v)' = Req(v)) /\ Watching(v) /\ Walking(v)
    BY OtherCalls DEF WalkInv
  <1>2. Finding(v)' <=> Finding(v)
    BY <1>1 DEF Finding, At
  <1>3. At(v, "walk") => Finding(v)
    BY DEF Ids, Finding, At
  <1>4. /\ Watching(v)'
        /\ Finding(v) => seen[v].ever \subseteq seen'[v].ever /\ seen'[v].always \subseteq seen[v].always
    <2>1. CASE Begin(w)
      <3>1. seen'[v] = seen[v] /\ fs' = fs
        BY <2>1 DEF Begin, WalkInv
      <3>2. Entries' = Entries
        BY <3>1 DEF Entries, Exists
      <3> QED
        BY <1>1, <1>2, <3>1, <3>2 DEF Watching
    <2>2. CASE ~Begin(w)
      <3>1. Quiet
        BY <2>2, StepIsQuiet
      <3>2. Watching(v)'
        BY <1>1, <1>2, <3>1, WatchesOn
      <3> QED
        BY <1>2, <3>1, <3>2, SeenGrows
    <2> QED
      BY <2>1, <2>2
  <1>5. Walking(v)'
    <2>1. CASE At(v, "walk")
      <3>1. WalkSound(call[v], Clear, seen[v].ever, seen[v].always, Req(v))
        BY <1>1, <2>1 DEF Walking
      <3>2. Clear \subseteq Clear'
        BY ClearStays
      <3>3. WalkSound(call[v], Clear', seen'[v].ever, seen'[v].always, Req(v))
        BY <1>3, <1>4, <2>1, <3>1, <3>2, WalkCarries
      <3> QED
        BY <1>1, <2>1, <3>3 DEF Walking, At
    <2>2. CASE ~At(v, "walk")
      BY <1>1, <2>2 DEF Walking, At
    <2> QED
      BY <2>1, <2>2
  <1> QED
    BY <1>4, <1>5

-----------------------------------------------------------------------------
(* The steps of the call itself. *)
LEMMA BeginWalk ==
  ASSUME WorkspaceInv, WalkInv, NEW w \in Workers, Begin(w)
  PROVE  Watching(w)' /\ Walking(w)'
  <1>1. DOMAIN call = Workers /\ DOMAIN seen = Workers
    BY DEF WorkspaceInv, GoodCalls, WalkInv
  <1>2. PICK req \in Requests[transport] :
            /\ asked' = Append(asked, req)
            /\ call' = [call EXCEPT ![w] =
                  [Idle EXCEPT !.pc = IF req.tool \in {"cp", "mv"} THEN "source" ELSE "path",
                               !.id = Len(asked) + 1]]
            /\ seen' = [seen EXCEPT ![w] = IF req.tool = "find"
                                           THEN [ever |-> Entries, always |-> Entries] ELSE Unseen]
    BY DEF Begin
  <1> DEFINE c == [Idle EXCEPT !.pc = IF req.tool \in {"cp", "mv"} THEN "source" ELSE "path",
                               !.id = Len(asked) + 1]
  <1>3. /\ c.pc \in {"source", "path"} /\ c.id = Len(asked) + 1
        /\ c.found = << >> /\ c.truncated = FALSE
    BY DEF Idle
  <1>4. call'[w] = c
    BY <1>1, <1>2
  <1> HIDE DEF c
  <1>5. Req(w)' = req
    <2>1. asked \in Seq(Request) /\ req \in Request
      BY WorkspaceAssumption DEF WorkspaceInv, RecordsKept
    <2>2. asked'[Len(asked) + 1] = req
      BY <1>2, <2>1
    <2> QED
      BY <1>3, <1>4, <2>2 DEF Req
  <1>6. Walking(w)'
    BY <1>3, <1>4 DEF Walking, At
  <1>7. Watching(w)'
    <2>1. Entries \subseteq Kinds
      BY EntriesAreKinds DEF WorkspaceInv
    <2>2. fs' = fs
      BY DEF Begin
    <2>3. Entries' = Entries
      BY <2>2 DEF Entries, Exists
    <2>4. Finding(w)' => seen'[w] = [ever |-> Entries, always |-> Entries]
      BY <1>1, <1>2, <1>5 DEF Finding
    <2> QED
      BY <2>1, <2>3, <2>4 DEF Watching
  <1> QED
    BY <1>6, <1>7

(* The other steps of a call: one that ends it, and one that does not walk. *)
LEMMA NotWalking ==
  ASSUME WorkspaceInv, Ids, NEW w \in Workers, Walking(w), Step(w), ~Begin(w),
         (\E result : Finish(w, result)) \/ ~(StartWalk(w) \/ ReadDir(w) \/ VisitEntry(w))
  PROVE  Walking(w)'
  <1>1. ~At(w, "idle") /\ DOMAIN call = Workers
    BY StepShape DEF WorkspaceInv, GoodCalls
  <1>2. DOMAIN call[w] = CallFields
    BY <1>1, CallAt
  <1>3. CASE \E result : Finish(w, result)
    <2>1. call'[w] = Idle
      BY <1>1, <1>3 DEF Finish
    <2>2. Idle.pc = "idle" /\ Idle.found = << >> /\ Idle.truncated = FALSE
      BY DEF Idle
    <2> QED
      BY <2>1, <2>2 DEF Walking, At
  <1>4. CASE ~(\E result : Finish(w, result))
    <2>1. ~Fail(w)
      BY <1>4 DEF Fail
    <2>2. \/ ResolveSource(w) \/ ResolveTarget(w) \/ Check(w) \/ OpenSource(w) \/ Open(w)
      BY <1>4, <2>1 DEF Step, Mkdir, Rename, RemoveEntry, Chtimes, WriteString, Copy,
         WalkTimesOut, WalkEnds, SystemCallFails
    <2>3. ~At(w, "walk")
      BY <2>2 DEF ResolveSource, ResolveTarget, Check, OpenSource, Open, At
    <2>4. /\ call'[w].pc # "walk" /\ call'[w].found = call[w].found
          /\ call'[w].truncated = call[w].truncated
      <3>1. CASE ResolveSource(w)
        BY <1>1, <1>2, <2>1, <3>1 DEF ResolveSource, CallFields
      <3>2. CASE ResolveTarget(w)
        BY <1>1, <1>2, <2>1, <3>2 DEF ResolveTarget, CallFields
      <3>3. CASE Check(w)
        BY <1>1, <1>2, <2>1, <3>3 DEF Check, Goto, CallFields
      <3>4. CASE OpenSource(w) \/ Open(w)
        <4>1. \/ \E n : call' = [call EXCEPT ![w] = [call[w] EXCEPT !.input = n, !.pc = "open"]]
              \/ \E n : call' = [call EXCEPT ![w] = [call[w] EXCEPT !.output = n, !.pc = "finish"]]
          BY <2>1, <3>4 DEF OpenSource, Open
        <4> QED
          BY <1>1, <1>2, <4>1 DEF CallFields
      <3> QED
        BY <2>2, <3>1, <3>2, <3>3, <3>4
    <2> QED
      BY <2>3, <2>4 DEF Walking, At
  <1> QED
    BY <1>3, <1>4

(* What the walk relies on in its own steps, which change no file. *)
LEMMA WalkStepShape ==
  ASSUME WorkspaceInv, WorkspaceInv', Ids, WalkInv, NEW w \in Workers,
         StartWalk(w) \/ ReadDir(w) \/ VisitEntry(w), ~(\E result : Finish(w, result))
  PROVE  /\ ~At(w, "idle") /\ Req(w).tool = "find" /\ Finding(w) /\ Finding(w)' /\ Req(w)' = Req(w)
         /\ DOMAIN call = Workers /\ DOMAIN call[w] = CallFields
         /\ fs' = fs /\ Watching(w) /\ Entries \subseteq seen[w].ever
         /\ seen[w].ever \subseteq Kinds /\ seen[w].always \subseteq Entries
         /\ seen'[w].ever = seen[w].ever /\ seen'[w].always = seen[w].always
         /\ Req(w) \in Request /\ Clear' = Clear
  <1>1. Step(w) /\ ~Begin(w)
    BY DEF Step, StartWalk, ReadDir, VisitEntry, Begin, At
  <1>2. /\ ~At(w, "idle") /\ asked' = asked /\ (Advances(w) \/ EndsCall(w))
        /\ DOMAIN call = Workers
    BY <1>1, StepShape DEF WorkspaceInv, GoodCalls
  <1>3. DOMAIN call[w] = CallFields /\ Req(w) \in Request
    BY <1>2, CallAt, RequestAsked
  <1>4. Req(w).tool = "find"
    BY <1>2 DEF StartWalk, ReadDir, VisitEntry, Ids
  <1>5. ~At(w, "idle")' /\ Req(w)' = Req(w)
    <2>1. Advances(w)
      BY <1>2 DEF EndsCall
    <2>2. call'[w].id = call[w].id /\ call'[w].pc # "idle"
      BY <1>2, <2>1 DEF Advances
    <2> QED
      BY <1>2, <2>2 DEF Req, At
  <1>6. Finding(w) /\ Finding(w)'
    BY <1>2, <1>4, <1>5 DEF Finding
  <1>7. fs' = fs
    BY DEF StartWalk, ReadDir, VisitEntry, Fail
  <1>8. Entries' = Entries /\ Clear' = Clear
    BY <1>7 DEF Entries, Exists, Clear, NoLinkTo
  <1>9. /\ Watching(w) /\ Entries \subseteq seen[w].ever /\ seen[w].ever \subseteq Kinds
        /\ seen[w].always \subseteq Entries
    BY <1>6 DEF WalkInv, Watching
  <1>10. seen'[w].ever = seen[w].ever \cup Entries' /\ seen'[w].always = seen[w].always \cap Entries'
    BY <1>1, <1>6, StepIsQuiet, SeenGrows
  <1>11. seen'[w].ever = seen[w].ever /\ seen'[w].always = seen[w].always
    BY <1>8, <1>9, <1>10
  <1> QED
    BY <1>2, <1>3, <1>4, <1>5, <1>6, <1>7, <1>8, <1>9, <1>11

LEMMA StartsWalking ==
  ASSUME WorkspaceInv, WorkspaceInv', Ids, WalkInv, NEW w \in Workers, StartWalk(w), ~Fail(w)
  PROVE  Walking(w)'
  <1> DEFINE root == call[w].path
             first == [Visit(root) EXCEPT !.enter = TRUE]
             todo == IF IsDir(root) THEN <<first>> ELSE << >>
             c == [call[w] EXCEPT !.pc = "walk", !.todo = todo]
  <1>1. call' = [call EXCEPT ![w] = c] /\ c.pc # "idle" /\ At(w, "act")
    <2>1. call' = [call EXCEPT ![w] = c] /\ At(w, "act")
      BY DEF StartWalk, Continue
    <2>2. DOMAIN call[w] = CallFields
      BY <2>1, CallAt DEF At
    <2>3. c.pc = "walk"
      BY <2>2 DEF CallFields
    <2> QED
      BY <2>1, <2>3
  <1>2. DOMAIN call = Workers
    BY DEF WorkspaceInv, GoodCalls
  <1>3. ~(\E result : Finish(w, result))
    <2>1. call'[w] = c
      BY <1>1, <1>2
    <2> HIDE DEF c
    <2> QED
      BY <1>1, <1>2, <2>1 DEF Finish, Idle
  <1>4. /\ DOMAIN call[w] = CallFields /\ ~At(w, "idle") /\ Req(w)' = Req(w)
        /\ fs' = fs /\ Entries \subseteq seen[w].ever
        /\ seen[w].ever \subseteq Kinds /\ seen[w].always \subseteq Entries
        /\ seen'[w].ever = seen[w].ever /\ seen'[w].always = seen[w].always
        /\ Req(w) \in Request /\ Clear' = Clear
    BY <1>3, WalkStepShape
  <1>5. root \in Path /\ call[w].found = << >> /\ call[w].truncated = FALSE
    BY <1>1, <1>4, CallAt DEF WalkInv, Walking, At
  <1>6. /\ c.pc = "walk" /\ c.todo = todo /\ c.found = << >> /\ c.truncated = FALSE
        /\ c.path = root
    BY <1>4, <1>5 DEF CallFields
  <1>7. call'[w] = c
    BY <1>1, <1>2
  <1> HIDE DEF c
  <1>8. TreeIntact /\ SoundTree(fs)
    BY DEF WorkspaceInv
  <1>9. \A e \in seen[w].always : e.path \in Path /\ Exists(e.path) /\ e.kind = fs[e.path].kind
    BY <1>4 DEF Entries
  <1>10. \A e \in seen[w].always : Inside(e.path, root) => IsDir(root)
    BY <1>5, <1>8, <1>9, DirectoriesAbove
  <1> HIDE DEF root
  <1>11. /\ ListSound(todo, Clear, seen[w].ever, seen[w].always)
         /\ NothingMissed(<< >>, todo, Wanted(seen[w].always, root, Req(w)))
    <2>1. CASE IsDir(root)
      <3>1. /\ first.path = root /\ first.kind = "dir" /\ first.enter = TRUE /\ first \in Visits
        BY <1>5, <2>1 DEF Visit, Visits, IsDir
      <3>2. Told(first) \in Entries
        BY <1>5, <2>1, <3>1 DEF Told, Entries, Exists, IsDir
      <3>3. root \in Clear
        BY <1>5, <1>8, <2>1, NoLinksAbove DEF Clear
      <3>4. EntrySound(first, Clear, seen[w].ever, seen[w].always)
        BY <1>4, <1>9, <2>1, <3>1, <3>2, <3>3 DEF EntrySound, IsDir
      <3> HIDE DEF first
      <3>5. todo = <<first>> /\ <<first>> \in Seq(Visits) /\ Len(<<first>>) = 1 /\ <<first>>[1] = first
        BY <2>1, <3>1
      <3> HIDE DEF todo
      <3>6. ListSound(todo, Clear, seen[w].ever, seen[w].always)
        BY <3>4, <3>5 DEF ListSound, Unrelated
      <3>7. \A p : Inside(p, root) => Ahead(todo[1], p)
        BY <3>1, <3>5 DEF Ahead
      <3>8. NothingMissed(<< >>, todo, Wanted(seen[w].always, root, Req(w)))
        BY <3>5, <3>7 DEF NothingMissed, Wanted
      <3> QED
        BY <3>6, <3>8
    <2>2. CASE ~IsDir(root)
      <3>1. todo = << >> /\ Len(<< >>) = 0 /\ << >> \in Seq(Visits)
        BY <2>2
      <3> HIDE DEF todo
      <3>2. ListSound(todo, Clear, seen[w].ever, seen[w].always)
        BY <3>1 DEF ListSound, Unrelated
      <3>3. NothingMissed(<< >>, todo, Wanted(seen[w].always, root, Req(w)))
        BY <1>10, <2>2 DEF NothingMissed, Wanted
      <3> QED
        BY <3>2, <3>3
    <2> QED
      BY <2>1, <2>2
  <1> HIDE DEF todo
  <1>12. FoundSound(<< >>, seen[w].ever) /\ Apart(<< >>, todo) /\ Len(<< >>) = 0
    BY DEF FoundSound, Apart
  <1>13. Limit(Req(w)) \in Nat \ {0}
    BY <1>4, LimitIsPositive
  <1>14. WalkSound(c, Clear, seen[w].ever, seen[w].always, Req(w))
    BY <1>6, <1>11, <1>12, <1>13 DEF WalkSound
  <1> QED
    BY <1>4, <1>6, <1>7, <1>14 DEF Walking, At

LEMMA ReadsOn ==
  ASSUME WorkspaceInv, WorkspaceInv', Ids, WalkInv, NEW w \in Workers, ReadDir(w), ~Fail(w)
  PROVE  Walking(w)'
  <1> DEFINE todo == call[w].todo
             found == call[w].found
             d == EvalSymlinks(Head(todo).path)
             rest == Listing(d) \o Tail(todo)
             c == [call[w] EXCEPT !.pc = "walk", !.todo = rest]
  <1>1. /\ call' = [call EXCEPT ![w] = c] /\ At(w, "walk") /\ todo # << >> /\ Head(todo).enter
        /\ IsDir(d)
    BY DEF ReadDir, Continue
  <1>2. DOMAIN call = Workers
    BY DEF WorkspaceInv, GoodCalls
  <1>3. DOMAIN call[w] = CallFields
    BY <1>1, CallAt DEF At
  <1>4. /\ c.pc = "walk" /\ c.todo = rest /\ c.found = found
        /\ c.truncated = call[w].truncated /\ c.path = call[w].path
    BY <1>3 DEF CallFields
  <1>5. call'[w] = c
    BY <1>1, <1>2
  <1> HIDE DEF c, rest
  <1>6. ~(\E result : Finish(w, result))
    BY <1>2, <1>4, <1>5 DEF Finish, Idle
  <1>7. /\ Req(w)' = Req(w)
        /\ fs' = fs /\ Entries \subseteq seen[w].ever
        /\ seen[w].always \subseteq Entries
        /\ seen'[w].ever = seen[w].ever /\ seen'[w].always = seen[w].always
        /\ Clear' = Clear
    BY <1>6, WalkStepShape
  <1>8. WalkSound(call[w], Clear, seen[w].ever, seen[w].always, Req(w))
    BY <1>1 DEF WalkInv, Walking
  <1>9. /\ ListSound(todo, Clear, seen[w].ever, seen[w].always)
        /\ FoundSound(found, seen[w].ever) /\ Apart(found, todo)
        /\ Len(found) <= Limit(Req(w)) /\ (~call[w].truncated => Len(found) < Limit(Req(w)))
        /\ ~call[w].truncated
        /\ NothingMissed(found, todo, Wanted(seen[w].always, call[w].path, Req(w)))
    BY <1>1, <1>8 DEF WalkSound
  <1>10. TreeIntact /\ SoundTree(fs) /\ Head(todo) = todo[1]
    BY DEF WorkspaceInv
  <1> HIDE DEF todo, found
  <1>11. /\ ListSound(rest, Clear, seen[w].ever, seen[w].always) /\ Apart(found, rest)
         /\ \A wanted \in SUBSET seen[w].always :
                NothingMissed(found, todo, wanted) => NothingMissed(found, rest, wanted)
    BY <1>1, <1>7, <1>9, <1>10, ReadGoesOn DEF rest
  <1>12. Wanted(seen[w].always, call[w].path, Req(w)) \in SUBSET seen[w].always
    BY DEF Wanted
  <1>13. NothingMissed(found, rest, Wanted(seen[w].always, call[w].path, Req(w)))
    BY <1>9, <1>11, <1>12
  <1>14. WalkSound(c, Clear, seen[w].ever, seen[w].always, Req(w))
    BY <1>4, <1>9, <1>11, <1>13 DEF WalkSound
  <1> QED
    BY <1>4, <1>5, <1>7, <1>14 DEF Walking, At

LEMMA VisitsOn ==
  ASSUME WorkspaceInv, WorkspaceInv', Ids, WalkInv, NEW w \in Workers, VisitEntry(w)
  PROVE  Walking(w)'
  <1> DEFINE todo == call[w].todo
             found == call[w].found
             h == Head(todo)
             told == [path |-> h.path, kind |-> h.kind]
             more == IF Matched(Req(w), h) THEN Append(found, told) ELSE found
             full == Len(more) > Len(found) /\ Len(more) >= Limit(Req(w))
             rest == (IF h.kind = "dir" THEN <<[h EXCEPT !.enter = TRUE]>> ELSE << >>) \o Tail(todo)
             left == IF full THEN << >> ELSE rest
             c == [call[w] EXCEPT !.found = more, !.truncated = full, !.todo = left]
  <1>1. At(w, "walk") /\ todo # << >> /\ ~Head(todo).enter
    BY DEF VisitEntry
  <1>2. call' = [call EXCEPT ![w] = c]
    BY DEF VisitEntry
  <1>3. DOMAIN call = Workers /\ DOMAIN call[w] = CallFields
    BY <1>1, CallAt DEF WorkspaceInv, GoodCalls, At
  <1> HIDE DEF more, full, left
  <1>4. /\ c.pc = "walk" /\ c.todo = left /\ c.found = more
        /\ c.truncated = full /\ c.path = call[w].path
    BY <1>1, <1>3 DEF CallFields, At
  <1>5. call'[w] = c
    BY <1>2, <1>3
  <1> HIDE DEF c
  <1>6. ~(\E result : Finish(w, result))
    BY <1>3, <1>4, <1>5 DEF Finish, Idle
  <1>7. /\ Req(w)' = Req(w) /\ Entries \subseteq seen[w].ever
        /\ seen[w].ever \subseteq Kinds /\ seen[w].always \subseteq Entries
        /\ seen'[w].ever = seen[w].ever /\ seen'[w].always = seen[w].always
        /\ Clear' = Clear /\ Req(w) \in Request
    BY <1>6, WalkStepShape
  <1>8. WalkSound(call[w], Clear, seen[w].ever, seen[w].always, Req(w))
    BY <1>1 DEF WalkInv, Walking
  <1>9. /\ ListSound(todo, Clear, seen[w].ever, seen[w].always)
        /\ FoundSound(found, seen[w].ever) /\ Apart(found, todo)
        /\ Len(found) < Limit(Req(w))
        /\ NothingMissed(found, todo, Wanted(seen[w].always, call[w].path, Req(w)))
    BY <1>1, <1>8 DEF WalkSound
  <1>10. h = todo[1] /\ told = Told(todo[1]) /\ rest = Passed(todo[1]) \o Tail(todo)
    <2>1. h = todo[1]
      OBVIOUS
    <2> HIDE DEF h
    <2>2. told = Told(h) /\ rest = Passed(h) \o Tail(todo)
      BY DEF Told, Passed
    <2> QED
      BY <2>1, <2>2
  <1>11. more = FoundAfter(found, Req(w), todo[1])
    BY <1>10 DEF more, FoundAfter
  <1>12. seen[w].always \subseteq Kinds
    BY <1>7
  <1>13. Limit(Req(w)) \in Nat \ {0}
    BY <1>7, LimitIsPositive
  <1>14. ~todo[1].enter
    BY <1>1
  <1> HIDE DEF todo, found, h, told, rest
  <1>15. /\ ListSound(rest, Clear, seen[w].ever, seen[w].always)
         /\ FoundSound(more, seen[w].ever) /\ Apart(more, rest) /\ Len(found) \in Nat
         /\ more = found \/ Len(more) = Len(found) + 1
         /\ NothingMissed(more, rest, Wanted(seen[w].always, call[w].path, Req(w)))
    <2> DEFINE on == Passed(todo[1]) \o Tail(todo)
    <2>1. /\ ListSound(on, Clear, seen[w].ever, seen[w].always)
          /\ FoundSound(more, seen[w].ever) /\ Apart(more, on) /\ Len(found) \in Nat
          /\ more = found \/ Len(more) = Len(found) + 1
          /\ NothingMissed(more, on, Wanted(seen[w].always, call[w].path, Req(w)))
      BY <1>1, <1>7, <1>9, <1>11, <1>12, <1>14, VisitGoesOn
    <2> QED
      BY <1>9, <1>10, <2>1
  <1>16. ListSound(left, Clear, seen[w].ever, seen[w].always) /\ Apart(more, left)
    <2>1. CASE full
      <3>1. left = << >> /\ Len(<< >>) = 0 /\ << >> \in Seq(Visits)
        BY <2>1 DEF left
      <3> QED
        BY <3>1 DEF ListSound, Unrelated, Apart
    <2>2. CASE ~full
      BY <1>15, <2>2 DEF left
    <2> QED
      BY <2>1, <2>2
  <1>17. Len(more) <= Limit(Req(w)) /\ (~full => Len(more) < Limit(Req(w)))
    BY <1>9, <1>13, <1>15 DEF full
  <1>18. ~full => NothingMissed(more, left, Wanted(seen[w].always, call[w].path, Req(w)))
    BY <1>15 DEF left
  <1>19. full => left = << >>
    BY DEF left
  <1>20. WalkSound(c, Clear, seen[w].ever, seen[w].always, Req(w))
    BY <1>4, <1>15, <1>16, <1>17, <1>18, <1>19 DEF WalkSound
  <1> QED
    BY <1>4, <1>5, <1>7, <1>20 DEF Walking, At

-----------------------------------------------------------------------------
(* Every step. *)
LEMMA OwnWalk ==
  ASSUME WorkspaceInv, WorkspaceInv', Ids, WalkInv, NEW w \in Workers, Step(w)
  PROVE  Watching(w)' /\ Walking(w)'
  <1>1. CASE Begin(w)
    BY <1>1, BeginWalk
  <1>2. CASE ~Begin(w)
    <2>1. Watching(w) /\ Walking(w)
      BY DEF WalkInv
    <2>2. Finding(w)' => Finding(w)
      BY <1>2, StillFinding
    <2>3. Watching(w)'
      BY <1>2, <2>1, <2>2, StepIsQuiet, WatchesOn
    <2>4. Walking(w)'
      <3>1. CASE (\E result : Finish(w, result)) \/ ~(StartWalk(w) \/ ReadDir(w) \/ VisitEntry(w))
        BY <1>2, <2>1, <3>1, NotWalking
      <3>2. CASE /\ ~(\E result : Finish(w, result))
                 /\ StartWalk(w) \/ ReadDir(w) \/ VisitEntry(w)
        <4>1. ~Fail(w)
          BY <3>2 DEF Fail
        <4> QED
          BY <3>2, <4>1, StartsWalking, ReadsOn, VisitsOn
      <3> QED
        BY <3>1, <3>2
    <2> QED
      BY <2>3, <2>4
  <1> QED
    BY <1>1, <1>2

LEMMA WalkInit == Init => WalkInv
  <1>1. Idle.pc = "idle" /\ Idle.found = << >> /\ Idle.truncated = FALSE
    BY DEF Idle
  <1> QED
    BY <1>1 DEF Init, WalkInv, Watching, Walking, Finding, At

LEMMA WalkNext == WalkInv /\ Ids /\ LinksInv /\ WorkspaceInv /\ [Next]_vars => WalkInv'
  <1> SUFFICES ASSUME WalkInv, Ids, LinksInv, WorkspaceInv, [Next]_vars
               PROVE  WalkInv'
    OBVIOUS
  <1>1. CASE UNCHANGED vars
    <2>1. UNCHANGED <<fs, call, asked, seen>>
      BY <1>1 DEF vars
    <2>2. Entries' = Entries /\ Clear' = Clear
      BY <2>1 DEF Entries, Exists, Clear, NoLinkTo
    <2>3. \A v \in Workers : Watching(v)' /\ Walking(v)'
      <3> TAKE v \in Workers
      <3>1. Watching(v) /\ Walking(v)
        BY DEF WalkInv
      <3>2. Watching(v)'
        BY <2>1, <2>2, <3>1 DEF Watching, Finding, At, Req
      <3>3. Walking(v)'
        BY <2>1, <2>2, <3>1 DEF Walking, At, Req
      <3> QED
        BY <3>2, <3>3
    <2> QED
      BY <2>1, <2>3 DEF WalkInv
  <1>2. ASSUME NEW w \in Workers, Step(w)
        PROVE  WalkInv'
    <2>1. WorkspaceInv' /\ NoNewLink
      BY StepKeeps, LinksNext
    <2>2. \A v \in Workers : Watching(v)' /\ Walking(v)'
      BY <1>2, <2>1, OwnWalk, OthersWalkOn
    <2>3. DOMAIN seen' = Workers
      <3>1. CASE Begin(w)
        BY <3>1 DEF Begin, WalkInv
      <3>2. CASE ~Begin(w)
        BY <1>2, <3>2, StepIsQuiet DEF Quiet
      <3> QED
        BY <3>1, <3>2
    <2> QED
      BY <2>2, <2>3 DEF WalkInv
  <1> QED
    BY <1>1, <1>2 DEF Next, Served

(* A walk that has nothing left to go through is what was asked for. *)
Faithful(c, ever, always, req) ==
    LET found == Range(c.found) IN
    /\ Cardinality({entry.path : entry \in found}) = Len(c.found)
    /\ Len(c.found) <= Limit(req) /\ found \subseteq ever
    /\ ~c.truncated =>
           {entry \in always : Inside(entry.path, c.path) /\ Matched(req, entry)} \subseteq found

LEMMA WalkIsFaithful ==
  ASSUME NEW c, NEW clear, NEW ever, NEW always, NEW req, WalkSound(c, clear, ever, always, req),
         c.todo = << >>
  PROVE  Faithful(c, ever, always, req)
  <1> DEFINE list == c.found
             found == Range(list)
             n == Len(list)
             paths == {entry.path : entry \in found}
             f == [k \in 1..n |-> list[k].path]
  <1>1. /\ list \in Seq(Kinds) /\ \A k \in 1..n : list[k] \in ever
        /\ \A j, k \in 1..n : list[j].path = list[k].path => j = k
    BY DEF WalkSound, FoundSound
  <1>2. NothingMissed(list, << >>, Wanted(always, c.path, req)) \/ c.truncated
    BY DEF WalkSound
  <1>3. Len(list) <= Limit(req)
    BY DEF WalkSound
  <1> HIDE DEF list
  <1>4. n \in Nat /\ DOMAIN list = 1..n
    BY <1>1, LenProperties
  <1> HIDE DEF n
  <1>5. found = {list[k] : k \in 1..n}
    BY <1>4 DEF Range
  <1> HIDE DEF found
  <1>6. f \in Bijection(1..n, paths)
    <2>1. f \in [1..n -> paths]
      BY <1>5
    <2>2. \A j, k \in 1..n : f[j] = f[k] => j = k
      BY <1>1 DEF n
    <2>3. \A p \in paths : \E k \in 1..n : f[k] = p
      BY <1>5
    <2> HIDE DEF f, paths
    <2> QED
      BY <2>1, <2>2, <2>3 DEF Bijection, Injection, Surjection, IsInjective
  <1>7. Cardinality(paths) = n
    <2>1. IsFiniteSet(1..n) /\ Cardinality(1..n) = n
      BY <1>4, FS_Interval
    <2> HIDE DEF f, paths
    <2>2. ExistsBijection(1..n, paths)
      BY <1>6 DEF ExistsBijection
    <2> QED
      BY <2>1, <2>2, FS_Bijection
  <1>8. found \subseteq ever
    BY <1>1, <1>5 DEF n
  <1>9. ~c.truncated => Wanted(always, c.path, req) \subseteq found
    <2>1. Len(<< >>) = 0
      OBVIOUS
    <2> QED
      BY <1>2, <1>5, <2>1 DEF NothingMissed, n
  <1> QED
    BY <1>3, <1>7, <1>8, <1>9 DEF Faithful, found, list, n, Wanted

FindsRight ==
    \A w \in Workers :
        Finding(w) /\ At(w, "walk") /\ At(w, "idle")' /\ outcome'[call[w].id] = "ok" =>
            Faithful(call[w], seen[w].ever, seen[w].always, Req(w))

(* Only WalkEnds reports success, with nothing left to go through. *)
LEMMA EndsFaithfully ==
  ASSUME WalkInv, AddInv, WorkspaceInv, [Next]_vars
  PROVE  FindsRight
  <1> SUFFICES ASSUME NEW w \in Workers, At(w, "walk"), At(w, "idle")', outcome'[call[w].id] = "ok"
               PROVE  call[w].todo = << >>
    <2>1. ASSUME NEW w \in Workers, At(w, "walk"), call[w].todo = << >>
          PROVE  Faithful(call[w], seen[w].ever, seen[w].always, Req(w))
      <3>1. WalkSound(call[w], Clear, seen[w].ever, seen[w].always, Req(w))
        BY <2>1 DEF WalkInv, Walking
      <3> QED
        BY <2>1, <3>1, WalkIsFaithful
    <2> QED
      BY <2>1 DEF FindsRight
  <1>1. DOMAIN call = Workers /\ Results /\ Ids /\ "idle" # "walk"
    BY DEF WorkspaceInv, GoodCalls, AddInv
  <1>2. CASE UNCHANGED vars
    BY <1>2 DEF vars, At
  <1>3. ASSUME NEW v \in Workers, Step(v), v # w
        PROVE  FALSE
    BY <1>1, <1>3, OtherCalls DEF At
  <1>4. CASE Step(w)
    <2>1. ~Begin(w)
      BY DEF Begin, At
    <2>2. ~At(w, "idle") /\ asked' = asked
      BY <1>1, <1>4, <2>1, StepShape
    <2>3. ~Finish(w, "error")
      <3>1. call[w].id \in 1..Len(asked)
        BY <2>2 DEF WorkspaceInv, GoodCalls, GoodCall, At
      <3>2. call[w].id \in DOMAIN outcome
        BY <1>1, <3>1 DEF Results, IsSequence
      <3> QED
        BY <3>2 DEF Finish
    <2>4. ~Fail(w)
      BY <2>3 DEF Fail
    <2>5. ReadDir(w) \/ VisitEntry(w) \/ WalkEnds(w)
      BY <1>1, <1>4, <2>1, <2>4 DEF Step, ResolveSource, ResolveTarget, Check, Mkdir, Rename,
         RemoveEntry, OpenSource, Open, Chtimes, WriteString, Copy, StartWalk, WalkTimesOut,
         SystemCallFails, At
    <2>6. DOMAIN call[w] = CallFields
      BY <2>2, CallAt
    <2>7. CASE ReadDir(w)
      <3>1. PICK todo : call' = [call EXCEPT ![w] = [call[w] EXCEPT !.pc = "walk", !.todo = todo]]
        BY <2>4, <2>7 DEF ReadDir, Continue
      <3> QED
        BY <1>1, <2>6, <3>1 DEF CallFields, At
    <2>8. CASE VisitEntry(w)
      <3>1. PICK found, full, todo :
                call' = [call EXCEPT ![w].found = found, ![w].truncated = full, ![w].todo = todo]
        BY <2>8 DEF VisitEntry
      <3> QED
        BY <1>1, <2>6, <3>1 DEF CallFields, At
    <2> QED
      BY <2>5, <2>7, <2>8 DEF WalkEnds
  <1> QED
    BY <1>1, <1>2, <1>3, <1>4 DEF Next, Served

(* Whatever is changed meanwhile, what runFind reports as found is so: the *)
(* walk of filepath.WalkDir gives every path once, at most max_results of  *)
(* them, only entries that lay there during the call and, without the      *)
(* truncated flag, every match that lay there all the time.                *)
THEOREM FindsAreFaithful == Spec => FindIsFaithful
  <1> DEFINE A == \A w \in Workers :
          Finding(w) /\ At(w, "walk") /\ At(w, "idle")' /\ outcome'[call[w].id] = "ok" =>
              LET found == Range(call[w].found) IN
              /\ Cardinality({entry.path : entry \in found}) = Len(call[w].found)
              /\ Len(call[w].found) <= Limit(Req(w)) /\ found \subseteq seen[w].ever
              /\ ~call[w].truncated =>
                     {entry \in seen[w].always :
                         Inside(entry.path, call[w].path) /\ Matched(Req(w), entry)} \subseteq found
  <1>1. WalkInv /\ AddInv /\ WorkspaceInv /\ [Next]_vars => A
    BY EndsFaithfully DEF FindsRight, Faithful
  <1>2. AddInv => Ids
    BY DEF AddInv
  <1>3. WalkInv /\ AddInv /\ LinksInv /\ WorkspaceInv /\ [Next]_vars => WalkInv' /\ LinksInv'
    BY <1>2, WalkNext, LinksNext
  <1>4. AddInv /\ WorkspaceInv /\ [Next]_vars => AddInv'
    BY AddNext
  <1>5. Spec => [][A]_vars
    BY <1>1, <1>3, <1>4, WalkInit, LinksInit, AddInit, InitEstablishes, StepKeeps, PTL DEF Spec
  <1> QED
    BY <1>5, PTL DEF FindIsFaithful
=============================================================================
