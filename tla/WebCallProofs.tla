---------------------------- MODULE WebCallProofs ----------------------------
(***************************************************************************)
(* Proofs about WebCall, for every page, every call and all limits: that   *)
(* what the server accepts can be carried out, that the agent and the      *)
(* server judge a call alike, that a result without a flag is complete,    *)
(* and that the content of a page is as good as the page allows.           *)
(***************************************************************************)
EXTENDS WebCall, SequenceTheorems, WellFoundedInduction, TLAPS

-----------------------------------------------------------------------------
(* A set that holds 0, and each number up to n with the one before it,     *)
(* holds all of them.                                                      *)
LEMMA IntervalInduction ==
    ASSUME NEW n \in Nat, NEW S, 0 \in S, \A i \in 1..n : i - 1 \in S => i \in S
    PROVE  0..n \subseteq S
<1> DEFINE R == {p \in Nat \X Nat : p[1] < p[2]}
           T == {i \in 0..n : i \notin S}
<1>1. R = OpToRel(<, Nat)
  BY DEF OpToRel
<1>2. IsWellFoundedOn(R, Nat)
  BY <1>1, NatLessThanWellFounded, Zenon
<1>3. ASSUME T # {} PROVE FALSE
  <2>1. T \subseteq Nat
    OBVIOUS
  <2>2. PICK x \in T : \A y \in T : <<y, x>> \notin R
    <3> HIDE DEF R, T
    <3> QED BY <1>2, <1>3, <2>1, WFMin
  <2>3. x \in 1..n /\ x \notin S
    OBVIOUS
  <2>4. x - 1 \in T
    BY <2>3
  <2>5. <<x - 1, x>> \in Nat \X Nat /\ <<x - 1, x>>[1] = x - 1 /\ <<x - 1, x>>[2] = x
    BY <2>3
  <2>6. x - 1 < x
    BY <2>3
  <2> QED BY <2>2, <2>4, <2>5, <2>6
<1> QED BY <1>3

(* f is what a loop has computed after each of its n steps.                *)
LoopComputes(f, n, T, first, step) ==
    /\ f \in [0..n -> T]
    /\ f[0] = first /\ \A i \in 1..n : f[i] = step[i][f[i - 1]]

(* What a loop computes, step after step, exists.                          *)
LEMMA LoopExists ==
    ASSUME NEW n \in Nat, NEW T, NEW first \in T, NEW step \in [1..n -> [T -> T]]
    PROVE  \E f : LoopComputes(f, n, T, first, step)
<1> DEFINE Upto(m, f) == f = [i \in 0..m |-> IF i = 0 THEN first ELSE step[i][f[i - 1]]]
           S == {m \in 0..n : \E f \in [0..m -> T] : Upto(m, f)}
<1>1. 0 \in S
  <2>1. [i \in 0..0 |-> first] \in [0..0 -> T] /\ Upto(0, [i \in 0..0 |-> first])
    OBVIOUS
  <2>2. 0 \in 0..n
    OBVIOUS
  <2> HIDE DEF Upto
  <2> QED BY <2>1, <2>2
<1>2. ASSUME NEW m \in 1..n, m - 1 \in S PROVE m \in S
  <2>1. PICK f \in [0..m-1 -> T] : Upto(m - 1, f)
    BY <1>2
  <2> DEFINE g == [i \in 0..m |-> IF i = m THEN step[m][f[m - 1]] ELSE f[i]]
  <2>2. m - 1 \in 0..m-1 /\ f[m - 1] \in T /\ step[m] \in [T -> T]
    OBVIOUS
  <2>3. step[m][f[m - 1]] \in T
    BY <2>2
  <2>4. g \in [0..m -> T]
    BY <2>3
  <2>5. ASSUME NEW i \in 0..m
        PROVE  g[i] = IF i = 0 THEN first ELSE step[i][g[i - 1]]
    <3>1. CASE i = m
      <4>1. i # 0 /\ i - 1 \in 0..m /\ i - 1 # m
        BY <3>1
      <4>2. g[i - 1] = f[m - 1] /\ g[i] = step[m][f[m - 1]]
        BY <3>1, <4>1
      <4> QED BY <3>1, <4>1, <4>2
    <3>2. CASE i # m
      <4>1. i \in 0..m-1 /\ (i # 0 => i - 1 \in 0..m /\ i - 1 # m)
        BY <3>2
      <4>2. f[i] = IF i = 0 THEN first ELSE step[i][f[i - 1]]
        BY <2>1, <4>1
      <4>3. g[i] = f[i] /\ (i # 0 => g[i - 1] = f[i - 1])
        BY <3>2, <4>1
      <4> QED BY <4>2, <4>3
    <3> QED BY <3>1, <3>2
  <2>6. Upto(m, g)
    <3> HIDE DEF g
    <3>1. DOMAIN g = 0..m
      BY <2>4
    <3> QED BY <2>4, <2>5, <3>1
  <2>7. m \in 0..n
    OBVIOUS
  <2> HIDE DEF Upto, g
  <2> QED BY <2>4, <2>6, <2>7
<1>3. 0..n \subseteq S
  <2> HIDE DEF S
  <2> QED BY <1>1, <1>2, IntervalInduction
<1>4. PICK f \in [0..n -> T] : Upto(n, f)
  BY <1>3
<1>5. f[0] = first /\ \A i \in 1..n : f[i] = step[i][f[i - 1]]
  BY <1>4
<1> QED BY <1>5 DEF LoopComputes

-----------------------------------------------------------------------------
(* A markdown counts what its elements contribute, one after another       *)
(* (convertRenderedHTMLToMarkdown, browser.go:1055-1064).                  *)
Contribution(tree, elements, c, i) == IF i \in elements THEN tree[i].block[c] ELSE 0

LEMMA MarkdownSums ==
    ASSUME NEW tree \in Seq(Elements), NEW elements, NEW c \in Counted
    PROVE  \E sum \in [0..Len(tree) -> Nat] :
               /\ sum[0] = 0
               /\ \A i \in 1..Len(tree) : sum[i] = sum[i - 1] + Contribution(tree, elements, c, i)
               /\ Markdown(tree, elements)[c] = sum[Len(tree)]
<1> DEFINE Block(i) == IF i \in elements THEN tree[i].block[c] ELSE 0
           Adds(f) == f = [i \in 0..Len(tree) |-> IF i = 0 THEN 0 ELSE f[i - 1] + Block(i)]
           sum == CHOOSE f : Adds(f)
<1>1. Len(tree) \in Nat /\ \A i \in 1..Len(tree) : Block(i) \in Nat
  <2>1. \A i \in 1..Len(tree) : tree[i] \in Elements
    OBVIOUS
  <2> QED BY <2>1 DEF Elements, MarkdownTexts
<1>2. \E f \in [0..Len(tree) -> Nat] : Adds(f)
  <2> HIDE DEF Block
  <2> DEFINE step == [i \in 1..Len(tree) |-> [m \in Nat |-> m + Block(i)]]
  <2>1. step \in [1..Len(tree) -> [Nat -> Nat]]
    BY <1>1
  <2>2. PICK f : LoopComputes(f, Len(tree), Nat, 0, step)
    <3>1. 0 \in Nat
      OBVIOUS
    <3> HIDE DEF step
    <3> QED BY <1>1, <2>1, <3>1, LoopExists
  <2>3. /\ f \in [0..Len(tree) -> Nat]
        /\ f[0] = 0 /\ \A i \in 1..Len(tree) : f[i] = step[i][f[i - 1]]
    BY <2>2 DEF LoopComputes
  <2>4. ASSUME NEW i \in 0..Len(tree)
        PROVE  f[i] = IF i = 0 THEN 0 ELSE f[i - 1] + Block(i)
    <3>1. CASE i = 0
      <4> HIDE DEF step
      <4> QED BY <2>3, <3>1
    <3>2. CASE i # 0
      <4>1. i \in 1..Len(tree) /\ i - 1 \in 0..Len(tree)
        <5> HIDE DEF step
        <5> QED BY <1>1, <3>2
      <4>2. f[i - 1] \in Nat
        <5> HIDE DEF step
        <5> QED BY <2>3, <4>1
      <4>3. step[i][f[i - 1]] = f[i - 1] + Block(i)
        BY <4>1, <4>2
      <4>4. f[i] = step[i][f[i - 1]]
        <5> HIDE DEF step
        <5> QED BY <2>3, <4>1
      <4> QED BY <3>2, <4>3, <4>4
    <3> QED BY <3>1, <3>2
  <2>5. f = [i \in 0..Len(tree) |-> IF i = 0 THEN 0 ELSE f[i - 1] + Block(i)]
    <3> HIDE DEF step
    <3> QED BY <2>3, <2>4
  <2>6. Adds(f)
    BY <2>5
  <2> HIDE DEF Adds
  <2> QED BY <2>3, <2>6
<1>3. Adds(sum)
  <2> HIDE DEF Adds
  <2> QED BY <1>2
<1>4. \A i \in 0..Len(tree) : sum[i] = IF i = 0 THEN 0 ELSE sum[i - 1] + Block(i)
  <2> HIDE DEF sum, Block
  <2> QED BY <1>3
<1>5. sum \in [0..Len(tree) -> Nat]
  <2> DEFINE S == {i \in 0..Len(tree) : sum[i] \in Nat}
  <2>1. 0 \in S
    <3> HIDE DEF sum, Block
    <3> QED BY <1>1, <1>4
  <2>2. ASSUME NEW i \in 1..Len(tree), sum[i - 1] \in Nat PROVE sum[i] \in Nat
    <3> HIDE DEF sum, Block
    <3> QED BY <1>1, <1>4, <2>2
  <2>3. \A i \in 1..Len(tree) : i - 1 \in S => i \in S
    <3> HIDE DEF sum, Block
    <3> QED BY <1>1, <2>2
  <2>4. 0..Len(tree) \subseteq S
    <3> HIDE DEF S
    <3> QED BY <1>1, <2>1, <2>3, IntervalInduction
  <2>5. sum = [i \in 0..Len(tree) |-> IF i = 0 THEN 0 ELSE sum[i - 1] + Block(i)]
    <3> HIDE DEF sum, Block
    <3> QED BY <1>3
  <2> HIDE DEF sum, Block
  <2> QED BY <2>4, <2>5
<1>6. Markdown(tree, elements)[c] = sum[Len(tree)]
  BY DEF Markdown, sum, Adds, Block
<1>7. \A i \in 1..Len(tree) : sum[i] = sum[i - 1] + Contribution(tree, elements, c, i)
  <2>1. \A i \in 1..Len(tree) : sum[i] = sum[i - 1] + Block(i)
    <3> HIDE DEF sum, Block
    <3> QED BY <1>1, <1>4
  <2> HIDE DEF sum
  <2> QED BY <2>1 DEF Contribution
<1> QED
  <2>1. sum[0] = 0
    <3> HIDE DEF sum, Block
    <3> QED BY <1>1, <1>4
  <2> HIDE DEF sum
  <2> QED BY <1>5, <1>6, <1>7, <2>1

(* The lengths in a markdown are numbers, whatever elements it is made of, *)
(* and letters are some of its runes.                                      *)
LEMMA MarkdownType ==
    ASSUME NEW tree \in Seq(Elements), NEW elements
    PROVE  Markdown(tree, elements) \in MarkdownTexts
<1>1. \A c \in Counted : Markdown(tree, elements)[c] \in Nat
  <2> TAKE c \in Counted
  <2>1. PICK sum \in [0..Len(tree) -> Nat] : Markdown(tree, elements)[c] = sum[Len(tree)]
    BY MarkdownSums
  <2> QED BY <2>1
<1>2. Markdown(tree, elements) = [c \in Counted |-> Markdown(tree, elements)[c]]
  BY DEF Markdown
<1>3. {"letters", "runes"} \subseteq Counted
  BY DEF Counted
<1>4. PICK letters \in [0..Len(tree) -> Nat] :
          /\ letters[0] = 0
          /\ \A i \in 1..Len(tree) : letters[i] = letters[i - 1] + Contribution(tree, elements, "letters", i)
          /\ Markdown(tree, elements)["letters"] = letters[Len(tree)]
  BY <1>3, MarkdownSums
<1>5. PICK runes \in [0..Len(tree) -> Nat] :
          /\ runes[0] = 0
          /\ \A i \in 1..Len(tree) : runes[i] = runes[i - 1] + Contribution(tree, elements, "runes", i)
          /\ Markdown(tree, elements)["runes"] = runes[Len(tree)]
  BY <1>3, MarkdownSums
<1>6. \A i \in 1..Len(tree) :
          /\ Contribution(tree, elements, "letters", i) \in Nat
          /\ Contribution(tree, elements, "runes", i) \in Nat
          /\ Contribution(tree, elements, "letters", i) <= Contribution(tree, elements, "runes", i)
  <2> TAKE i \in 1..Len(tree)
  <2>1. tree[i] \in Elements
    OBVIOUS
  <2>2. /\ tree[i].block["letters"] \in Nat /\ tree[i].block["runes"] \in Nat
        /\ tree[i].block["letters"] <= tree[i].block["runes"]
    BY <1>3, <2>1 DEF Elements, MarkdownTexts
  <2> QED BY <2>2 DEF Contribution
<1>7. letters[Len(tree)] <= runes[Len(tree)]
  <2> DEFINE S == {i \in 0..Len(tree) : letters[i] <= runes[i]}
  <2>1. \A i \in 1..Len(tree) : letters[i - 1] <= runes[i - 1] => letters[i] <= runes[i]
    <3> SUFFICES ASSUME NEW i \in 1..Len(tree), letters[i - 1] <= runes[i - 1] PROVE letters[i] <= runes[i]
      OBVIOUS
    <3>1. i - 1 \in 0..Len(tree) /\ letters[i - 1] \in Nat /\ runes[i - 1] \in Nat
      OBVIOUS
    <3> QED BY <1>4, <1>5, <1>6, <3>1
  <2>2. Len(tree) \in Nat /\ 0 \in S /\ \A i \in 1..Len(tree) : i - 1 \in S => i \in S
    BY <1>4, <1>5, <2>1
  <2>3. 0..Len(tree) \subseteq S
    <3> HIDE DEF S
    <3> QED BY <2>2, IntervalInduction
  <2> QED BY <2>3
<1>8. Markdown(tree, elements)["letters"] <= Markdown(tree, elements)["runes"]
  BY <1>4, <1>5, <1>7
<1> QED BY <1>1, <1>2, <1>8 DEF MarkdownTexts

(* So are those in the content of every page (browser.go:669-724).         *)
LEMMA ContentType ==
    ASSUME NEW shown \in Pages
    PROVE  ContentOf[shown].md \in MarkdownTexts
<1>1. /\ shown.readable \in MarkdownTexts /\ shown.visible \in MarkdownTexts
      /\ shown.tree \in Seq(Elements)
  BY PagesAssumption DEF Trees
<1>2. \A i : Rendered(shown.tree, i) \in MarkdownTexts
  BY <1>1, MarkdownType DEF Rendered
<1>3. ExtractContent(shown).md \in MarkdownTexts
  <2>1. ExtractContent(shown).md \in
            {Rendered(shown.tree, BestCandidate(shown.tree)), shown.readable, shown.visible}
    BY DEF ExtractContent, Content
  <2> QED BY <1>1, <1>2, <2>1
<1> QED BY <1>3 DEF ContentOf

(* The list a search shows is one of anchors (browser.go:490-526).         *)
LEMMA CollectType ==
    ASSUME NEW matches \in Seq(Anchors)
    PROVE  Collect(matches) \in Seq(Anchors)
<1> DEFINE Skips(i, so) ==
               \/ Target(matches[i]).runes = 0
               \/ \E k \in 1..Len(so) : Target(so[k]) = Target(matches[i])
           Longer(i, so) == IF Skips(i, so) THEN so ELSE Append(so, matches[i])
           Collects(f) == f = [i \in 0..Len(matches) |-> IF i = 0 THEN << >> ELSE Longer(i, f[i - 1])]
           found == CHOOSE f : Collects(f)
<1>1. Len(matches) \in Nat /\ \A i \in 1..Len(matches) : \A so \in Seq(Anchors) : Longer(i, so) \in Seq(Anchors)
  OBVIOUS
<1>2. \E f \in [0..Len(matches) -> Seq(Anchors)] : Collects(f)
  <2> HIDE DEF Longer
  <2> DEFINE step == [i \in 1..Len(matches) |-> [so \in Seq(Anchors) |-> Longer(i, so)]]
  <2>1. step \in [1..Len(matches) -> [Seq(Anchors) -> Seq(Anchors)]]
    BY <1>1
  <2>2. PICK f : LoopComputes(f, Len(matches), Seq(Anchors), << >>, step)
    <3>1. << >> \in Seq(Anchors)
      OBVIOUS
    <3> HIDE DEF step
    <3> QED BY <1>1, <2>1, <3>1, LoopExists
  <2>3. /\ f \in [0..Len(matches) -> Seq(Anchors)]
        /\ f[0] = << >> /\ \A i \in 1..Len(matches) : f[i] = step[i][f[i - 1]]
    BY <2>2 DEF LoopComputes
  <2>4. ASSUME NEW i \in 0..Len(matches)
        PROVE  f[i] = IF i = 0 THEN << >> ELSE Longer(i, f[i - 1])
    <3>1. CASE i = 0
      <4> HIDE DEF step
      <4> QED BY <2>3, <3>1
    <3>2. CASE i # 0
      <4>1. i \in 1..Len(matches) /\ i - 1 \in 0..Len(matches)
        <5> HIDE DEF step
        <5> QED BY <1>1, <3>2
      <4>2. f[i - 1] \in Seq(Anchors)
        <5> HIDE DEF step
        <5> QED BY <2>3, <4>1
      <4>3. step[i][f[i - 1]] = Longer(i, f[i - 1])
        BY <4>1, <4>2
      <4>4. f[i] = step[i][f[i - 1]]
        <5> HIDE DEF step
        <5> QED BY <2>3, <4>1
      <4> QED BY <3>2, <4>3, <4>4
    <3> QED BY <3>1, <3>2
  <2>5. f = [i \in 0..Len(matches) |-> IF i = 0 THEN << >> ELSE Longer(i, f[i - 1])]
    <3> HIDE DEF step
    <3> QED BY <2>3, <2>4
  <2>6. Collects(f)
    BY <2>5
  <2> HIDE DEF Collects
  <2> QED BY <2>3, <2>6
<1>3. Collects(found)
  <2> HIDE DEF Collects
  <2> QED BY <1>2
<1>4. \A i \in 0..Len(matches) : found[i] = IF i = 0 THEN << >> ELSE Longer(i, found[i - 1])
  <2> HIDE DEF found, Longer
  <2> QED BY <1>3
<1>5. 0..Len(matches) \subseteq {i \in 0..Len(matches) : found[i] \in Seq(Anchors)}
  <2> HIDE DEF found, Longer
  <2>1. 0 \in {i \in 0..Len(matches) : found[i] \in Seq(Anchors)}
    <3>1. 0 \in 0..Len(matches) /\ << >> \in Seq(Anchors)
      BY <1>1
    <3>2. found[0] = << >>
      BY <1>4, <3>1
    <3> QED BY <3>1, <3>2
  <2>2. \A i \in 1..Len(matches) :
            i - 1 \in {k \in 0..Len(matches) : found[k] \in Seq(Anchors)}
            => i \in {k \in 0..Len(matches) : found[k] \in Seq(Anchors)}
    <3> SUFFICES ASSUME NEW i \in 1..Len(matches), found[i - 1] \in Seq(Anchors)
                 PROVE  i \in 0..Len(matches) /\ found[i] \in Seq(Anchors)
      OBVIOUS
    <3>1. i \in 0..Len(matches) /\ i # 0 /\ found[i] = Longer(i, found[i - 1])
      BY <1>1, <1>4
    <3> QED BY <1>1, <3>1
  <2> QED BY <1>1, <2>1, <2>2, IntervalInduction
<1>6. Collect(matches) = found[Len(matches)]
  BY DEF Collect, found, Collects, Longer, Skips
<1>7. found[Len(matches)] \in Seq(Anchors)
  <2> HIDE DEF found, Longer
  <2> QED BY <1>1, <1>5
<1> QED
  <2> HIDE DEF found
  <2> QED BY <1>6, <1>7

-----------------------------------------------------------------------------
(* What the tools' schemas ask of their fields. *)
IntegerIn(value, min, max) == IsInteger(value) /\ value.double >= 2 * min /\ value.double <= 2 * max
TextUpTo(value, max) == value.kind = "string" /\ 2 * value.text.bytes <= 2 * max
OneOf(value, names) == \E name \in names : value = String(Name(name))

(* Schemas as numberOf and the type assertions read them, whichever way    *)
(* they were made (validate, jsonschema.go:34-145).                        *)
LEMMA IntegerSchema ==
    ASSUME NEW schema, DOMAIN schema = {"type", "minimum", "maximum"}, schema.type = "integer",
           NEW min, IsNumber(schema.minimum), schema.minimum.double = 2 * min,
           NEW max, IsNumber(schema.maximum), schema.maximum.double = 2 * max,
           NEW value
    PROVE  AcceptsField(schema, value) <=> IntegerIn(value, min, max)
  BY DEF AcceptsField, AcceptsItself, Parts, AcceptsType, Listed, Has, InRange, AtLeast, AtMost, IntegerIn

(* A boolean is one (jsonschema.go:123-126). *)
LEMMA BooleanSchema ==
    ASSUME NEW schema, DOMAIN schema = {"type"}, schema.type = "boolean", NEW value
    PROVE  AcceptsField(schema, value) <=> value.kind = "boolean"
  BY DEF AcceptsField, AcceptsItself, Parts, AcceptsType, Listed, Has

(* A text has a length in bytes (jsonschema.go:102-112). *)
LEMMA TextSchema ==
    ASSUME NEW schema, DOMAIN schema = {"type", "maxLength"}, schema.type = "string",
           NEW max, IsNumber(schema.maxLength), schema.maxLength.double = 2 * max,
           NEW value
    PROVE  AcceptsField(schema, value) <=> TextUpTo(value, max)
  BY DEF AcceptsField, AcceptsItself, Parts, AcceptsType, Listed, Has, LengthAllowed, AtMost, AtLeast, TextUpTo

(* Both limits of a text count (jsonschema.go:102-112). *)
LEMMA QuerySchema ==
    ASSUME NEW schema, DOMAIN schema = {"type", "minLength", "maxLength"}, schema.type = "string",
           NEW max, IsNumber(schema.maxLength), schema.maxLength.double = 2 * max,
           IsNumber(schema.minLength), schema.minLength.double = 2 * 1,
           NEW value
    PROVE  AcceptsField(schema, value) <=> TextUpTo(value, max) /\ 2 * value.text.bytes >= 2 * 1
  BY DEF AcceptsField, AcceptsItself, Parts, AcceptsType, Listed, Has, LengthAllowed, AtMost, AtLeast, TextUpTo

(* A text is one of those listed (jsonschema.go:40-51). *)
LEMMA EnumSchema ==
    ASSUME NEW schema, DOMAIN schema = {"type", "enum"}, schema.type = "string",
           NEW names, schema.enum.go = "[]any",
           Members(schema.enum) = {String(Name(name)) : name \in names},
           NEW value
    PROVE  AcceptsField(schema, value) <=> OneOf(value, names)
<1>1. \A name : String(Name(name)).kind = "string" /\ ~IsNumber(String(Name(name)))
  BY DEF String, IsNumber
<1>2. Listed(schema, value) <=> OneOf(value, names)
  BY <1>1 DEF Listed, Has, Equal, OneOf
<1>3. OneOf(value, names) => value.kind = "string"
  BY <1>1 DEF OneOf
<1>4. LengthAllowed(schema, value.text)
  BY DEF LengthAllowed, AtMost, AtLeast, Has
<1>5. AcceptsType(schema, value) <=> value.kind = "string"
  BY <1>4 DEF AcceptsType, Has
<1> QED BY <1>2, <1>3, <1>5 DEF AcceptsField, AcceptsItself, Parts, Has

(* A closed object: its fields are declared, the required one is there,    *)
(* and each is accepted.                                                   *)
LEMMA ObjectSchema ==
    ASSUME NEW schema, DOMAIN schema = {"type", "properties", "required", "additionalProperties"},
           schema.type = "object", schema.additionalProperties = FALSE,
           NEW key, schema.required.go = "[]any", Members(schema.required) = {key},
           NEW value, value.kind = "object"
    PROVE  Accepts(schema, value) <=>
               /\ key \in DOMAIN value.fields /\ DOMAIN value.fields \subseteq DOMAIN schema.properties
               /\ \A name \in DOMAIN value.fields :
                      AcceptsField(schema.properties[name], value.fields[name])
<1> DEFINE fields == value.fields
<1>1. Listed(schema, value)
  BY DEF Listed, Has
<1>2. AcceptsItself(schema, value) <=> AcceptsObject(schema, fields)
  BY <1>1 DEF AcceptsItself, AcceptsType, Has
<1>3. AcceptsObject(schema, fields) <=>
          {key} \subseteq DOMAIN fields /\ DOMAIN fields \subseteq DOMAIN schema.properties
  BY DEF AcceptsObject, Has, Declared
<1>4. Parts(schema, value) =
          {Part(schema.properties[name], fields[name]) :
              name \in DOMAIN fields \cap DOMAIN schema.properties}
  BY DEF Parts, Has, Declared
<1>5. (\A part \in Parts(schema, value) : AcceptsField(part.schema, part.value)) <=>
          \A name \in DOMAIN fields \cap DOMAIN schema.properties :
              AcceptsField(schema.properties[name], fields[name])
  <2>1. \A name : /\ Part(schema.properties[name], fields[name]).schema = schema.properties[name]
                 /\ Part(schema.properties[name], fields[name]).value = fields[name]
    BY DEF Part
  <2>2. \A part : part \in Parts(schema, value) <=>
            \E name \in DOMAIN fields \cap DOMAIN schema.properties :
                part = Part(schema.properties[name], fields[name])
    BY <1>4
  <2> HIDE DEF fields
  <2>3. ASSUME NEW name \in DOMAIN fields \cap DOMAIN schema.properties
        PROVE  Part(schema.properties[name], fields[name]) \in Parts(schema, value)
    BY <2>2
  <2>4. ASSUME NEW part \in Parts(schema, value)
        PROVE  \E name \in DOMAIN fields \cap DOMAIN schema.properties :
                   part.schema = schema.properties[name] /\ part.value = fields[name]
    BY <2>1, <2>2
  <2> QED BY <2>1, <2>3, <2>4
<1> QED BY <1>2, <1>3, <1>5 DEF Accepts

(* What encoding and decoding leave of a field's schema.                   *)
LEMMA FieldOverTheWire ==
    ASSUME NEW schema
    PROVE  LET sent == RewrittenField(schema)
           IN  /\ DOMAIN sent = DOMAIN schema
               /\ "type" \in DOMAIN schema => sent.type = schema.type
               /\ "enum" \in DOMAIN schema =>
                      sent.enum = AnyList([i \in 1..Len(schema.enum.items) |-> Rewritten(schema.enum.items[i])])
  BY DEF RewrittenField, RewrittenEntry

(* An int is a number, before and after.                                   *)
LEMMA IntOverTheWire ==
    ASSUME NEW n
    PROVE  /\ IsNumber(GoInt(n)) /\ GoInt(n).double = 2 * n
           /\ IsNumber(Rewritten(GoInt(n))) /\ Rewritten(GoInt(n)).double = 2 * n
  BY DEF GoInt, Number, Rewritten, IsNumber

(* The limits in it are numbers written anew. *)
LEMMA LimitOverTheWire ==
    ASSUME NEW schema, NEW key \in {"minimum", "maximum", "minLength", "maxLength"} \cap DOMAIN schema
    PROVE  RewrittenField(schema)[key] = Rewritten(schema[key])
  BY DEF RewrittenField, RewrittenEntry

(* Each kind of field of the tools' schemas accepts the same values, as it *)
(* is in Go and as it comes out of JSON: integers in a range, ...          *)
LEMMA IntegerField ==
    ASSUME NEW min, NEW max, NEW value
    PROVE  /\ AcceptsField(IntField(min, max), value) <=> IntegerIn(value, min, max)
           /\ AcceptsField(RewrittenField(IntField(min, max)), value) <=> IntegerIn(value, min, max)
<1> DEFINE schema == IntField(min, max)
           sent == RewrittenField(schema)
<1>1. /\ DOMAIN schema = {"type", "minimum", "maximum"} /\ schema.type = "integer"
      /\ schema.minimum = GoInt(min) /\ schema.maximum = GoInt(max)
  BY DEF IntField
<1> HIDE DEF schema
<1>2. /\ DOMAIN sent = {"type", "minimum", "maximum"} /\ sent.type = "integer"
      /\ sent.minimum = Rewritten(GoInt(min)) /\ sent.maximum = Rewritten(GoInt(max))
  <2>1. DOMAIN sent = {"type", "minimum", "maximum"} /\ sent.type = "integer"
    BY <1>1, FieldOverTheWire
  <2>2. sent["minimum"] = Rewritten(schema["minimum"]) /\ sent["maximum"] = Rewritten(schema["maximum"])
    BY <1>1, LimitOverTheWire
  <2> QED BY <1>1, <2>1, <2>2
<1> HIDE DEF sent
<1>3. AcceptsField(schema, value) <=> IntegerIn(value, min, max)
  BY <1>1, IntOverTheWire, IntegerSchema
<1>4. AcceptsField(sent, value) <=> IntegerIn(value, min, max)
  BY <1>2, IntOverTheWire, IntegerSchema
<1> QED BY <1>3, <1>4 DEF schema, sent

(* ... booleans, ... *)
LEMMA BooleanField ==
    ASSUME NEW value
    PROVE  /\ AcceptsField([type |-> "boolean"], value) <=> value.kind = "boolean"
           /\ AcceptsField(RewrittenField([type |-> "boolean"]), value) <=> value.kind = "boolean"
<1> DEFINE schema == [type |-> "boolean"]
           sent == RewrittenField(schema)
<1>1. DOMAIN schema = {"type"} /\ schema.type = "boolean"
  OBVIOUS
<1> HIDE DEF schema
<1>2. DOMAIN sent = {"type"} /\ sent.type = "boolean"
  BY <1>1, FieldOverTheWire
<1> HIDE DEF sent
<1>3. /\ AcceptsField(schema, value) <=> value.kind = "boolean"
      /\ AcceptsField(sent, value) <=> value.kind = "boolean"
  BY <1>1, <1>2, BooleanSchema
<1> QED BY <1>3 DEF schema, sent

(* ... texts up to a length in bytes, ... *)
LEMMA TextField ==
    ASSUME NEW max, NEW value
    PROVE  LET schema == [type |-> "string", maxLength |-> GoInt(max)]
           IN  /\ AcceptsField(schema, value) <=> TextUpTo(value, max)
               /\ AcceptsField(RewrittenField(schema), value) <=> TextUpTo(value, max)
<1> DEFINE schema == [type |-> "string", maxLength |-> GoInt(max)]
           sent == RewrittenField(schema)
<1>1. DOMAIN schema = {"type", "maxLength"} /\ schema.type = "string" /\ schema.maxLength = GoInt(max)
  OBVIOUS
<1> HIDE DEF schema
<1>2. DOMAIN sent = {"type", "maxLength"} /\ sent.type = "string" /\ sent.maxLength = Rewritten(GoInt(max))
  <2>1. DOMAIN sent = {"type", "maxLength"} /\ sent.type = "string"
    BY <1>1, FieldOverTheWire
  <2>2. sent["maxLength"] = Rewritten(schema["maxLength"])
    BY <1>1, LimitOverTheWire
  <2> QED BY <1>1, <2>1, <2>2
<1> HIDE DEF sent
<1>3. AcceptsField(schema, value) <=> TextUpTo(value, max)
  BY <1>1, IntOverTheWire, TextSchema
<1>4. AcceptsField(sent, value) <=> TextUpTo(value, max)
  BY <1>2, IntOverTheWire, TextSchema
<1> QED BY <1>3, <1>4 DEF schema, sent

(* ... texts that are not empty either, ... *)
LEMMA QueryField ==
    ASSUME NEW max, NEW value
    PROVE  LET schema == [type |-> "string", minLength |-> GoInt(1), maxLength |-> GoInt(max)]
               wanted == TextUpTo(value, max) /\ 2 * value.text.bytes >= 2 * 1
           IN  /\ AcceptsField(schema, value) <=> wanted
               /\ AcceptsField(RewrittenField(schema), value) <=> wanted
<1> DEFINE schema == [type |-> "string", minLength |-> GoInt(1), maxLength |-> GoInt(max)]
           sent == RewrittenField(schema)
           wanted == TextUpTo(value, max) /\ 2 * value.text.bytes >= 2 * 1
<1>1. /\ DOMAIN schema = {"type", "minLength", "maxLength"} /\ schema.type = "string"
      /\ schema.minLength = GoInt(1) /\ schema.maxLength = GoInt(max)
  OBVIOUS
<1> HIDE DEF schema
<1>2. /\ DOMAIN sent = {"type", "minLength", "maxLength"} /\ sent.type = "string"
      /\ sent.minLength = Rewritten(GoInt(1)) /\ sent.maxLength = Rewritten(GoInt(max))
  <2>1. DOMAIN sent = {"type", "minLength", "maxLength"} /\ sent.type = "string"
    BY <1>1, FieldOverTheWire
  <2>2. sent["minLength"] = Rewritten(schema["minLength"]) /\ sent["maxLength"] = Rewritten(schema["maxLength"])
    BY <1>1, LimitOverTheWire
  <2> QED BY <1>1, <2>1, <2>2
<1> HIDE DEF sent
<1>3. AcceptsField(schema, value) <=> wanted
  BY <1>1, IntOverTheWire, QuerySchema
<1>4. AcceptsField(sent, value) <=> wanted
  BY <1>2, IntOverTheWire, QuerySchema
<1> QED BY <1>3, <1>4 DEF schema, sent

(* ... and texts of a list, which are encoded as they are, while the list  *)
(* is one of anything afterwards.                                          *)
LEMMA EnumField ==
    ASSUME NEW names, NEW items, Members(AnyList(items)) = {String(Name(name)) : name \in names},
           Len(items) \in Nat, NEW value
    PROVE  LET schema == [type |-> "string", enum |-> AnyList(items)]
           IN  /\ AcceptsField(schema, value) <=> OneOf(value, names)
               /\ AcceptsField(RewrittenField(schema), value) <=> OneOf(value, names)
<1> DEFINE schema == [type |-> "string", enum |-> AnyList(items)]
           sent == RewrittenField(schema)
<1>1. DOMAIN schema = {"type", "enum"} /\ schema.type = "string" /\ schema.enum = AnyList(items)
  OBVIOUS
<1>2. AnyList(items).go = "[]any" /\ AnyList(items).items = items
  BY DEF AnyList
<1>3. \A i \in 1..Len(items) : Rewritten(items[i]) = items[i]
  <2> SUFFICES ASSUME NEW i \in 1..Len(items) PROVE Rewritten(items[i]) = items[i]
    OBVIOUS
  <2>1. items[i] \in Members(AnyList(items))
    BY <1>2 DEF Members
  <2> QED BY <2>1 DEF Rewritten, String
<1> HIDE DEF schema
<1>4. DOMAIN sent = {"type", "enum"} /\ sent.type = "string"
      /\ sent.enum = AnyList([i \in 1..Len(items) |-> Rewritten(items[i])])
  BY <1>1, <1>2, FieldOverTheWire
<1> HIDE DEF sent
<1>5. sent.enum.go = "[]any" /\ sent.enum.items = [i \in 1..Len(items) |-> Rewritten(items[i])]
  BY <1>4 DEF AnyList
<1>6. Members(sent.enum) = Members(AnyList(items))
  <2>1. Len(sent.enum.items) = Len(items)
    BY <1>5
  <2>2. \A i \in 1..Len(items) : sent.enum.items[i] = items[i]
    BY <1>3, <1>5
  <2> QED BY <1>2, <2>1, <2>2 DEF Members
<1>7. AcceptsField(schema, value) <=> OneOf(value, names)
  BY <1>1, <1>2, EnumSchema
<1>8. AcceptsField(sent, value) <=> OneOf(value, names)
  BY <1>4, <1>5, <1>6, EnumSchema
<1> QED BY <1>7, <1>8 DEF schema, sent

(* What the two tools ask of a call (inputSchemaBrowse, inputSchemaSearch; *)
(* server.go:116-172).                                                     *)
FieldsOf(tool) ==
    IF tool = "browse_url" THEN {"url", "max_text_chars", "capture_screenshot", "screenshot_mode"}
    ELSE {"query", "max_results", "engine"}
KeyOf(tool) == IF tool = "browse_url" THEN "url" ELSE "query"
FieldAllowed(name, value) ==
    CASE name = "url" -> TextUpTo(value, MaxURLLength)
      [] name = "query" -> TextUpTo(value, MaxSearchQueryRunes) /\ 2 * value.text.bytes >= 2 * 1
      [] name = "max_text_chars" -> IntegerIn(value, 1, AllowedTextChars)
      [] name = "max_results" -> IntegerIn(value, 1, AllowedResults)
      [] name = "capture_screenshot" -> value.kind = "boolean"
      [] name = "screenshot_mode" -> OneOf(value, {"viewport", "full_page"})
      [] name = "engine" -> OneOf(value, {"duckduckgo"})
ArgumentsAllowed(tool, fields) ==
    /\ KeyOf(tool) \in DOMAIN fields /\ DOMAIN fields \subseteq FieldsOf(tool)
    /\ \A name \in DOMAIN fields : FieldAllowed(name, fields[name])

(* So for every field of the two tools (server.go:116-172). *)
LEMMA FieldSchemas ==
    ASSUME NEW tool \in {"browse_url", "search_web"}, NEW name \in FieldsOf(tool), NEW value
    PROVE  LET schema == InputSchema(tool).properties[name]
           IN  /\ AcceptsField(schema, value) <=> FieldAllowed(name, value)
               /\ AcceptsField(RewrittenField(schema), value) <=> FieldAllowed(name, value)
<1> DEFINE schema == InputSchema(tool).properties[name]
<1>1. CASE tool = "browse_url"
  <2>1. CASE name = "url"
    <3>1. schema = [type |-> "string", maxLength |-> GoInt(MaxURLLength)]
      BY <1>1, <2>1 DEF InputSchema, InputSchemaBrowse, Closed
    <3> HIDE DEF schema
    <3>2. /\ AcceptsField(schema, value) <=> FieldAllowed(name, value)
          /\ AcceptsField(RewrittenField(schema), value) <=> FieldAllowed(name, value)
      BY <2>1, <3>1, TextField DEF FieldAllowed
    <3> QED BY <3>2 DEF schema
  <2>2. CASE name = "max_text_chars"
    <3>1. schema = IntField(1, AllowedTextChars)
      BY <1>1, <2>2 DEF InputSchema, InputSchemaBrowse, Closed
    <3> HIDE DEF schema
    <3>2. /\ AcceptsField(schema, value) <=> FieldAllowed(name, value)
          /\ AcceptsField(RewrittenField(schema), value) <=> FieldAllowed(name, value)
      BY <2>2, <3>1, IntegerField DEF FieldAllowed
    <3> QED BY <3>2 DEF schema
  <2>3. CASE name = "capture_screenshot"
    <3>1. schema = [type |-> "boolean"]
      BY <1>1, <2>3 DEF InputSchema, InputSchemaBrowse, Closed
    <3> HIDE DEF schema
    <3>2. /\ AcceptsField(schema, value) <=> FieldAllowed(name, value)
          /\ AcceptsField(RewrittenField(schema), value) <=> FieldAllowed(name, value)
      BY <2>3, <3>1, BooleanField DEF FieldAllowed
    <3> QED BY <3>2 DEF schema
  <2>4. CASE name = "screenshot_mode"
    <3> DEFINE items == <<String(Name("viewport")), String(Name("full_page"))>>
    <3>1. schema = [type |-> "string", enum |-> AnyList(items)]
      BY <1>1, <2>4 DEF InputSchema, InputSchemaBrowse, Closed
    <3>2. Members(AnyList(items)) = {String(Name(mode)) : mode \in {"viewport", "full_page"}}
      BY DEF Members, AnyList
    <3>3. Len(items) \in Nat
      OBVIOUS
    <3> HIDE DEF schema, items
    <3>4. /\ AcceptsField(schema, value) <=> OneOf(value, {"viewport", "full_page"})
          /\ AcceptsField(RewrittenField(schema), value) <=> OneOf(value, {"viewport", "full_page"})
      BY <3>1, <3>2, <3>3, EnumField
    <3>5. FieldAllowed(name, value) <=> OneOf(value, {"viewport", "full_page"})
      BY <2>4 DEF FieldAllowed
    <3> QED BY <3>4, <3>5 DEF schema
  <2> QED BY <1>1, <2>1, <2>2, <2>3, <2>4 DEF FieldsOf
<1>2. CASE tool = "search_web"
  <2>1. CASE name = "query"
    <3>1. schema = [type |-> "string", minLength |-> GoInt(1), maxLength |-> GoInt(MaxSearchQueryRunes)]
      BY <1>2, <2>1 DEF InputSchema, InputSchemaSearch, Closed
    <3> HIDE DEF schema
    <3>2. /\ AcceptsField(schema, value) <=> FieldAllowed(name, value)
          /\ AcceptsField(RewrittenField(schema), value) <=> FieldAllowed(name, value)
      BY <2>1, <3>1, QueryField DEF FieldAllowed
    <3> QED BY <3>2 DEF schema
  <2>2. CASE name = "max_results"
    <3>1. schema = IntField(1, AllowedResults)
      BY <1>2, <2>2 DEF InputSchema, InputSchemaSearch, Closed
    <3> HIDE DEF schema
    <3>2. /\ AcceptsField(schema, value) <=> FieldAllowed(name, value)
          /\ AcceptsField(RewrittenField(schema), value) <=> FieldAllowed(name, value)
      BY <2>2, <3>1, IntegerField DEF FieldAllowed
    <3> QED BY <3>2 DEF schema
  <2>3. CASE name = "engine"
    <3> DEFINE items == <<String(Name("duckduckgo"))>>
    <3>1. schema = [type |-> "string", enum |-> AnyList(items)]
      BY <1>2, <2>3 DEF InputSchema, InputSchemaSearch, Closed
    <3>2. Members(AnyList(items)) = {String(Name(engine)) : engine \in {"duckduckgo"}}
      BY DEF Members, AnyList
    <3>3. Len(items) \in Nat
      OBVIOUS
    <3> HIDE DEF schema, items
    <3>4. /\ AcceptsField(schema, value) <=> OneOf(value, {"duckduckgo"})
          /\ AcceptsField(RewrittenField(schema), value) <=> OneOf(value, {"duckduckgo"})
      BY <3>1, <3>2, <3>3, EnumField
    <3>5. FieldAllowed(name, value) <=> OneOf(value, {"duckduckgo"})
      BY <2>3 DEF FieldAllowed
    <3> QED BY <3>4, <3>5 DEF schema
  <2> QED BY <1>2, <2>1, <2>2, <2>3 DEF FieldsOf
<1> QED BY <1>1, <1>2

(* The schema that was never encoded and the one that was accept the same  *)
(* arguments (server.go:189, toolcall.go:99-103).                          *)
LEMMA SchemasAgree ==
    ASSUME NEW tool \in {"browse_url", "search_web"}, NEW value, value.kind = "object"
    PROVE  /\ Accepts(InputSchema(tool), value) <=> ArgumentsAllowed(tool, value.fields)
           /\ Accepts(OverTheWire(InputSchema(tool)), value) <=> ArgumentsAllowed(tool, value.fields)
<1> DEFINE schema == InputSchema(tool)
           sent == OverTheWire(schema)
           key == KeyOf(tool)
<1>1. /\ DOMAIN schema = {"type", "properties", "required", "additionalProperties"}
      /\ schema.type = "object" /\ schema.additionalProperties = FALSE
      /\ schema.required = AnyList(<<key>>) /\ DOMAIN schema.properties = FieldsOf(tool)
  BY DEF InputSchema, InputSchemaBrowse, InputSchemaSearch, Closed, Require, KeyOf, FieldsOf
<1>2. /\ AnyList(<<key>>).go = "[]any" /\ Members(AnyList(<<key>>)) = {key}
      /\ AnyList(<<key>>).items = <<key>>
  BY DEF AnyList, Members
<1>3. /\ DOMAIN sent = {"type", "properties", "required", "additionalProperties"}
      /\ sent.type = "object" /\ sent.additionalProperties = FALSE
      /\ sent.required = AnyList(<<key>>)
      /\ sent.properties = [name \in FieldsOf(tool) |-> RewrittenField(schema.properties[name])]
  <2> HIDE DEF schema, key
  <2>1. RewrittenList(schema.required) = AnyList(<<key>>)
    BY <1>1, <1>2 DEF RewrittenList, AnyList
  <2> QED BY <1>1, <2>1 DEF OverTheWire, RewrittenEntry
<1>4. \A name \in FieldsOf(tool) : \A field :
          /\ AcceptsField(schema.properties[name], field) <=> FieldAllowed(name, field)
          /\ AcceptsField(RewrittenField(schema.properties[name]), field) <=> FieldAllowed(name, field)
  BY FieldSchemas
<1> HIDE DEF schema, sent
<1>5. Accepts(schema, value) <=> ArgumentsAllowed(tool, value.fields)
  <2>1. Accepts(schema, value) <=>
            /\ key \in DOMAIN value.fields /\ DOMAIN value.fields \subseteq FieldsOf(tool)
            /\ \A name \in DOMAIN value.fields : AcceptsField(schema.properties[name], value.fields[name])
    BY <1>1, <1>2, ObjectSchema
  <2> QED BY <1>4, <2>1 DEF ArgumentsAllowed
<1>6. Accepts(sent, value) <=> ArgumentsAllowed(tool, value.fields)
  <2>1. DOMAIN sent.properties = FieldsOf(tool)
    BY <1>3
  <2>2. Accepts(sent, value) <=>
            /\ key \in DOMAIN value.fields /\ DOMAIN value.fields \subseteq FieldsOf(tool)
            /\ \A name \in DOMAIN value.fields : AcceptsField(sent.properties[name], value.fields[name])
    BY <1>2, <1>3, <2>1, ObjectSchema
  <2>3. \A name \in FieldsOf(tool) : \A field :
            AcceptsField(sent.properties[name], field) <=> FieldAllowed(name, field)
    BY <1>3, <1>4
  <2> QED BY <2>2, <2>3 DEF ArgumentsAllowed
<1> QED BY <1>5, <1>6 DEF schema, sent

RawAllowed(tool, raw) ==
    Decoded(raw).kind = "object" /\ ArgumentsAllowed(tool, Decoded(raw).fields)

(* The same of arguments that are yet to be decoded (jsonschema.go:18-32). *)
LEMMA RawAgrees ==
    ASSUME NEW tool \in {"browse_url", "search_web"}, NEW raw
    PROVE  /\ AcceptsRaw(InputSchema(tool), raw) <=> RawAllowed(tool, raw)
           /\ AcceptsRaw(OverTheWire(InputSchema(tool)), raw) <=> RawAllowed(tool, raw)
  BY SchemasAgree DEF AcceptsRaw, RawAllowed

(* What is decoded of a call: measured fields, or none.                    *)
LEMMA DecodedFields ==
    ASSUME NEW proposal \in Proposals, Decoded(proposal.raw).kind = "object"
    PROVE  \A key \in DOMAIN Decoded(proposal.raw).fields : Measured(Decoded(proposal.raw).fields[key])
<1>1. CASE proposal.raw.kind \in {"absent", "null"}
  <2>1. Decoded(proposal.raw).fields = [key \in {} |-> Null]
    BY <1>1 DEF Decoded, Object, NoFields
  <2>2. DOMAIN Decoded(proposal.raw).fields = {}
    BY <2>1
  <2> QED BY <2>2
<1>2. CASE proposal.raw.kind \notin {"absent", "null"}
  <2>1. Decoded(proposal.raw) = proposal.raw
    BY <1>2 DEF Decoded
  <2> QED BY <2>1, ProposalsAssumption
<1> QED BY <1>1, <1>2

(* What the server accepts is within the agent's own limits                *)
(* (toolcall.go:107-113).                                                  *)
LEMMA AllowedIsRequested ==
    ASSUME call \in Proposals, RawAllowed(call.tool, call.raw)
    PROVE  /\ WithinRequested(Decoded(call.raw).fields, "max_text_chars", RequestedTextChars)
           /\ WithinRequested(Decoded(call.raw).fields, "max_results", RequestedResults)
<1> DEFINE fields == Decoded(call.raw).fields
<1>1. call.tool \in {"browse_url", "search_web"}
  BY ProposalsAssumption
<1>2. \A key \in DOMAIN fields : FieldAllowed(key, fields[key]) /\ Measured(fields[key])
  BY DecodedFields DEF RawAllowed, ArgumentsAllowed
<1> HIDE DEF fields
<1>3. ASSUME NEW max \in Nat, NEW above \in Nat, max <= above, NEW value, Measured(value),
             IntegerIn(value, 1, max)
      PROVE  IsInteger(value) /\ value.double <= 2 * above
  <2>1. value.double \in Int
    BY <1>3 DEF IntegerIn, IsInteger, IsNumber, Measured
  <2> QED BY <1>3, <2>1 DEF IntegerIn
<1>4. WithinRequested(fields, "max_text_chars", RequestedTextChars)
  <2> SUFFICES ASSUME "max_text_chars" \in DOMAIN fields
               PROVE  IsInteger(fields["max_text_chars"])
                      /\ fields["max_text_chars"].double <= 2 * RequestedTextChars
    BY DEF WithinRequested
  <2>1. IntegerIn(fields["max_text_chars"], 1, AllowedTextChars)
    BY <1>2 DEF FieldAllowed
  <2> QED BY <1>2, <1>3, <2>1, BoundsAssumption
<1>5. WithinRequested(fields, "max_results", RequestedResults)
  <2> SUFFICES ASSUME "max_results" \in DOMAIN fields
               PROVE  IsInteger(fields["max_results"])
                      /\ fields["max_results"].double <= 2 * RequestedResults
    BY DEF WithinRequested
  <2>1. IntegerIn(fields["max_results"], 1, AllowedResults)
    BY <1>2 DEF FieldAllowed
  <2> QED BY <1>2, <1>3, <2>1, BoundsAssumption
<1> QED BY <1>4, <1>5 DEF fields

(* So validateCall lets through what the server accepts, but for null.     *)
LEMMA ValidatedIsAccepted ==
    ASSUME call \in Proposals
    PROVE  /\ ValidateCall => AcceptsRaw(InputSchema(call.tool), call.raw)
           /\ AcceptsRaw(InputSchema(call.tool), call.raw) => ValidateCall \/ call.raw.kind = "null"
<1>1. call.tool \in {"browse_url", "search_web"}
  BY ProposalsAssumption
<1>2. AcceptsRaw(InputSchema(call.tool), call.raw) <=> RawAllowed(call.tool, call.raw)
  BY <1>1, RawAgrees
<1>3. AcceptsRaw(OverTheWire(InputSchema(call.tool)), call.raw) <=> RawAllowed(call.tool, call.raw)
  BY <1>1, RawAgrees
<1>4. RawAllowed(call.tool, call.raw) => call.raw.kind \in {"absent", "null", "object"}
  BY DEF RawAllowed, Decoded
<1> QED BY <1>2, <1>3, <1>4, AllowedIsRequested DEF ValidateCall

-----------------------------------------------------------------------------
(* Every limit is positive, whatever the server was made with              *)
(* (normalizeLimits, browser.go:624-660).                                  *)
LimitsInv == limits \in [LimitNames -> Nat \ {0}]

(* A limit that is not positive becomes the default (browser.go:624-660). *)
LEMMA PositiveLimits ==
    ASSUME NEW given \in Configured
    PROVE  NormalizeLimits(given) \in [LimitNames -> Nat \ {0}]
<1> DEFINE filled == [key \in DOMAIN Defaults |-> Positive(given[key], Defaults[key])]
<1>1. filled \in [LimitNames -> Nat \ {0}]
  <2>1. DOMAIN Defaults = LimitNames
    BY LimitsAssumption
  <2>2. ASSUME NEW key \in LimitNames PROVE Positive(given[key], Defaults[key]) \in Nat \ {0}
    <3>1. given[key] \in Int /\ Defaults[key] \in Nat \ {0}
      BY LimitsAssumption
    <3> QED BY <3>1 DEF Positive
  <2> QED BY <2>1, <2>2
<1> HIDE DEF filled
<1>2. \A a, b \in Nat \ {0} : AtMostLimit(a, b) \in Nat \ {0}
  BY DEF AtMostLimit
<1>3. /\ AtMostLimit(filled.textChars, filled.maxTextChars) \in Nat \ {0}
      /\ AtMostLimit(filled.results, filled.maxResults) \in Nat \ {0}
  BY <1>1, <1>2 DEF LimitNames
<1>4. NormalizeLimits(given) =
          [filled EXCEPT !.textChars = AtMostLimit(filled.textChars, filled.maxTextChars),
                         !.results = AtMostLimit(filled.results, filled.maxResults)]
  BY <1>1 DEF NormalizeLimits, filled, LimitNames
<1> QED BY <1>1, <1>3, <1>4

(* A text has no more characters than bytes, and trimming adds none.       *)
LEMMA TrimmedText ==
    ASSUME NEW text \in Texts
    PROVE  /\ Trim(text) \in Texts
           /\ Trim(text).runes <= text.bytes /\ Trim(text).bytes <= text.bytes
<1>1. /\ text.name \in STRING /\ text.runes \in Nat /\ text.width \in Nat \ {0} /\ text.pad \in Nat
      /\ text.bytes \in Nat /\ text.pad <= text.runes
      /\ text.bytes = text.pad + (text.runes - text.pad) * text.width
  BY DEF Texts
<1> DEFINE runes == text.runes - text.pad
<1>2. runes \in Nat
  BY <1>1
<1>3. Trim(text) = [name |-> text.name, runes |-> runes, width |-> text.width, pad |-> 0,
                    bytes |-> 0 + (runes - 0) * text.width]
  BY DEF Trim, Words
<1> HIDE DEF runes
<1>4. \A a \in Nat : \A w \in Nat \ {0} : a * w \in Nat /\ a <= a * w
  OBVIOUS
<1>5. runes * text.width \in Nat /\ runes <= runes * text.width
  BY <1>1, <1>2, <1>4
<1>6. runes - 0 = runes /\ 0 + runes * text.width = runes * text.width
  BY <1>2, <1>5
<1>7. Trim(text) = [name |-> text.name, runes |-> runes, width |-> text.width, pad |-> 0,
                    bytes |-> runes * text.width]
  BY <1>3, <1>6
<1>8. text.bytes = text.pad + runes * text.width
  BY <1>1 DEF runes
<1>9. Trim(text).runes <= text.bytes /\ Trim(text).bytes <= text.bytes
  <2>1. runes * text.width <= text.bytes
    BY <1>1, <1>5, <1>8
  <2>2. runes <= text.bytes
    BY <1>1, <1>2, <1>5, <2>1
  <2> QED BY <1>7, <2>1, <2>2
<1>10. Trim(text) \in Texts
  <2>1. 0 <= runes /\ runes * text.width = 0 + (runes - 0) * text.width
    BY <1>2, <1>5, <1>6
  <2> QED BY <1>1, <1>2, <1>5, <1>7, <2>1 DEF Texts
<1> QED BY <1>9, <1>10

(* What Browse and Search may rely on in a request (browser.go:164-171,    *)
(* 356-385).                                                               *)
UsableRequest ==
    /\ request.tool = call.tool /\ request.max \in Nat /\ request.max >= 1
    /\ call.tool = "browse_url" => request.max <= limits.maxTextChars
    /\ call.tool = "search_web" =>
           /\ request.max <= limits.maxResults
           /\ request.query = Trim(Decoded(call.raw).fields.query.text)
           /\ SearchURLLength(request.query) <= MaxURLLength

(* An optional limit becomes one between 1 and the most the server allows. *)
LEMMA RequestedLimit ==
    ASSUME NEW fields, NEW key, key \in DOMAIN fields => Measured(fields[key]),
           NEW default \in Nat \ {0}, NEW max \in Nat \ {0}
    PROVE  LET limit == AtMostLimit(Positive(OptionalInt(fields, key), default), max)
           IN  limit \in Nat /\ limit >= 1 /\ limit <= max
<1>1. OptionalInt(fields, key) \in Int
  <2>1. CASE key \in DOMAIN fields /\ IsInteger(fields[key])
    <3>1. fields[key].double \in Int
      BY <2>1 DEF Measured, IsInteger, IsNumber
    <3>2. \A d \in Int : d \div 2 \in Int
      OBVIOUS
    <3> QED BY <2>1, <3>1, <3>2 DEF OptionalInt
  <2>2. CASE ~(key \in DOMAIN fields /\ IsInteger(fields[key]))
    BY <2>2 DEF OptionalInt
  <2> QED BY <2>1, <2>2
<1>2. Positive(OptionalInt(fields, key), default) \in Nat \ {0}
  BY <1>1 DEF Positive
<1> QED BY <1>2 DEF AtMostLimit

(* What passes the schema can be carried out (server.go:188-236): the      *)
(* assertions hold, a query is not cut and its address is short enough.    *)
LEMMA AcceptedRequest ==
    ASSUME call \in Proposals, LimitsInv, RawAllowed(call.tool, call.raw)
    PROVE  LET fields == Decoded(call.raw).fields
           IN  /\ Asserted(fields, KeyOf(call.tool))
               /\ call.tool = "browse_url" =>
                      /\ BrowseRequest(fields).tool = "browse_url"
                      /\ BrowseRequest(fields).max \in Nat /\ BrowseRequest(fields).max >= 1
                      /\ BrowseRequest(fields).max <= limits.maxTextChars
               /\ call.tool = "search_web" =>
                      /\ SearchRequest(fields).tool = "search_web"
                      /\ SearchRequest(fields).max \in Nat /\ SearchRequest(fields).max >= 1
                      /\ SearchRequest(fields).max <= limits.maxResults
                      /\ SearchRequest(fields).query = Trim(fields.query.text)
                      /\ SearchURLLength(Trim(fields.query.text)) <= MaxURLLength
<1> DEFINE fields == Decoded(call.raw).fields
<1>1. call.tool \in {"browse_url", "search_web"}
  BY ProposalsAssumption
<1>2. /\ KeyOf(call.tool) \in DOMAIN fields
      /\ \A key \in DOMAIN fields : FieldAllowed(key, fields[key]) /\ Measured(fields[key])
  BY DecodedFields DEF RawAllowed, ArgumentsAllowed
<1> HIDE DEF fields
<1>3. Asserted(fields, KeyOf(call.tool))
  BY <1>1, <1>2 DEF Asserted, KeyOf, FieldAllowed, TextUpTo
<1>4. /\ limits.textChars \in Nat \ {0} /\ limits.maxTextChars \in Nat \ {0}
      /\ limits.results \in Nat \ {0} /\ limits.maxResults \in Nat \ {0}
  BY DEF LimitsInv, LimitNames
<1>5. CASE call.tool = "browse_url"
  <2>1. BrowseRequest(fields).tool = "browse_url"
        /\ BrowseRequest(fields).max =
               AtMostLimit(Positive(OptionalInt(fields, "max_text_chars"), limits.textChars), limits.maxTextChars)
    BY DEF BrowseRequest
  <2>2. /\ BrowseRequest(fields).max \in Nat /\ BrowseRequest(fields).max >= 1
        /\ BrowseRequest(fields).max <= limits.maxTextChars
    BY <1>2, <1>4, <2>1, RequestedLimit
  <2> QED BY <1>3, <1>5, <2>1, <2>2 DEF fields
<1>6. CASE call.tool = "search_web"
  <2>1. /\ SearchRequest(fields).tool = "search_web"
        /\ SearchRequest(fields).query = Cut(Trim(fields.query.text))
        /\ SearchRequest(fields).max =
               AtMostLimit(Positive(OptionalInt(fields, "max_results"), limits.results), limits.maxResults)
    BY DEF SearchRequest
  <2>2. /\ SearchRequest(fields).max \in Nat /\ SearchRequest(fields).max >= 1
        /\ SearchRequest(fields).max <= limits.maxResults
    BY <1>2, <1>4, <2>1, RequestedLimit
  <2> DEFINE text == fields.query.text
  <2>3. text \in Texts /\ 2 * text.bytes <= 2 * MaxSearchQueryRunes
    BY <1>2, <1>6 DEF KeyOf, FieldAllowed, TextUpTo, Measured
  <2>4. /\ text.bytes \in Nat /\ text.bytes <= MaxSearchQueryRunes
        /\ Trim(text).runes \in Nat /\ Trim(text).bytes \in Nat
        /\ Trim(text).runes <= text.bytes /\ Trim(text).bytes <= text.bytes
    <3>1. text.bytes \in Nat /\ Trim(text) \in Texts
      BY <2>3, TrimmedText DEF Texts
    <3>2. Trim(text).runes \in Nat /\ Trim(text).bytes \in Nat
      BY <3>1 DEF Texts
    <3> QED BY <2>3, <3>1, <3>2, TrimmedText, BoundsAssumption
  <2> HIDE DEF text
  <2>5. Cut(Trim(text)) = Trim(text)
    BY <2>4, BoundsAssumption DEF Cut
  <2>6. SearchURLLength(Trim(text)) <= MaxURLLength
    <3>1. SearchPrefix \in Nat /\ MaxSearchQueryRunes \in Nat /\ MaxURLLength \in Nat
          /\ SearchPrefix + 3 * MaxSearchQueryRunes <= MaxURLLength
      BY BoundsAssumption
    <3>2. Trim(text).bytes <= MaxSearchQueryRunes
      BY <2>4, <3>1
    <3> QED BY <2>4, <3>1, <3>2 DEF SearchURLLength
  <2> QED BY <1>3, <1>6, <2>1, <2>2, <2>5, <2>6 DEF fields, text
<1> QED BY <1>1, <1>5, <1>6

(* There is a request once the server has accepted the call.               *)
Underway == pc \in {"target", "browser", "final", "links", "reply"}
Requested ==
    /\ request = NoRequest \/ UsableRequest
    /\ pc \in {"proposed", "called"} => request = NoRequest
    /\ Underway \/ Succeeded => request # NoRequest
(* Who answered, and what that says of the call.                           *)
Judged ==
    /\ pc # "done" => reply = NoReply
    /\ pc # "proposed" /\ reply.by # "agent" /\ call.agent => ValidateCall
    /\ reply.by = "agent" => ~ValidateCall
    /\ reply.by = "server" /\ reply.status = "invalid_arguments" =>
           ~(Readable /\ AcceptsRaw(InputSchema(call.tool), call.raw))
CheckInv ==
    /\ pc \in {"proposed", "called", "done"} \/ Underway
    /\ call \in Proposals /\ LimitsInv
    /\ Requested /\ Judged

(* A call is proposed to a server made with any limits (server.go:32-41). *)
LEMMA InitChecked == Init => CheckInv
<1> SUFFICES ASSUME Init PROVE CheckInv
  OBVIOUS
<1>1. LimitsInv
  BY PositiveLimits DEF Init, LimitsInv
<1>2. Requested
  BY DEF Init, Requested, Underway, Succeeded
<1>3. Judged
  BY DEF Init, Judged, NoReply
<1> QED BY <1>1, <1>2, <1>3 DEF Init, CheckInv

(* An answer with an error of the browser or the policy is none about the  *)
(* arguments (classifyError, server.go:277-297).                           *)
LEMMA ErrorsAreNotArguments ==
    ASSUME NEW cause, Error(cause)
    PROVE  /\ pc' = "done" /\ reply'.by = "server"
           /\ reply'.status \notin {"success", "invalid_arguments"}
<1>1. Classify(cause) \in {"disallowed_destination", "invalid_url", "result_too_large", "timeout", "tool_error"}
  BY DEF Classify
<1>2. reply' = [by |-> "server", status |-> Classify(cause), cause |-> cause] /\ pc' = "done"
  BY DEF Error, Answered
<1> QED BY <1>1, <1>2

(* Every step of the call keeps what has been checked. *)
LEMMA NextChecked == CheckInv /\ [Next]_vars => CheckInv'
<1> SUFFICES ASSUME CheckInv, [Next]_vars PROVE CheckInv'
  OBVIOUS
<1>1. call \in Proposals /\ LimitsInv /\ Requested /\ Judged
  BY DEF CheckInv
(* What a step leaves as it is, when it leaves call, limits and request.   *)
<1>2. ASSUME UNCHANGED <<limits, call>>
      PROVE  /\ (call \in Proposals /\ LimitsInv)' /\ (ValidateCall' <=> ValidateCall)
             /\ Readable' = Readable
             /\ AcceptsRaw(InputSchema(call.tool), call.raw)' = AcceptsRaw(InputSchema(call.tool), call.raw)
             /\ (request' = request => (UsableRequest' <=> UsableRequest))
  BY <1>1, <1>2 DEF LimitsInv, ValidateCall, Readable, UsableRequest
(* A step inside a call, or its end with an answer about something else.   *)
<1>3. ASSUME UNCHANGED <<limits, call, request>>, Underway,
             \/ Underway' /\ reply' = reply
             \/ pc' = "done" /\ reply'.by = "server" /\ reply'.status # "invalid_arguments"
      PROVE  CheckInv'
  <2>1. pc # "proposed" /\ pc # "done" /\ request # NoRequest /\ reply = NoReply
    BY <1>1, <1>3 DEF Requested, Judged, Underway
  <2>2. Requested'
    BY <1>1, <1>2, <1>3, <2>1 DEF Requested, Underway
  <2>3. Judged'
    BY <1>1, <1>2, <1>3, <2>1 DEF Judged, Underway, NoReply
  <2> QED BY <1>2, <1>3, <2>2, <2>3 DEF CheckInv
<1>4. CASE Propose
  <2>1. UNCHANGED <<limits, call, request>> /\ pc = "proposed" /\ request = NoRequest /\ reply = NoReply
    BY <1>1, <1>4 DEF Propose, Requested, Judged
  <2>2. CASE call.agent /\ ~ValidateCall
    <3>1. pc' = "done" /\ reply' = [by |-> "agent", status |-> "invalid_arguments", cause |-> "none"]
      BY <1>4, <2>2 DEF Propose, Answered
    <3>2. Judged'
      BY <1>2, <2>1, <2>2, <3>1 DEF Judged
    <3>3. Requested'
      BY <2>1, <3>1 DEF Requested, Underway, Succeeded
    <3> QED BY <1>2, <2>1, <3>1, <3>2, <3>3 DEF CheckInv
  <2>3. CASE ~(call.agent /\ ~ValidateCall)
    <3>1. pc' = "called" /\ reply' = reply
      BY <1>4, <2>3 DEF Propose
    <3>2. Judged'
      BY <1>2, <2>1, <2>3, <3>1 DEF Judged, NoReply
    <3>3. Requested'
      BY <2>1, <3>1 DEF Requested, Underway, Succeeded
    <3> QED BY <1>2, <2>1, <3>1, <3>2, <3>3 DEF CheckInv
  <2> QED BY <2>2, <2>3
<1>5. CASE Refuse
  <2>1. /\ UNCHANGED <<limits, call, request>> /\ pc = "called" /\ request = NoRequest /\ reply = NoReply
        /\ ~(Readable /\ AcceptsRaw(InputSchema(call.tool), call.raw))
        /\ pc' = "done" /\ reply' = [by |-> "server", status |-> "invalid_arguments", cause |-> "none"]
    BY <1>1, <1>5 DEF Refuse, Requested, Judged, Answered
  <2>2. Judged'
    BY <1>1, <1>2, <2>1 DEF Judged, NoReply
  <2>3. Requested'
    BY <2>1 DEF Requested, Underway, Succeeded
  <2> QED BY <1>2, <2>1, <2>2, <2>3 DEF CheckInv
<1>6. CASE Accept
  <2> DEFINE fields == Decoded(call.raw).fields
  <2>1. /\ UNCHANGED <<limits, call, reply>> /\ pc = "called" /\ reply = NoReply
        /\ AcceptsRaw(InputSchema(call.tool), call.raw)
    BY <1>1, <1>6 DEF Accept, Judged
  <2>2. call.tool \in {"browse_url", "search_web"}
    BY <1>1, ProposalsAssumption
  <2>3. RawAllowed(call.tool, call.raw)
    BY <2>1, <2>2, RawAgrees
  <2>4. Asserted(fields, KeyOf(call.tool))
    BY <1>1, <2>3, AcceptedRequest
  <2>5. /\ pc' = "target"
        /\ request' = IF call.tool = "browse_url" THEN BrowseRequest(fields) ELSE SearchRequest(fields)
    BY <1>6, <2>4 DEF Accept, KeyOf
  <2>6. UsableRequest'
    <3>1. CASE call.tool = "browse_url"
      <4>1. /\ BrowseRequest(fields).tool = "browse_url"
            /\ BrowseRequest(fields).max \in Nat /\ BrowseRequest(fields).max >= 1
            /\ BrowseRequest(fields).max <= limits.maxTextChars
        BY <1>1, <2>3, <3>1, AcceptedRequest
      <4>2. request' = BrowseRequest(fields)
        BY <2>5, <3>1
      <4> HIDE DEF fields
      <4> QED BY <2>1, <3>1, <4>1, <4>2 DEF UsableRequest
    <3>2. CASE call.tool = "search_web"
      <4>1. /\ SearchRequest(fields).tool = "search_web"
            /\ SearchRequest(fields).max \in Nat /\ SearchRequest(fields).max >= 1
            /\ SearchRequest(fields).max <= limits.maxResults
            /\ SearchRequest(fields).query = Trim(fields.query.text)
            /\ SearchURLLength(Trim(fields.query.text)) <= MaxURLLength
        BY <1>1, <2>3, <3>2, AcceptedRequest
      <4>2. request' = SearchRequest(fields)
        BY <2>5, <3>2
      <4>3. request'.query = Trim(Decoded(call'.raw).fields.query.text)
        BY <2>1, <4>1, <4>2
      <4> HIDE DEF fields
      <4>4. SearchURLLength(request'.query) <= MaxURLLength
        BY <4>1, <4>2
      <4> QED BY <2>1, <3>2, <4>1, <4>2, <4>3, <4>4 DEF UsableRequest
    <3> QED BY <2>2, <3>1, <3>2
  <2>7. request' # NoRequest
    <3>1. request'.tool = call.tool
      BY <2>1, <2>6 DEF UsableRequest
    <3> QED BY <2>2, <3>1 DEF NoRequest
  <2>8. Requested'
    BY <2>5, <2>6, <2>7 DEF Requested
  <2>9. Judged'
    BY <1>1, <1>2, <2>1, <2>5 DEF Judged, NoReply
  <2> QED BY <1>2, <2>1, <2>5, <2>8, <2>9 DEF CheckInv, Underway
<1>7. CASE CheckTarget
  <2>1. UNCHANGED <<limits, call, request>> /\ Underway
    BY <1>7 DEF CheckTarget, Underway
  <2>2. PICK verdict \in TargetVerdicts :
            IF verdict = "ok" THEN pc' = "browser" /\ UNCHANGED reply ELSE Error(verdict)
    BY <1>7 DEF CheckTarget
  <2>3. CASE verdict = "ok"
    BY <1>3, <2>1, <2>2, <2>3 DEF Underway
  <2>4. CASE verdict # "ok"
    BY <1>3, <2>1, <2>2, <2>4, ErrorsAreNotArguments
  <2> QED BY <2>3, <2>4
<1>8. CASE SessionFails
  <2>1. UNCHANGED <<limits, call, request>> /\ Underway
    BY <1>8 DEF SessionFails, Underway
  <2>2. PICK cause \in SessionErrors : Error(cause)
    BY <1>8 DEF SessionFails
  <2> QED BY <1>3, <2>1, <2>2, ErrorsAreNotArguments
<1>9. CASE SessionEnds
  BY <1>3, <1>9 DEF SessionEnds, Underway
<1>10. CASE CheckFinal
  <2>1. UNCHANGED <<limits, call, request>> /\ Underway
    BY <1>10 DEF CheckFinal, Underway
  <2>2. \/ \E cause : Error(cause)
        \/ pc' = "links" /\ UNCHANGED reply
    BY <1>10 DEF CheckFinal
  <2> QED BY <1>3, <2>1, <2>2, ErrorsAreNotArguments DEF Underway
<1>11. CASE LinksFull \/ SkipLink \/ CheckLink \/ LinksEnd
  BY <1>3, <1>11 DEF LinksFull, SkipLink, CheckLink, LinksEnd, Underway
<1>12. CASE Reply
  <2>1. UNCHANGED <<limits, call, request>> /\ Underway /\ pc' = "done"
        /\ reply' = [by |-> "server", status |-> "success", cause |-> "none"]
    BY <1>12 DEF Reply, Underway, Answered
  <2> QED BY <1>3, <2>1
<1>13. CASE Terminated \/ UNCHANGED vars
  <2>1. UNCHANGED vars
    BY <1>13 DEF Terminated
  <2>2. UNCHANGED <<limits, call, request, pc, reply>>
    BY <2>1 DEF vars
  <2>3. Requested' /\ Judged'
    BY <1>1, <1>2, <2>2 DEF Requested, Judged, Underway, Succeeded
  <2> QED BY <1>2, <2>2, <2>3 DEF CheckInv, Underway
<1> QED BY <1>4, <1>5, <1>6, <1>7, <1>8, <1>9, <1>10, <1>11, <1>12, <1>13
        DEF Next, Check, Session, Read

(* Whatever a model asks for, the server never stops at an argument it has *)
(* accepted, cuts no query, and asks the browser for no more than its      *)
(* limits (server.go:188-236; browser.go:164-171, 356-385).                *)
THEOREM AcceptedCallsAreUsable == Spec => []AcceptedIsUsable
<1>1. CheckInv => AcceptedIsUsable
  <2> SUFFICES ASSUME CheckInv PROVE AcceptedIsUsable
    OBVIOUS
  <2>1. pc # "panicked"
    BY DEF CheckInv, Underway
  <2>2. CASE request = NoRequest
    BY <2>1, <2>2 DEF AcceptedIsUsable, NoRequest
  <2>3. CASE request # NoRequest
    <3>1. UsableRequest
      BY <2>3 DEF CheckInv, Requested
    <3> QED BY <2>1, <3>1 DEF UsableRequest, AcceptedIsUsable
  <2> QED BY <2>2, <2>3
<1> QED BY <1>1, InitChecked, NextChecked, PTL DEF Spec

(* The agent and the server judge the arguments of every call alike, the   *)
(* one by the schemas in JSON and the other by those in Go                 *)
(* (toolcall.go:92-113, server.go:188-192).                                *)
THEOREM AgentAndServerAgree == Spec => []ChecksAgree
<1>1. CheckInv => ChecksAgree
  <2> SUFFICES ASSUME CheckInv PROVE ChecksAgree
    OBVIOUS
  <2>1. call \in Proposals /\ Judged
    BY DEF CheckInv
  <2>2. ASSUME call.agent, reply.by = "server", reply.status = "invalid_arguments" PROVE call.trailing
    <3>1. pc = "done" /\ reply.by # "agent" /\ ~(Readable /\ AcceptsRaw(InputSchema(call.tool), call.raw))
      BY <2>1, <2>2 DEF Judged, NoReply
    <3>2. AcceptsRaw(InputSchema(call.tool), call.raw)
      BY <2>1, <2>2, <3>1, ValidatedIsAccepted DEF Judged
    <3> QED BY <3>1, <3>2 DEF Readable
  <2>3. reply.by = "agent" => ~AcceptsRaw(InputSchema(call.tool), call.raw) \/ call.raw.kind = "null"
    BY <2>1, ValidatedIsAccepted DEF Judged
  <2> QED BY <2>2, <2>3 DEF ChecksAgree
<1> QED BY <1>1, InitChecked, NextChecked, PTL DEF Spec
-----------------------------------------------------------------------------
(* The loop over the anchors of a page (browser.go:325-341, 579-622). *)
LinkRecords == [url : Texts, rank : Nat, at : Nat]

(* Links stand in the order of the page, and are of anchors gone over.     *)
Ordered ==
    \A i \in 1..Len(links) :
        /\ links[i].rank = i /\ links[i].at \in 1..next-1 /\ links[i].at \in 1..Len(Items)
        /\ links[i].at \notin refused /\ links[i].url = Target(Items[links[i].at])
        /\ \A j \in 1..i-1 : /\ links[j].at < links[i].at
                             /\ call.tool = "search_web" => links[j].url # links[i].url
(* Whatever was cut or left out has been flagged.                          *)
TextsInFull ==
    /\ page.visible.runes <= IF call.tool = "browse_url" THEN request.max ELSE limits.maxTextChars
    /\ call.tool = "browse_url" => ContentOf[page].md.runes <= request.max
Flagged == ~truncated => TextsInFull /\ \A i \in 1..Len(links) : ~LinkClipped(Items[links[i].at])
(* Every anchor gone over is listed, but for those refused and the empty.  *)
Accounted(k) ==
    \/ Target(Items[k]).runes = 0 \/ k \in refused
    \/ \E i \in 1..Len(links) : links[i].url = Target(Items[k])
LoopInv ==
    /\ page \in Pages /\ next \in Nat \ {0} /\ links \in Seq(LinkRecords)
    /\ Len(links) <= MaxLinks /\ refused \subseteq 1..next-1
    /\ Ordered /\ Flagged
    /\ \A k \in 1..Len(Items) : k < next => Accounted(k)
PageInv ==
    /\ pc \in {"proposed", "called", "target", "browser", "final"} =>
           next = 1 /\ links = << >> /\ refused = {}
    /\ pc = "final" => page \in Pages
    /\ pc \in {"links", "reply"} \/ Succeeded => LoopInv
    /\ pc = "reply" \/ Succeeded => truncated \/ next > Len(Items)

(* No link has been read before the page (browser.go:315-330). *)
LEMMA InitPage == Init => PageInv
  BY DEF Init, PageInv, Succeeded, NoReply

(* The numbers the loop compares are numbers. *)
LEMMA LoopTypes ==
    ASSUME CheckInv, page \in Pages, Underway \/ Succeeded
    PROVE  /\ Items \in Seq(Anchors) /\ Len(Items) \in Nat /\ MaxLinks \in Nat
           /\ request.max \in Nat /\ request.max >= 1
           /\ limits.maxTextChars \in Nat /\ limits.maxTextChars >= 1
           /\ page.visible.runes \in Nat /\ ContentOf[page].md.runes \in Nat
<1>1. Items \in Seq(Anchors)
  BY PagesAssumption, CollectType DEF Items
<1>2. UsableRequest /\ LimitsInv
  BY DEF CheckInv, Requested
<1>3. /\ limits.links \in Nat \ {0} /\ limits.maxTextChars \in Nat \ {0}
      /\ request.max \in Nat /\ request.max >= 1
  BY <1>2 DEF LimitsInv, LimitNames, UsableRequest
<1>4. page.visible.runes \in Nat
  BY PagesAssumption DEF MarkdownTexts, Counted
<1>5. ContentOf[page].md.runes \in Nat
  BY ContentType DEF MarkdownTexts, Counted
<1> QED BY <1>1, <1>3, <1>4, <1>5 DEF MaxLinks

(* The texts of the page are flagged when they are cut (browser.go:321-323).*)
LEMMA TextsFlagged ==
    ASSUME CheckInv, PageInv, CheckFinal, pc' = "links"
    PROVE  LoopInv'
<1>1. /\ UNCHANGED <<limits, call, request, page, next, links, refused>>
      /\ page \in Pages /\ next = 1 /\ links = << >> /\ refused = {} /\ Underway
  BY DEF CheckFinal, PageInv, Underway
<1>2. truncated' = IF call.tool = "browse_url" THEN ClipTexts(page, request.max)
                   ELSE Clipped(page.visible.runes, limits.maxTextChars)
  BY DEF CheckFinal, Error
<1>3. MaxLinks \in Nat /\ MaxLinks' = MaxLinks
  BY <1>1, LoopTypes DEF MaxLinks
<1>4. ASSUME ~truncated' PROVE TextsInFull
  <2>1. IF call.tool = "browse_url" THEN ~ClipTexts(page, request.max)
        ELSE ~Clipped(page.visible.runes, limits.maxTextChars)
    BY <1>2, <1>4, Zenon
  <2>2. /\ request.max \in Nat /\ request.max >= 1
        /\ limits.maxTextChars \in Nat /\ limits.maxTextChars >= 1
        /\ page.visible.runes \in Nat /\ ContentOf[page].md.runes \in Nat
    BY <1>1, LoopTypes
  <2>3. \A runes \in Nat : \A max \in Nat : max >= 1 /\ ~Clipped(runes, max) => runes <= max
    BY DEF Clipped
  <2> QED BY <2>1, <2>2, <2>3 DEF ClipTexts, TextsInFull
<1>5. TextsInFull' <=> TextsInFull
  BY <1>1 DEF TextsInFull, ContentOf
<1>6. links' \in Seq(LinkRecords) /\ Len(links') = 0 /\ next' = 1 /\ refused' = {}
  <2>1. << >> \in Seq(LinkRecords) /\ Len(<< >>) = 0
    BY EmptySeq
  <2> QED BY <1>1, <2>1
<1>7. 1..Len(links') = {}
  BY <1>6
<1>8. Ordered'
  BY <1>7 DEF Ordered
<1>9. Flagged'
  BY <1>4, <1>5, <1>7 DEF Flagged
<1>10. \A k \in 1..Len(Items') : ~(k < next')
  <2>1. Items' = Items /\ Len(Items) \in Nat
    BY <1>1, LoopTypes DEF Items
  <2> QED BY <1>6, <2>1
<1>11. Len(links') <= MaxLinks'
  BY <1>3, <1>6
<1>12. (\A k \in 1..Len(Items) : k < next => Accounted(k))'
  BY <1>10
<1> QED BY <1>1, <1>6, <1>8, <1>9, <1>11, <1>12 DEF LoopInv

(* An anchor without an address, or with one that is listed, is passed     *)
(* over (browser.go:588-594).                                              *)
LEMMA SkipKeepsLoop ==
    ASSUME CheckInv, LoopInv, SkipLink
    PROVE  LoopInv'
<1>1. /\ UNCHANGED <<limits, call, request, page, links, refused, truncated>>
      /\ next' = next + 1 /\ next \in Nat /\ next <= Len(Items) /\ pc = "links"
      /\ Target(Items[next]).runes = 0 \/ Seen(Target(Items[next]))
  BY DEF SkipLink, LoopInv
<1>2. Items' = Items /\ MaxLinks' = MaxLinks /\ (TextsInFull' <=> TextsInFull)
  BY <1>1 DEF Items, MaxLinks, TextsInFull, ContentOf
<1>3. next - 1 < next' - 1 /\ 1..next-1 \subseteq 1..next'-1 /\ Len(Items) \in Nat
  BY <1>1, LoopTypes DEF LoopInv, Underway
<1>4. Ordered'
  BY <1>1, <1>2, <1>3 DEF LoopInv, Ordered
<1>5. Flagged'
  BY <1>1, <1>2 DEF LoopInv, Flagged, LinkClipped
<1>6. ASSUME NEW k \in 1..Len(Items), k < next + 1
      PROVE  Accounted(k)'
  <2>1. CASE k = next
    <3>1. Seen(Target(Items[next])) => \E i \in 1..Len(links) : links[i].url = Target(Items[next])
      BY DEF Seen
    <3> QED BY <1>1, <1>2, <2>1, <3>1 DEF Accounted
  <2>2. CASE k # next
    <3>1. Accounted(k)
      BY <1>1, <1>3, <1>6, <2>2 DEF LoopInv
    <3> QED BY <1>1, <1>2, <3>1 DEF Accounted
  <2> QED BY <2>1, <2>2
<1>7. refused' \subseteq 1..next'-1
  BY <1>1, <1>3 DEF LoopInv
<1>8. \A k \in 1..Len(Items') : k < next' => Accounted(k)'
  BY <1>1, <1>2, <1>6
<1>9. (\A k \in 1..Len(Items) : k < next => Accounted(k))'
  BY <1>8
<1> QED BY <1>1, <1>2, <1>4, <1>5, <1>7, <1>9 DEF LoopInv

(* An address is listed with the next rank, or refused (browser.go:595-619)*)
LEMMA CheckKeepsLoop ==
    ASSUME CheckInv, LoopInv, CheckLink
    PROVE  LoopInv'
<1> DEFINE url == Target(Items[next])
<1>1. /\ UNCHANGED <<limits, call, request, page>>
      /\ next' = next + 1 /\ next \in Nat \ {0} /\ next <= Len(Items) /\ pc = "links"
      /\ Len(links) < MaxLinks /\ url.runes > 0 /\ ~Seen(url)
  BY DEF CheckLink, LoopInv
<1>2. Items' = Items /\ MaxLinks' = MaxLinks /\ (TextsInFull' <=> TextsInFull)
  BY <1>1 DEF Items, MaxLinks, TextsInFull, ContentOf
<1>3. 1..next-1 \subseteq 1..next'-1 /\ Len(Items) \in Nat /\ MaxLinks \in Nat /\ Items \in Seq(Anchors)
  BY <1>1, LoopTypes DEF LoopInv, Underway
<1>4. links \in Seq(LinkRecords) /\ Len(links) \in Nat
  BY DEF LoopInv
<1>5. CASE refused' = refused \cup {next} /\ UNCHANGED <<links, truncated>>
  <2>1. next \in 1..next'-1
    BY <1>1
  <2>2. ASSUME NEW i \in 1..Len(links)
        PROVE  links[i].at \in 1..next'-1 /\ links[i].at \notin refused'
    <3>1. links[i].at \in 1..next-1 /\ links[i].at \notin refused
      BY DEF LoopInv, Ordered
    <3> QED BY <1>1, <1>3, <1>5, <3>1
  <2>3. Ordered'
    BY <1>1, <1>2, <1>5, <2>2 DEF LoopInv, Ordered
  <2>4. Flagged'
    BY <1>1, <1>2, <1>5 DEF LoopInv, Flagged, LinkClipped
  <2>5. ASSUME NEW k \in 1..Len(Items), k < next + 1
        PROVE  Accounted(k)'
    <3>1. CASE k = next
      BY <1>5, <3>1 DEF Accounted
    <3>2. CASE k # next
      <4>1. Accounted(k)
        BY <1>1, <1>3, <2>5, <3>2 DEF LoopInv
      <4> QED BY <1>2, <1>5, <4>1 DEF Accounted
    <3> QED BY <3>1, <3>2
  <2>6. (\A k \in 1..Len(Items) : k < next => Accounted(k))'
    BY <1>1, <1>2, <2>5
  <2>7. refused' \subseteq 1..next'-1
    BY <1>1, <1>3, <1>5, <2>1 DEF LoopInv
  <2> QED BY <1>1, <1>2, <1>5, <2>3, <2>4, <2>6, <2>7 DEF LoopInv
<1>6. CASE /\ links' = Append(links, [url |-> url, rank |-> Len(links) + 1, at |-> next])
           /\ truncated' = (truncated \/ LinkClipped(Items[next])) /\ UNCHANGED refused
  <2> DEFINE new == [url |-> url, rank |-> Len(links) + 1, at |-> next]
  <2>1. url \in Texts /\ new \in LinkRecords
    <3>1. Items[next] \in Anchors
      BY <1>1, <1>3
    <3>2. url \in Texts
      BY <3>1, TrimmedText DEF Anchors, Target
    <3> QED BY <1>1, <1>4, <3>2 DEF LinkRecords
  <2> HIDE DEF url, new
  <2>2. /\ links' \in Seq(LinkRecords) /\ Len(links') = Len(links) + 1
        /\ \A i \in 1..Len(links) : links'[i] = links[i]
        /\ links'[Len(links) + 1] = new
    BY <1>4, <1>6, <2>1, AppendProperties DEF new
  <2>3. new.url = url /\ new.rank = Len(links) + 1 /\ new.at = next
    BY DEF new
  <2>4. ASSUME NEW i \in 1..Len(links')
        PROVE  i \in 1..Len(links) \/ i = Len(links) + 1
    BY <1>4, <2>2
  <2>5. next \in 1..next'-1 /\ next \in 1..Len(Items) /\ next \notin refused
    BY <1>1, <1>3 DEF LoopInv
  <2>6. Ordered'
    <3> SUFFICES ASSUME NEW i \in 1..Len(links')
                 PROVE  /\ links'[i].rank = i /\ links'[i].at \in 1..next'-1 /\ links'[i].at \in 1..Len(Items)
                        /\ links'[i].at \notin refused /\ links'[i].url = Target(Items[links'[i].at])
                        /\ \A j \in 1..i-1 :
                               /\ links'[j].at < links'[i].at
                               /\ call.tool = "search_web" => links'[j].url # links'[i].url
      BY <1>1, <1>2, <1>6 DEF Ordered
    <3>1. CASE i \in 1..Len(links)
      <4>1. \A j \in 1..i-1 : j \in 1..Len(links)
        BY <1>4, <3>1
      <4>2. links'[i] = links[i] /\ \A j \in 1..i-1 : links'[j] = links[j]
        BY <2>2, <3>1, <4>1
      <4>3. /\ links[i].rank = i /\ links[i].at \in 1..next-1 /\ links[i].at \in 1..Len(Items)
            /\ links[i].at \notin refused /\ links[i].url = Target(Items[links[i].at])
            /\ \A j \in 1..i-1 : /\ links[j].at < links[i].at
                                 /\ call.tool = "search_web" => links[j].url # links[i].url
        BY <3>1 DEF LoopInv, Ordered
      <4> QED BY <1>3, <4>2, <4>3
    <3>2. CASE i = Len(links) + 1
      <4>1. \A j \in 1..i-1 : j \in 1..Len(links) /\ links'[j] = links[j]
        BY <1>4, <2>2, <3>2
      <4>2. \A j \in 1..Len(links) : links[j].at < next
        BY <1>1 DEF LoopInv, Ordered
      <4>3. call.tool = "search_web" => \A j \in 1..Len(links) : links[j].url # url
        BY <1>1 DEF Seen
      <4> QED BY <2>2, <2>3, <2>5, <3>2, <4>1, <4>2, <4>3 DEF url
    <3> QED BY <2>4, <3>1, <3>2
  <2>7. Flagged'
    <3> SUFFICES ASSUME ~truncated'
                 PROVE  TextsInFull /\ \A i \in 1..Len(links') : ~LinkClipped(Items[links'[i].at])
      BY <1>1, <1>2 DEF Flagged, LinkClipped
    <3>1. ~truncated /\ ~LinkClipped(Items[next])
      BY <1>6
    <3> QED BY <2>2, <2>3, <2>4, <3>1 DEF LoopInv, Flagged
  <2>8. ASSUME NEW k \in 1..Len(Items), k < next + 1
        PROVE  Accounted(k)'
    <3>1. Len(links) + 1 \in 1..Len(links') /\ \A i \in 1..Len(links) : i \in 1..Len(links')
      BY <1>4, <2>2
    <3>2. CASE k = next
      BY <1>2, <2>2, <2>3, <3>1, <3>2 DEF Accounted, url
    <3>3. CASE k # next
      <4>1. Accounted(k)
        BY <1>1, <1>3, <2>8, <3>3 DEF LoopInv
      <4> QED BY <1>2, <1>6, <2>2, <3>1, <4>1 DEF Accounted
    <3> QED BY <3>2, <3>3
  <2>9. (\A k \in 1..Len(Items) : k < next => Accounted(k))'
    BY <1>1, <1>2, <2>8
  <2>10. refused' \subseteq 1..next'-1 /\ Len(links') <= MaxLinks
    BY <1>1, <1>3, <1>4, <1>6, <2>2 DEF LoopInv
  <2> QED BY <1>1, <1>2, <2>2, <2>6, <2>7, <2>9, <2>10 DEF LoopInv
<1> QED BY <1>5, <1>6 DEF CheckLink

(* What LoopInv says stays as it is.                                       *)
LEMMA LoopStutters ==
    ASSUME LoopInv, UNCHANGED <<limits, call, request, page, next, links, refused>>,
           truncated' \/ truncated' = truncated
    PROVE  LoopInv'
<1>1. Items' = Items /\ MaxLinks' = MaxLinks /\ (TextsInFull' <=> TextsInFull)
  BY DEF Items, MaxLinks, TextsInFull, ContentOf
<1>2. Ordered'
  BY <1>1 DEF LoopInv, Ordered
<1>3. Flagged'
  BY <1>1 DEF LoopInv, Flagged, LinkClipped
<1>4. (\A k \in 1..Len(Items) : k < next => Accounted(k))'
  BY <1>1 DEF LoopInv, Accounted
<1> QED BY <1>1, <1>2, <1>3, <1>4 DEF LoopInv

(* Every step of the call keeps what the loop has gone over accounted for. *)
LEMMA NextPage == CheckInv /\ PageInv /\ [Next]_vars => PageInv'
<1> SUFFICES ASSUME CheckInv, PageInv, [Next]_vars PROVE PageInv'
  OBVIOUS
<1>1. pc # "done" => reply.status # "success"
  BY DEF CheckInv, Judged, NoReply
<1>2. CASE Propose \/ Refuse \/ Accept
  BY <1>1, <1>2 DEF Propose, Refuse, Accept, Answered, Reading, PageInv, Succeeded
<1>3. CASE CheckTarget \/ SessionFails
  <2>1. /\ pc \in {"target", "browser"} /\ UNCHANGED <<next, links, refused>>
        /\ \/ pc' = "browser" /\ UNCHANGED reply
           \/ \E cause : Error(cause)
    BY <1>3 DEF CheckTarget, SessionFails, Reading
  <2>2. pc' = "browser" \/ (pc' = "done" /\ reply'.status # "success")
    BY <2>1, ErrorsAreNotArguments
  <2> QED BY <2>1, <2>2 DEF PageInv, Succeeded
<1>4. CASE SessionEnds
  BY <1>4 DEF SessionEnds, Reading, PageInv, Succeeded
<1>5. CASE CheckFinal
  <2>1. pc' = "links" \/ \E cause : Error(cause)
    BY <1>5 DEF CheckFinal
  <2>2. CASE pc' = "links"
    BY <1>5, <2>2, TextsFlagged DEF PageInv, Succeeded
  <2>3. CASE \E cause : Error(cause)
    <3>1. pc' = "done" /\ reply'.status # "success"
      BY <2>3, ErrorsAreNotArguments
    <3> QED BY <3>1 DEF PageInv, Succeeded
  <2> QED BY <2>1, <2>2, <2>3
<1>6. CASE SkipLink \/ CheckLink
  <2>1. pc = "links" /\ pc' = "links" /\ LoopInv
    BY <1>6 DEF SkipLink, CheckLink, PageInv
  <2>2. LoopInv'
    BY <1>6, <2>1, SkipKeepsLoop, CheckKeepsLoop
  <2> QED BY <2>1, <2>2 DEF PageInv, Succeeded
<1>7. CASE LinksFull \/ LinksEnd
  <2>1. /\ pc = "links" /\ pc' = "reply" /\ LoopInv
        /\ UNCHANGED <<limits, call, request, page, next, links, refused>>
        /\ \/ truncated'
           \/ truncated' = truncated /\ next > Len(Items)
    BY <1>7 DEF LinksFull, LinksEnd, Reading, PageInv
  <2>2. LoopInv' /\ Items' = Items
    BY <2>1, LoopStutters DEF Items
  <2> QED BY <2>1, <2>2 DEF PageInv, Succeeded
<1>8. CASE Reply
  <2>1. /\ pc = "reply" /\ pc' = "done" /\ LoopInv /\ (truncated \/ next > Len(Items))
        /\ UNCHANGED <<limits, call, request, page, next, links, refused, truncated>>
    BY <1>8 DEF Reply, Reading, PageInv
  <2>2. LoopInv' /\ Items' = Items
    BY <2>1, LoopStutters DEF Items
  <2> QED BY <2>1, <2>2 DEF PageInv, Succeeded
<1>9. CASE Terminated \/ UNCHANGED vars
  <2>1. UNCHANGED vars
    BY <1>9 DEF Terminated
  <2>2. UNCHANGED <<pc, reply, limits, call, request, page, next, links, refused, truncated>>
    BY <2>1 DEF vars
  <2>3. LoopInv => LoopInv'
    BY <2>2, LoopStutters
  <2>4. Items' = Items
    BY <2>2 DEF Items
  <2> QED BY <2>2, <2>3, <2>4 DEF PageInv, Succeeded
<1> QED BY <1>2, <1>3, <1>4, <1>5, <1>6, <1>7, <1>8, <1>9 DEF Next, Check, Session, Read

(* Of every page, with any number of anchors, a result that is not flagged *)
(* as truncated has the texts in full and every address that was not       *)
(* refused (browser.go:315-341, 579-622).                                  *)
THEOREM UnflaggedIsComplete == Spec => []UnflaggedPageIsComplete
<1>1. CheckInv /\ PageInv => UnflaggedPageIsComplete
  <2> SUFFICES ASSUME CheckInv, PageInv, Succeeded PROVE UnflaggedPageIsComplete
    BY DEF UnflaggedPageIsComplete
  <2>1. LoopInv /\ (truncated \/ next > Len(Items))
    BY DEF PageInv
  <2>2. page \in Pages /\ next \in Nat /\ Len(Items) \in Nat
    BY <2>1, LoopTypes DEF LoopInv
  <2>3. ASSUME ~truncated, NEW k \in 1..Len(Items)
        PROVE  \/ Target(Items[k]).runes = 0 \/ k \in refused
               \/ \E i \in 1..Len(links) :
                      links[i].url = Target(Items[k]) /\ ~LinkClipped(Items[links[i].at])
    <3>1. k < next
      BY <2>1, <2>2, <2>3
    <3>2. Accounted(k) /\ \A i \in 1..Len(links) : ~LinkClipped(Items[links[i].at])
      BY <2>1, <2>3, <3>1 DEF LoopInv, Flagged
    <3> QED BY <3>2 DEF Accounted
  <2>4. \A i \in 1..Len(links) :
            /\ links[i].rank = i /\ links[i].at \notin refused
            /\ links[i].url = Target(Items[links[i].at])
            /\ \A j \in 1..i-1 : /\ links[j].at < links[i].at
                                 /\ call.tool = "search_web" => links[j].url # links[i].url
    BY <2>1 DEF LoopInv, Ordered
  <2>5. Len(links) <= MaxLinks /\ (~truncated => TextsInFull)
    BY <2>1 DEF LoopInv, Flagged
  <2> QED BY <2>3, <2>4, <2>5 DEF UnflaggedPageIsComplete, TextsInFull
<1>2. Init => CheckInv /\ PageInv
  BY InitChecked, InitPage
<1>3. CheckInv /\ PageInv /\ [Next]_vars => (CheckInv /\ PageInv)'
  BY NextChecked, NextPage
<1> QED BY <1>1, <1>2, <1>3, PTL DEF Spec
-----------------------------------------------------------------------------
(* The content of a page (browser.go:669-878).                            *)

(* What holds of a number whenever it holds of all before it, holds of all. *)
LEMMA StrongInduction ==
    ASSUME NEW n \in Nat, NEW S, \A i \in 0..n : 0..i-1 \subseteq S => i \in S
    PROVE  0..n \subseteq S
<1> DEFINE T == {i \in 0..n : 0..i \subseteq S}
<1>1. 0 \in T
  <2>1. 0 \in 0..n /\ 0..0-1 = {} /\ 0..0 = {0}
    OBVIOUS
  <2>2. 0 \in S
    BY <2>1
  <2> QED BY <2>1, <2>2
<1>2. ASSUME NEW i \in 1..n, i - 1 \in T PROVE i \in T
  <2>1. i \in 0..n /\ 0..i-1 \subseteq S
    BY <1>2
  <2>2. i \in S
    BY <2>1
  <2>3. \A j \in 0..i : j \in 0..i-1 \/ j = i
    OBVIOUS
  <2> QED BY <2>1, <2>2, <2>3
<1>3. 0..n \subseteq T
  <2> HIDE DEF T
  <2> QED BY <1>1, <1>2, IntervalInduction
<1> QED
  <2> SUFFICES ASSUME NEW i \in 0..n PROVE i \in S
    OBVIOUS
  <2>1. 0..i \subseteq S
    BY <1>3
  <2> QED BY <2>1

(* An element's way up: itself, and its parent's (0 is the document).      *)
LEMMA AncestorsStep ==
    ASSUME NEW tree \in Trees
    PROVE  /\ Ancestors(tree, 0) = {}
           /\ \A i \in 1..Len(tree) : Ancestors(tree, i) = {i} \cup Ancestors(tree, tree[i].parent)
<1> DEFINE n == Len(tree)
           Steps(m, f) == f = [j \in 0..m |-> IF j = 0 THEN {} ELSE {j} \cup f[tree[j].parent]]
           Up == CHOOSE f : Steps(n, f)
           S == {m \in 0..n : \E f : Steps(m, f)}
<1>1. n \in Nat /\ \A i \in 1..n : tree[i].parent \in 0..i-1
  <2>1. tree \in Seq(Elements) /\ \A i \in 1..n : tree[i].parent < i
    BY DEF Trees
  <2>2. \A i \in 1..n : tree[i] \in Elements
    BY <2>1
  <2>3. \A i \in 1..n : tree[i].parent \in Nat
    BY <2>2 DEF Elements
  <2> QED BY <2>1, <2>3
<1>2. 0 \in S
  <2> DEFINE f == [j \in 0..0 |-> {}]
  <2>1. Steps(0, f)
    OBVIOUS
  <2> HIDE DEF Steps, f
  <2> QED BY <1>1, <2>1
<1>3. ASSUME NEW m \in 1..n, m - 1 \in S PROVE m \in S
  <2>1. PICK f : Steps(m - 1, f)
    BY <1>3
  <2> DEFINE g == [j \in 0..m |-> IF j = m THEN {m} \cup f[tree[m].parent] ELSE f[j]]
  <2>2. ASSUME NEW j \in 0..m PROVE g[j] = IF j = 0 THEN {} ELSE {j} \cup g[tree[j].parent]
    <3> HIDE DEF n
    <3>1. j # 0 => tree[j].parent \in 0..m-1 /\ (j # m => j \in 0..m-1)
      BY <1>1
    <3>2. CASE j = m
      <4>1. m # 0 /\ g[tree[j].parent] = f[tree[m].parent]
        BY <3>1, <3>2
      <4> QED BY <3>2, <4>1
    <3>3. CASE j # m
      <4>1. j \in 0..m-1
        BY <3>3
      <4>2. f[j] = IF j = 0 THEN {} ELSE {j} \cup f[tree[j].parent]
        BY <2>1, <4>1
      <4>3. g[j] = f[j] /\ (j # 0 => g[tree[j].parent] = f[tree[j].parent])
        BY <3>1, <3>3
      <4> QED BY <4>2, <4>3
    <3> QED BY <3>2, <3>3
  <2>3. Steps(m, g)
    <3>1. g = [j \in 0..m |-> g[j]]
      OBVIOUS
    <3> HIDE DEF g
    <3> QED BY <2>2, <3>1
  <2> HIDE DEF Steps, g
  <2> QED BY <2>3
<1>4. 0..n \subseteq S
  <2> HIDE DEF S, n
  <2> QED BY <1>1, <1>2, <1>3, IntervalInduction
<1>5. Steps(n, Up)
  <2>1. n \in S
    <3> HIDE DEF S, n
    <3> QED BY <1>1, <1>4
  <2>2. \E f : Steps(n, f)
    <3> HIDE DEF Steps, n
    <3> QED BY <2>1
  <2> HIDE DEF Steps, n
  <2> QED BY <2>2
<1>6. \A j \in 0..n : Up[j] = IF j = 0 THEN {} ELSE {j} \cup Up[tree[j].parent]
  <2> HIDE DEF Up, n
  <2> QED BY <1>5
<1>7. \A i : Ancestors(tree, i) = Up[i]
  BY DEF Ancestors
<1> HIDE DEF Up, n
<1>8. 0 \in 0..n /\ \A i \in 1..n : i \in 0..n /\ i # 0
  BY <1>1
<1>9. \A i \in 1..n : Ancestors(tree, i) = {i} \cup Ancestors(tree, tree[i].parent)
  BY <1>6, <1>7, <1>8
<1>10. Ancestors(tree, 0) = {}
  BY <1>6, <1>7, <1>8
<1> QED BY <1>9, <1>10 DEF n

LEMMA TreeShape ==
    ASSUME NEW tree \in Trees
    PROVE  /\ Len(tree) \in Nat
           /\ \A i \in 1..Len(tree) : tree[i] \in Elements /\ tree[i].parent \in 0..i-1
<1>1. tree \in Seq(Elements) /\ \A i \in 1..Len(tree) : tree[i].parent < i
  BY DEF Trees
<1>2. \A i \in 1..Len(tree) : tree[i] \in Elements
  BY <1>1
<1>3. \A i \in 1..Len(tree) : tree[i].parent \in Nat
  BY <1>2 DEF Elements
<1> QED BY <1>1, <1>2, <1>3

(* It leads upwards, and from every element on it the way is the same.     *)
LEMMA AncestorsAbove ==
    ASSUME NEW tree \in Trees, NEW i \in 0..Len(tree)
    PROVE  /\ Ancestors(tree, i) \subseteq 1..i
           /\ \A k \in Ancestors(tree, i) : Ancestors(tree, k) \subseteq Ancestors(tree, i)
<1> DEFINE Good(j) == /\ Ancestors(tree, j) \subseteq 1..j
                      /\ \A k \in Ancestors(tree, j) : Ancestors(tree, k) \subseteq Ancestors(tree, j)
           S == {j \in 0..Len(tree) : Good(j)}
<1>1. ASSUME NEW j \in 0..Len(tree), 0..j-1 \subseteq S PROVE Good(j)
  <2>1. CASE j = 0
    BY <2>1, AncestorsStep
  <2>2. CASE j # 0
    <3>1. j \in 1..Len(tree) /\ tree[j].parent \in 0..j-1
      BY <2>2, TreeShape
    <3>2. Ancestors(tree, j) = {j} \cup Ancestors(tree, tree[j].parent)
      BY <3>1, AncestorsStep
    <3>3. Good(tree[j].parent)
      BY <1>1, <3>1
    <3>4. Ancestors(tree, j) \subseteq 1..j
      <4>1. 1..tree[j].parent \subseteq 1..j /\ j \in 1..j
        BY <3>1
      <4> QED BY <3>2, <3>3, <4>1
    <3> QED BY <3>2, <3>3, <3>4
  <2> QED BY <2>1, <2>2
<1>2. 0..Len(tree) \subseteq S
  <2>1. Len(tree) \in Nat
    BY TreeShape
  <2>2. \A j \in 0..Len(tree) : 0..j-1 \subseteq S => j \in S
    BY <1>1
  <2> HIDE DEF S
  <2> QED BY <2>1, <2>2, StrongInduction
<1> QED BY <1>2

(* Who is below an element is below a child of it.                         *)
LEMMA ChildOnTheWay ==
    ASSUME NEW tree \in Trees, NEW i \in 0..Len(tree), NEW r \in Ancestors(tree, i), r # i
    PROVE  \E k \in Ancestors(tree, i) : k \in Children(tree, r)
<1> DEFINE Leads(j) == r \in Ancestors(tree, j) /\ r # j
                           => \E k \in Ancestors(tree, j) : k \in Children(tree, r)
           S == {j \in 0..Len(tree) : Leads(j)}
<1>1. ASSUME NEW j \in 0..Len(tree), 0..j-1 \subseteq S PROVE Leads(j)
  <2> SUFFICES ASSUME r \in Ancestors(tree, j), r # j
               PROVE  \E k \in Ancestors(tree, j) : k \in Children(tree, r)
    OBVIOUS
  <2>1. j # 0
    BY AncestorsStep
  <2>2. j \in 1..Len(tree) /\ tree[j].parent \in 0..j-1
    BY <2>1, TreeShape
  <2>3. Ancestors(tree, j) = {j} \cup Ancestors(tree, tree[j].parent)
    BY <2>2, AncestorsStep
  <2>4. Leads(tree[j].parent)
    BY <1>1, <2>2
  <2>5. CASE r = tree[j].parent
    BY <2>2, <2>3, <2>5 DEF Children
  <2>6. CASE r # tree[j].parent
    BY <2>3, <2>4, <2>6
  <2> QED BY <2>5, <2>6
<1>2. 0..Len(tree) \subseteq S
  <2>1. Len(tree) \in Nat
    BY TreeShape
  <2>2. \A j \in 0..Len(tree) : 0..j-1 \subseteq S => j \in S
    BY <1>1
  <2> HIDE DEF S
  <2> QED BY <2>1, <2>2, StrongInduction
<1> QED BY <1>2

(* So what may be shown of an element is itself, and what may be shown of  *)
(* its children that stay.                                                 *)
LEMMA PresentableStep ==
    ASSUME NEW tree \in Trees, NEW r \in 1..Len(tree)
    PROVE  Presentable(tree, r) = {r} \cup UNION {Presentable(tree, k) : k \in KeptChildren(tree, r)}
<1>1. ASSUME NEW k \in KeptChildren(tree, r)
      PROVE  /\ k \in 1..Len(tree) /\ ~ShouldRemove(tree[k])
             /\ Ancestors(tree, k) = {k} \cup Ancestors(tree, r) /\ k \notin Ancestors(tree, r)
  <2>1. k \in 1..Len(tree) /\ tree[k].parent = r /\ ~ShouldRemove(tree[k])
    BY DEF KeptChildren, Children
  <2>2. r \in 0..k-1
    BY <2>1, TreeShape
  <2>3. Ancestors(tree, r) \subseteq 1..r /\ k \notin 1..r
    BY <2>2, AncestorsAbove
  <2> QED BY <2>1, <2>3, AncestorsStep
<1>2. r \in Ancestors(tree, r)
  BY AncestorsStep
<1>3. ASSUME NEW i \in Presentable(tree, r), i # r
      PROVE  \E k \in KeptChildren(tree, r) : i \in Presentable(tree, k)
  <2>1. /\ i \in 1..Len(tree) /\ r \in Ancestors(tree, i)
        /\ \A j \in Ancestors(tree, i) \ Ancestors(tree, r) : ~ShouldRemove(tree[j])
    BY DEF Presentable
  <2>2. i \in 0..Len(tree)
    BY <2>1
  <2>3. PICK k \in Ancestors(tree, i) : k \in Children(tree, r)
    BY <1>3, <2>1, <2>2, ChildOnTheWay
  <2>4. k \in 1..Len(tree) /\ r \in 0..k-1
    BY <2>3, TreeShape DEF Children
  <2>5. k \notin Ancestors(tree, r)
    <3>1. Ancestors(tree, r) \subseteq 1..r /\ k \notin 1..r
      BY <2>4, AncestorsAbove
    <3> QED BY <3>1
  <2>6. k \in KeptChildren(tree, r)
    BY <2>1, <2>3, <2>5 DEF KeptChildren
  <2>7. \A j \in Ancestors(tree, i) \ Ancestors(tree, k) : ~ShouldRemove(tree[j])
    BY <1>1, <2>1, <2>6
  <2> QED BY <2>1, <2>3, <2>6, <2>7 DEF Presentable
<1>4. ASSUME NEW k \in KeptChildren(tree, r), NEW i \in Presentable(tree, k)
      PROVE  i \in Presentable(tree, r)
  <2>1. /\ i \in 1..Len(tree) /\ k \in Ancestors(tree, i)
        /\ \A j \in Ancestors(tree, i) \ Ancestors(tree, k) : ~ShouldRemove(tree[j])
    BY DEF Presentable
  <2>2. i \in 0..Len(tree)
    BY <2>1
  <2>3. r \in Ancestors(tree, i)
    BY <1>1, <1>2, <2>1, <2>2, AncestorsAbove
  <2>4. \A j \in Ancestors(tree, i) \ Ancestors(tree, r) : ~ShouldRemove(tree[j])
    BY <1>1, <2>1
  <2> QED BY <2>1, <2>3, <2>4 DEF Presentable
<1>5. r \in Presentable(tree, r)
  BY <1>2 DEF Presentable
<1> QED BY <1>3, <1>4, <1>5

(* cleanRenderedDOMNode goes into each child that stays, whatever was      *)
(* removed before it (browser.go:865-878).                                 *)
LEMMA CleanedStep ==
    ASSUME NEW tree \in Trees, NEW r \in 1..Len(tree)
    PROVE  Cleaned(tree, r) = {r} \cup UNION {Cleaned(tree, k) : k \in KeptChildren(tree, r)}
<1> DEFINE n == Len(tree)
           Kept(j) == KeptChildren(tree, j)
           Steps(m, f) == \A j \in n-m+1..n : f[j] = {j} \cup UNION {f[k] : k \in Kept(j)}
           Whole(f) == f = [j \in 1..n |-> {j} \cup UNION {f[k] : k \in Kept(j)}]
           Left == CHOOSE f : Whole(f)
           S == {m \in 0..n : \E f : Steps(m, f)}
<1>1. n \in Nat /\ \A j \in 1..n : Kept(j) \subseteq j+1..n
  <2>1. ASSUME NEW j \in 1..n, NEW k \in Kept(j) PROVE k \in j+1..n
    <3>1. k \in 1..n /\ tree[k].parent = j
      BY DEF KeptChildren, Children
    <3>2. j \in 0..k-1
      BY <3>1, TreeShape
    <3> QED BY <3>1, <3>2
  <2> QED BY <2>1, TreeShape
<1> HIDE DEF n, Kept
<1>2. 0 \in S
  <2>1. n-0+1..n = {}
    BY <1>1
  <2>2. Steps(0, << >>)
    BY <2>1
  <2> HIDE DEF Steps
  <2> QED BY <1>1, <2>2
<1>3. ASSUME NEW m \in 1..n, m - 1 \in S PROVE m \in S
  <2>1. PICK f : Steps(m - 1, f)
    BY <1>3
  <2> DEFINE low == n - m + 1
             g == [j \in 1..n |-> IF j = low THEN {low} \cup UNION {f[k] : k \in Kept(low)} ELSE f[j]]
  <2>2. low \in 1..n /\ \A j \in low..n : j # low => j \in n-(m-1)+1..n
    BY <1>1
  <2>3. ASSUME NEW j \in low..n PROVE g[j] = {j} \cup UNION {g[k] : k \in Kept(j)}
    <3> HIDE DEF low
    <3>1. j \in 1..n
      BY <2>2
    <3>2. \A k \in Kept(j) : k \in 1..n /\ k # low
      <4>1. \A k \in j+1..n : k \in 1..n /\ k # low
        BY <2>2
      <4> QED BY <1>1, <3>1, <4>1
    <3>3. \A k \in Kept(j) : g[k] = f[k]
      BY <3>2
    <3>4. UNION {g[k] : k \in Kept(j)} = UNION {f[k] : k \in Kept(j)}
      <4> HIDE DEF g
      <4> QED BY <3>3
    <3>5. CASE j = low
      BY <3>1, <3>4, <3>5
    <3>6. CASE j # low
      <4>1. f[j] = {j} \cup UNION {f[k] : k \in Kept(j)}
        BY <2>1, <2>2, <3>6
      <4> QED BY <3>1, <3>4, <3>6, <4>1
    <3> QED BY <3>5, <3>6
  <2>4. Steps(m, g)
    <3> HIDE DEF g
    <3> QED BY <2>3
  <2> HIDE DEF Steps, g
  <2> QED BY <2>4
<1>4. 0..n \subseteq S
  <2> HIDE DEF S
  <2> QED BY <1>1, <1>2, <1>3, IntervalInduction
<1>5. PICK f : Steps(n, f)
  <2>1. n \in S
    <3> HIDE DEF S
    <3> QED BY <1>1, <1>4
  <2> HIDE DEF Steps
  <2> QED BY <2>1
<1> DEFINE g == [j \in 1..n |-> f[j]]
<1>6. Whole(g)
  <2>1. ASSUME NEW j \in 1..n PROVE g[j] = {j} \cup UNION {g[k] : k \in Kept(j)}
    <3>1. n-n+1..n = 1..n
      BY <1>1
    <3>2. f[j] = {j} \cup UNION {f[k] : k \in Kept(j)}
      BY <1>5, <3>1
    <3>3. \A k \in Kept(j) : k \in 1..n
      <4>1. \A k \in j+1..n : k \in 1..n
        OBVIOUS
      <4> QED BY <1>1, <4>1
    <3>4. \A k \in Kept(j) : g[k] = f[k]
      BY <3>3
    <3>5. UNION {g[k] : k \in Kept(j)} = UNION {f[k] : k \in Kept(j)}
      <4> HIDE DEF g
      <4> QED BY <3>4
    <3> QED BY <3>2, <3>5
  <2>2. g = [j \in 1..n |-> g[j]]
    OBVIOUS
  <2> HIDE DEF g
  <2> QED BY <2>1, <2>2
<1>7. Whole(Left)
  <2> HIDE DEF Whole, g
  <2> QED BY <1>6
<1>8. \A j \in 1..n : Left[j] = {j} \cup UNION {Left[k] : k \in Kept(j)}
  <2> HIDE DEF Left
  <2> QED BY <1>7
<1>9. \A j : Cleaned(tree, j) = Left[j]
  BY DEF Cleaned, Left, Whole, n, Kept
<1> HIDE DEF Left
<1>10. Left[r] = {r} \cup UNION {Left[k] : k \in Kept(r)}
  BY <1>8 DEF n
<1> QED BY <1>9, <1>10 DEF Kept

(* It leaves what has nothing removed on its way up.                       *)
LEMMA CleanedIsPresentable ==
    ASSUME NEW tree \in Trees, NEW r \in 1..Len(tree)
    PROVE  Cleaned(tree, r) = Presentable(tree, r)
<1> DEFINE n == Len(tree)
           Same(j) == Cleaned(tree, j) = Presentable(tree, j)
           S == {m \in 0..n : \A j \in 1..n : j + m >= n => Same(j)}
<1>1. n \in Nat
  BY TreeShape
<1>2. ASSUME NEW j \in 1..n, \A k \in 1..n : k > j => Same(k) PROVE Same(j)
  <2>1. \A k \in KeptChildren(tree, j) : k \in 1..n /\ k > j
    <3> SUFFICES ASSUME NEW k \in KeptChildren(tree, j) PROVE k \in 1..n /\ k > j
      OBVIOUS
    <3>1. k \in 1..n /\ tree[k].parent = j
      BY DEF KeptChildren, Children
    <3> QED BY <3>1, TreeShape
  <2>2. \A k \in KeptChildren(tree, j) : Cleaned(tree, k) = Presentable(tree, k)
    BY <1>2, <2>1
  <2>3. UNION {Cleaned(tree, k) : k \in KeptChildren(tree, j)}
          = UNION {Presentable(tree, k) : k \in KeptChildren(tree, j)}
    BY <2>2
  <2> QED BY <2>3, CleanedStep, PresentableStep
<1> HIDE DEF n, Same
<1>3. 0 \in S
  <2>1. \A j \in 1..n : j + 0 >= n => Same(j)
    <3> SUFFICES ASSUME NEW j \in 1..n, j + 0 >= n PROVE Same(j)
      OBVIOUS
    <3>1. \A k \in 1..n : ~(k > j)
      BY <1>1
    <3> QED BY <1>2, <3>1
  <2> QED BY <1>1, <2>1
<1>4. ASSUME NEW m \in 1..n, m - 1 \in S PROVE m \in S
  <2>1. \A j \in 1..n : j + (m - 1) >= n => Same(j)
    BY <1>4
  <2>2. ASSUME NEW j \in 1..n, j + m >= n PROVE Same(j)
    <3>1. \A k \in 1..n : k > j => k + (m - 1) >= n
      BY <1>1, <2>2
    <3> QED BY <1>2, <2>1, <3>1
  <2>3. m \in 0..n
    OBVIOUS
  <2> QED BY <2>2, <2>3
<1>5. 0..n \subseteq S
  <2> HIDE DEF S
  <2> QED BY <1>1, <1>3, <1>4, IntervalInduction
<1>6. n \in S
  <2> HIDE DEF S
  <2> QED BY <1>1, <1>5
<1>7. r + n >= n /\ r \in 1..n
  BY <1>1 DEF n
<1>8. Same(r)
  BY <1>6, <1>7
<1> QED BY <1>8 DEF Same
-----------------------------------------------------------------------------
(* The content of a candidate, as ContentChosen has it.                    *)
LEMMA RenderedIsShown ==
    ASSUME NEW tree \in Trees, NEW i \in 1..Len(tree)
    PROVE  Rendered(tree, i) = Markdown(tree, Presentable(tree, i))
BY CleanedIsPresentable DEF Rendered

LEMMA CandidateRank ==
    ASSUME NEW tree \in Trees, NEW i \in Candidates(tree)
    PROVE  i \in 1..Len(tree) /\ Rank(tree[i]) \in 1..4
<1> DEFINE element == tree[i]
           Is(k) == IsSource(element, Sources[k])
           First(k) == Is(k) /\ \A j \in 1..k-1 : ~Is(j)
<1>1. i \in 1..Len(tree) /\ \E k \in 1..4 : Is(k)
  BY DEF Candidates
<1>2. \E k \in 1..4 : First(k)
  <2> HIDE DEF Is
  <2>1. CASE Is(1)
    <3>1. First(1)
      BY <2>1
    <3> QED BY <3>1
  <2>2. CASE ~Is(1) /\ Is(2)
    <3>1. First(2)
      BY <2>2
    <3> QED BY <3>1
  <2>3. CASE ~Is(1) /\ ~Is(2) /\ Is(3)
    <3>1. First(3)
      BY <2>3
    <3> QED BY <3>1
  <2>4. CASE ~Is(1) /\ ~Is(2) /\ ~Is(3)
    <3>1. First(4)
      BY <1>1, <2>4
    <3> QED BY <3>1
  <2> QED BY <2>1, <2>2, <2>3, <2>4
<1>3. Rank(element) = CHOOSE k \in 1..4 : First(k)
  BY DEF Rank
<1>4. (CHOOSE k \in 1..4 : First(k)) \in 1..4
  <2> HIDE DEF First
  <2> QED BY <1>2
<1> QED BY <1>1, <1>3, <1>4

(* Scores are numbers.                                                     *)
LEMMA QualityType ==
    ASSUME NEW tree \in Trees, NEW i \in Candidates(tree)
    PROVE  /\ RenderedQuality(tree, i).letters = Rendered(tree, i).letters
           /\ RenderedQuality(tree, i).letters \in Nat
           /\ RenderedQuality(tree, i).score \in Int
           /\ RenderedQuality(tree, i).signals \in Int
<1> DEFINE md == Rendered(tree, i)
           bonus == Bonus(Source(tree, i))
<1>1. md \in MarkdownTexts
  BY MarkdownType DEF Rendered, Trees
<1>2. Rank(tree[i]) \in 1..4
  BY CandidateRank
<1>3. Source(tree, i) \in {"main", "role_main", "article", "body"}
  BY <1>2 DEF Source, Sources
<1>4. bonus \in Nat
  BY <1>3 DEF Bonus
<1>5. /\ md.letters \in Nat /\ md.headings \in Nat /\ md.lists \in Nat /\ md.tables \in Nat
      /\ md.code \in Nat /\ md.quotes \in Nat /\ md.images \in Nat /\ md.links \in Nat
  BY <1>1 DEF MarkdownTexts, Counted
<1>6. RenderedQuality(tree, i) = Assess(md, bonus)
  BY DEF RenderedQuality
<1> HIDE DEF md, bonus
<1>7. Signals(md) \in Int /\ Score(md, bonus) \in Int
  <2>1. \A count, max \in Nat : AtMostOf(count, max) \in Nat
    BY DEF AtMostOf
  <2>2. /\ AtMostOf(md.headings, 2) \in Nat /\ AtMostOf(md.lists, 4) \in Nat
        /\ AtMostOf(md.tables, 1) \in Nat /\ AtMostOf(md.code, 2) \in Nat
        /\ AtMostOf(md.quotes, 2) \in Nat /\ AtMostOf(md.images, 2) \in Nat
        /\ AtMostOf(md.links, 5) \in Nat
    BY <1>5, <2>1
  <2> QED BY <1>4, <1>5, <2>2 DEF Signals, Score
<1>8. /\ RenderedQuality(tree, i).letters = md.letters
      /\ RenderedQuality(tree, i).score \in Int /\ RenderedQuality(tree, i).signals \in Int
  BY <1>5, <1>6, <1>7 DEF Assess
<1> QED BY <1>5, <1>8 DEF md

(* best is the best of the elements gone over that have any text, or 0.    *)
Worth(tree, i) == RenderedQuality(tree, i).letters > 0
BestOf(tree, best, S) ==
    /\ best \in {0} \cup S
    /\ best = 0 => \A j \in S : ~Worth(tree, j)
    /\ best # 0 =>
           /\ Worth(tree, best)
           /\ \A j \in S : Worth(tree, j) => ~Beats(RenderedQuality(tree, j), RenderedQuality(tree, best))

LEMMA BetterIsBest ==
    ASSUME NEW tree \in Trees, NEW S \in SUBSET Candidates(tree), NEW i \in Candidates(tree), NEW best,
           BestOf(tree, best, S)
    PROVE  BestOf(tree, Better(tree, best, i), S \cup {i})
<1> DEFINE Q(j) == RenderedQuality(tree, j)
<1>1. \A j \in Candidates(tree) : Q(j).letters \in Nat /\ Q(j).score \in Int
  BY QualityType
<1>2. i # 0
  BY CandidateRank
<1> HIDE DEF Q
<1>3. Better(tree, best, i) =
          IF Q(i).letters > 0 /\ (best = 0 \/ Beats(Q(i), Q(best))) THEN i ELSE best
  BY DEF Better, Q
<1>4. \A j : Worth(tree, j) <=> Q(j).letters > 0
  BY DEF Worth, Q
<1>5. /\ best \in {0} \cup S
      /\ best = 0 => \A j \in S : ~Worth(tree, j)
      /\ best # 0 => Worth(tree, best) /\ \A j \in S : Worth(tree, j) => ~Beats(Q(j), Q(best))
  BY DEF BestOf, Q
<1>6. \A j \in Candidates(tree) : ~Beats(Q(j), Q(j))
  BY <1>1 DEF Beats
<1>7. CASE ~Worth(tree, i)
  <2>1. Better(tree, best, i) = best
    BY <1>3, <1>4, <1>7
  <2> QED BY <1>5, <1>7, <2>1 DEF BestOf, Q
<1>8. CASE Worth(tree, i) /\ (best = 0 \/ Beats(Q(i), Q(best)))
  <2>1. Better(tree, best, i) = i
    BY <1>3, <1>4, <1>8
  <2>2. ASSUME NEW j \in S, Worth(tree, j) PROVE ~Beats(Q(j), Q(i))
    <3>1. best # 0 /\ best \in S /\ ~Beats(Q(j), Q(best)) /\ Beats(Q(i), Q(best))
      BY <1>5, <1>8, <2>2
    <3> QED BY <1>1, <3>1 DEF Beats
  <2> QED BY <1>2, <1>6, <1>8, <2>1, <2>2 DEF BestOf, Q
<1>9. CASE Worth(tree, i) /\ best # 0 /\ ~Beats(Q(i), Q(best))
  <2>1. Better(tree, best, i) = best
    BY <1>3, <1>9
  <2> QED BY <1>5, <1>9, <2>1 DEF BestOf, Q
<1> QED BY <1>7, <1>8, <1>9

OfKind(tree, k) == {i \in Candidates(tree) : Rank(tree[i]) = k}

(* One pass adds a kind of candidates to those compared (browser.go:754-778). *)
LEMMA PassIsBest ==
    ASSUME NEW tree \in Trees, NEW S \in SUBSET Candidates(tree), NEW k, NEW first,
           BestOf(tree, first, S)
    PROVE  BestOf(tree, Pass(tree, k, first), S \cup OfKind(tree, k))
<1> DEFINE n == Len(tree)
           T == {0} \cup Candidates(tree)
           Is(i) == i \in Candidates(tree) /\ Rank(tree[i]) = k
           Turn(i, best) == IF Is(i) THEN Better(tree, best, i) ELSE best
           Goes(f) == f = [i \in 0..n |-> IF i = 0 THEN first ELSE Turn(i, f[i - 1])]
           Upto == CHOOSE f : Goes(f)
<1>1. n \in Nat /\ first \in T
  BY TreeShape DEF BestOf
<1>2. \A i \in 1..n : \A best \in T : Turn(i, best) \in T
  BY DEF Better
<1> HIDE DEF n, Turn, T
<1>3. \E f : Goes(f)
  <2> DEFINE step == [i \in 1..n |-> [best \in T |-> Turn(i, best)]]
  <2>1. step \in [1..n -> [T -> T]]
    BY <1>2
  <2>2. PICK f : LoopComputes(f, n, T, first, step)
    <3> HIDE DEF step
    <3> QED BY <1>1, <2>1, LoopExists
  <2>3. f \in [0..n -> T] /\ f[0] = first /\ \A i \in 1..n : f[i] = step[i][f[i - 1]]
    BY <2>2 DEF LoopComputes
  <2>4. ASSUME NEW i \in 0..n PROVE f[i] = IF i = 0 THEN first ELSE Turn(i, f[i - 1])
    <3>1. CASE i = 0
      <4> HIDE DEF step
      <4> QED BY <2>3, <3>1
    <3>2. CASE i # 0
      <4>1. i \in 1..n /\ i - 1 \in 0..n
        BY <1>1, <3>2
      <4>2. f[i - 1] \in T
        BY <2>3, <4>1
      <4>3. step[i][f[i - 1]] = Turn(i, f[i - 1])
        BY <4>1, <4>2
      <4>4. f[i] = step[i][f[i - 1]]
        <5> HIDE DEF step
        <5> QED BY <2>3, <4>1
      <4> QED BY <3>2, <4>3, <4>4
    <3> QED BY <3>1, <3>2
  <2>5. Goes(f)
    <3> HIDE DEF step
    <3> QED BY <2>3, <2>4
  <2> HIDE DEF Goes
  <2> QED BY <2>5
<1>4. Goes(Upto)
  <2> HIDE DEF Goes
  <2> QED BY <1>3
<1>5. \A i \in 0..n : Upto[i] = IF i = 0 THEN first ELSE Turn(i, Upto[i - 1])
  <2> HIDE DEF Upto
  <2> QED BY <1>4
<1>6. Pass(tree, k, first) = Upto[n]
  BY DEF Pass, Upto, Goes, n, Turn
<1> HIDE DEF Upto
<1> DEFINE Among(i) == S \cup {j \in OfKind(tree, k) : j <= i}
           Good == {i \in 0..n : BestOf(tree, Upto[i], Among(i))}
<1>7. 0 \in Good
  <2>1. Among(0) = S
    <3>1. \A j \in OfKind(tree, k) : ~(j <= 0)
      BY CandidateRank DEF OfKind
    <3> QED BY <3>1
  <2>2. 0 \in 0..n /\ Upto[0] = first
    BY <1>1, <1>5
  <2> HIDE DEF Among
  <2> QED BY <2>1, <2>2
<1>8. ASSUME NEW i \in 1..n, i - 1 \in Good PROVE i \in Good
  <2>1. BestOf(tree, Upto[i - 1], Among(i - 1))
    BY <1>8
  <2>2. i \in 0..n /\ Upto[i] = Turn(i, Upto[i - 1])
    BY <1>1, <1>5
  <2>3. \A j \in OfKind(tree, k) : j \in Nat
    BY CandidateRank DEF OfKind
  <2>4. Among(i - 1) \in SUBSET Candidates(tree)
    BY DEF OfKind
  <2>5. CASE Is(i)
    <3>1. Among(i) = Among(i - 1) \cup {i}
      <4>1. i \in OfKind(tree, k)
        BY <2>5 DEF OfKind
      <4>2. \A j \in OfKind(tree, k) : j <= i <=> j <= i - 1 \/ j = i
        BY <2>3
      <4>3. i <= i
        OBVIOUS
      <4> QED BY <4>1, <4>2, <4>3, Zenon
    <3>2. BestOf(tree, Better(tree, Upto[i - 1], i), Among(i - 1) \cup {i})
      <4> HIDE DEF Among
      <4> QED BY <2>1, <2>4, <2>5, BetterIsBest
    <3> HIDE DEF Among
    <3> QED BY <2>2, <2>5, <3>1, <3>2 DEF Turn
  <2>6. CASE ~Is(i)
    <3>1. Among(i) = Among(i - 1)
      <4>1. i \notin OfKind(tree, k)
        BY <2>6 DEF OfKind
      <4> QED BY <2>3, <4>1
    <3> HIDE DEF Among
    <3> QED BY <2>1, <2>2, <2>6, <3>1 DEF Turn
  <2> QED BY <2>5, <2>6
<1>9. 0..n \subseteq Good
  <2> HIDE DEF Good
  <2> QED BY <1>1, <1>7, <1>8, IntervalInduction
<1>10. n \in Good
  <2> HIDE DEF Good
  <2> QED BY <1>1, <1>9
<1>11. Among(n) = S \cup OfKind(tree, k)
  BY CandidateRank DEF OfKind, n
<1> HIDE DEF Among
<1> QED BY <1>6, <1>10, <1>11

LEMMA BestCandidateIsBest ==
    ASSUME NEW tree \in Trees
    PROVE  BestOf(tree, BestCandidate(tree), Candidates(tree))
<1> DEFINE K(k) == OfKind(tree, k)
           b1 == Pass(tree, 1, 0)
           b2 == Pass(tree, 2, b1)
           b3 == Pass(tree, 3, b2)
           b4 == Pass(tree, 4, b3)
<1>1. \A k : K(k) \subseteq Candidates(tree)
  BY DEF OfKind
<1>2. Candidates(tree) = {} \cup K(1) \cup K(2) \cup K(3) \cup K(4)
  <2>1. \A i \in Candidates(tree) : Rank(tree[i]) \in {1, 2, 3, 4}
    BY CandidateRank
  <2> QED BY <2>1 DEF OfKind
<1>3. BestCandidate(tree) = b4
  BY DEF BestCandidate
<1>4. BestOf(tree, 0, {})
  BY DEF BestOf
<1> HIDE DEF K
<1>5. BestOf(tree, b1, {} \cup K(1))
  BY <1>4, PassIsBest DEF K
<1> HIDE DEF b1
<1>6. BestOf(tree, b2, {} \cup K(1) \cup K(2))
  <2>1. {} \cup K(1) \in SUBSET Candidates(tree)
    BY <1>1
  <2> QED BY <1>5, <2>1, PassIsBest DEF K
<1> HIDE DEF b2
<1>7. BestOf(tree, b3, {} \cup K(1) \cup K(2) \cup K(3))
  <2>1. {} \cup K(1) \cup K(2) \in SUBSET Candidates(tree)
    BY <1>1
  <2> QED BY <1>6, <2>1, PassIsBest DEF K
<1> HIDE DEF b3
<1>8. BestOf(tree, b4, {} \cup K(1) \cup K(2) \cup K(3) \cup K(4))
  <2>1. {} \cup K(1) \cup K(2) \cup K(3) \in SUBSET Candidates(tree)
    BY <1>1
  <2> QED BY <1>7, <2>1, PassIsBest DEF K
<1> HIDE DEF b4
<1> QED BY <1>2, <1>3, <1>8

-----------------------------------------------------------------------------
(* Every page gets the content ContentChosen asks for (browser.go:669-690). *)
LEMMA ContentIsChosen ==
    ASSUME NEW shown \in Pages
    PROVE  LET content == ExtractContent(shown)
               tree == shown.tree
               Shown(i) == Markdown(tree, Presentable(tree, i))
               Quality(i) == Assess(Shown(i), Bonus(Source(tree, i)))
               others == {i \in Candidates(tree) : Shown(i).letters > 0}
           IN  /\ shown.visible.runes > 0 => content.md.runes > 0
               /\ content.method = "inner_text" => ~shown.absolute \/ others = {}
               /\ content.method = "rendered_dom_markdown" =>
                      /\ shown.readable.letters >= InadequateTextRunes =>
                             5 * content.md.letters >= 4 * (shown.readable.letters - 1)
                      /\ \E i \in others : /\ content.md = Shown(i)
                                           /\ \A j \in others : ~Beats(Quality(j), Quality(i))
<1> DEFINE tree == shown.tree
           Shown(i) == Markdown(tree, Presentable(tree, i))
           Quality(i) == Assess(Shown(i), Bonus(Source(tree, i)))
           others == {i \in Candidates(tree) : Shown(i).letters > 0}
           best == BestCandidate(tree)
           readable == Assess(shown.readable, 0)
           hasReadable == shown.absolute /\ readable.letters > 0 /\ ~Inadequate(readable)
           hasRendered == shown.absolute /\ best # 0
           prefers == ShouldPrefer(readable, RenderedQuality(tree, best), Source(tree, best))
           content == ExtractContent(shown)
<1>1. tree \in Trees /\ shown.readable \in MarkdownTexts /\ shown.absolute \in BOOLEAN
  BY PagesAssumption
<1>2. content = IF hasRendered /\ (hasReadable => prefers)
                THEN Content("markdown", "rendered_dom_markdown", Rendered(tree, best))
                ELSE IF hasReadable THEN Content("markdown", "readability_markdown", shown.readable)
                ELSE Content("text", "inner_text", shown.visible)
  BY DEF ExtractContent
<1>3. /\ readable.letters = shown.readable.letters
      /\ shown.readable.letters \in Nat /\ shown.readable.runes \in Nat
      /\ shown.readable.letters <= shown.readable.runes
  BY <1>1 DEF MarkdownTexts, Counted, Assess
<1> HIDE DEF tree, content, readable
<1>4. \A i \in Candidates(tree) :
          /\ Rendered(tree, i) = Shown(i) /\ RenderedQuality(tree, i) = Quality(i)
          /\ Shown(i).letters \in Nat /\ RenderedQuality(tree, i).letters = Shown(i).letters
          /\ Shown(i).runes \in Nat /\ Shown(i).letters <= Shown(i).runes
  <2> TAKE i \in Candidates(tree)
  <2>1. Rendered(tree, i) = Shown(i)
    BY <1>1, RenderedIsShown, CandidateRank
  <2>2. Rendered(tree, i) \in MarkdownTexts
    BY <1>1, MarkdownType DEF Rendered, Trees
  <2>3. /\ RenderedQuality(tree, i) = Quality(i)
        /\ RenderedQuality(tree, i).letters = Rendered(tree, i).letters
    BY <1>1, <2>1, QualityType DEF RenderedQuality
  <2> HIDE DEF Shown
  <2> QED BY <2>1, <2>2, <2>3 DEF MarkdownTexts, Counted
<1>5. others = {i \in Candidates(tree) : Worth(tree, i)}
  <2> HIDE DEF Shown
  <2> QED BY <1>4 DEF Worth
<1> HIDE DEF Shown, Quality, others
<1>6. BestOf(tree, best, Candidates(tree))
  BY <1>1, BestCandidateIsBest
<1> HIDE DEF best
<1>7. CASE hasRendered /\ (hasReadable => prefers)
  <2>1. content.method = "rendered_dom_markdown" /\ content.md = Rendered(tree, best)
    BY <1>2, <1>7 DEF Content
  <2>2. best \in others
    BY <1>5, <1>6, <1>7 DEF BestOf
  <2>3. best \in Candidates(tree)
    BY <1>5, <2>2
  <2>4. content.md = Shown(best) /\ Shown(best).letters > 0
    BY <1>4, <2>1, <2>2, <2>3 DEF others
  <2>5. \A j \in others : ~Beats(Quality(j), Quality(best))
    <3> SUFFICES ASSUME NEW j \in others PROVE ~Beats(Quality(j), Quality(best))
      OBVIOUS
    <3>1. j \in Candidates(tree) /\ Worth(tree, j)
      BY <1>5
    <3>2. ~Beats(RenderedQuality(tree, j), RenderedQuality(tree, best))
      BY <1>6, <1>7, <3>1 DEF BestOf
    <3> QED BY <1>4, <2>3, <3>1, <3>2
  <2>6. ASSUME shown.readable.letters >= InadequateTextRunes
        PROVE  5 * content.md.letters >= 4 * (shown.readable.letters - 1)
    <3>1. Shown(best).letters \in Nat
      BY <1>4, <2>3
    <3>2. CASE shown.readable.letters = 0
      BY <2>4, <3>1, <3>2
    <3>3. CASE shown.readable.letters # 0
      <4>1. hasReadable
        BY <1>3, <1>7, <2>6, <3>3, ContentAssumption DEF Inadequate
      <4>2. RenderedQuality(tree, best).letters >= (shown.readable.letters * 4) \div 5
        BY <1>3, <1>7, <4>1 DEF ShouldPrefer
      <4>3. Shown(best).letters >= (shown.readable.letters * 4) \div 5
        BY <1>4, <2>3, <4>2
      <4>4. \A r, l \in Nat : l >= (r * 4) \div 5 => 5 * l >= 4 * (r - 1)
        OBVIOUS
      <4> QED BY <1>3, <2>4, <3>1, <4>3, <4>4
    <3> QED BY <3>2, <3>3
  <2>7. content.md.runes > 0
    BY <1>4, <2>3, <2>4
  <2> QED BY <2>1, <2>2, <2>4, <2>5, <2>6, <2>7 DEF Shown, Quality, others, content, tree
<1>8. CASE ~(hasRendered /\ (hasReadable => prefers)) /\ hasReadable
  <2>1. content.method = "readability_markdown" /\ content.md = shown.readable
    BY <1>2, <1>8 DEF Content
  <2>2. content.md.runes > 0
    BY <1>3, <1>8, <2>1
  <2> QED BY <2>1, <2>2 DEF content
<1>9. CASE ~(hasRendered /\ (hasReadable => prefers)) /\ ~hasReadable
  <2>1. content.method = "inner_text" /\ content.md = shown.visible
    BY <1>2, <1>9 DEF Content
  <2>2. shown.absolute => others = {}
    BY <1>5, <1>6, <1>9 DEF BestOf
  <2> QED BY <2>1, <2>2 DEF Shown, others, content, tree
<1> QED BY <1>7, <1>8, <1>9

(* Of every page, as many and as deeply nested elements as it has, the     *)
(* content is as good as the page allows, and free of what is to be        *)
(* removed at every depth (browser.go:669-690, 754-778, 865-878).          *)
THEOREM ContentIsTheBest == Spec => []ContentChosen
<1>1. PageInv => ContentChosen
  <2> SUFFICES ASSUME PageInv, Succeeded, call.tool = "browse_url" PROVE ContentChosen
    BY DEF ContentChosen
  <2>1. page \in Pages
    BY DEF PageInv, LoopInv
  <2>2. ContentOf[page] = ExtractContent(page)
    BY <2>1 DEF ContentOf
  <2> QED BY <2>1, <2>2, ContentIsChosen DEF ContentChosen
<1>2. Init => CheckInv /\ PageInv
  BY InitChecked, InitPage
<1>3. CheckInv /\ PageInv /\ [Next]_vars => (CheckInv /\ PageInv)'
  BY NextChecked, NextPage
<1> QED BY <1>1, <1>2, <1>3, PTL DEF Spec
=============================================================================
