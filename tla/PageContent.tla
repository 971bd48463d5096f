----------------------------- MODULE PageContent -----------------------------
(***************************************************************************)
(* What Browse returns as the content of a page (extractContentFromHTML of *)
(* webutils/browser.go): the markdown of go-readability, or that of one    *)
(* element of the rendered page, or the visible text.                      *)
(*                                                                         *)
(* A page's tree is a sequence of elements in document order, each with    *)
(* the position of its parent (0 for the document).  Markdown is reduced   *)
(* to what assessMarkdownQuality counts in it, and to its length.          *)
(***************************************************************************)
EXTENDS Integers, Sequences

CONSTANT
    InadequateTextRunes   \* inadequateTextRunes (12)

ASSUME ContentAssumption == InadequateTextRunes \in Nat

Counted == {"letters", "runes", "headings", "lists", "tables", "code", "quotes", "images", "links"}
NoText == [c \in Counted |-> 0]
Text(letters) == [NoText EXCEPT !.letters = letters, !.runes = letters]

(* Letters are some of the runes.                                          *)
MarkdownTexts == {md \in [Counted -> Nat] : md.letters <= md.runes}
Elements ==
    [parent : Nat, tag : STRING, role : STRING, hidden : BOOLEAN, noise : BOOLEAN, block : MarkdownTexts]
Trees == {tree \in Seq(Elements) : \A i \in 1..Len(tree) : tree[i].parent < i}
-----------------------------------------------------------------------------
(* Quality. *)
AtMostOf(count, max) == IF count > max THEN max ELSE count

Signals(md) ==
    AtMostOf(md.headings, 2) + AtMostOf(md.lists, 4) + AtMostOf(md.tables, 1)
    + AtMostOf(md.code, 2) + AtMostOf(md.quotes, 2) + AtMostOf(md.images, 2)
Score(md, bonus) ==
    md.letters + bonus + 80 * AtMostOf(md.headings, 2) + 40 * AtMostOf(md.lists, 4)
    + 120 * AtMostOf(md.tables, 1) + 120 * AtMostOf(md.code, 2)
    + 50 * AtMostOf(md.quotes, 2) + 20 * AtMostOf(md.images, 2) + 10 * AtMostOf(md.links, 5)

(* Without a letter or a number nothing counts. *)
Assess(md, bonus) ==
    IF md.letters = 0 THEN [letters |-> 0, score |-> 0, signals |-> 0]
    ELSE [letters |-> md.letters, score |-> Score(md, bonus), signals |-> Signals(md)]

Inadequate(quality) ==
    quality.letters > 0 /\ quality.letters < InadequateTextRunes /\ quality.signals = 0

(* The branch for readable text that is not thin says the same. *)
ShouldPrefer(readable, rendered, source) ==
    /\ readable.letters > 0 /\ rendered.letters > 0 /\ source # "article"
    /\ rendered.letters >= (readable.letters * 4) \div 5
    /\ rendered.signals >= readable.signals + 1
    /\ rendered.score >= readable.score + 50
-----------------------------------------------------------------------------
(* The rendered page. *)
RemovedTags == {"script", "style", "template", "noscript", "dialog", "nav", "aside", "footer", "iframe"}
RemovedRoles == {"dialog", "alertdialog", "navigation", "complementary", "contentinfo", "banner"}

ShouldRemove(element) ==
    \/ element.tag \in RemovedTags
    \/ element.hidden                   \* hidden, inert, aria-hidden, aria-modal
    \/ element.role \in RemovedRoles
    \/ element.noise                    \* hasNoiseIdentifier

Children(tree, i) == {j \in 1..Len(tree) : tree[j].parent = i}

\* Faulty variant: a removed child has no next sibling, and the loop ends.
KeptBehindRemoved(tree, i) ==
    {j \in Children(tree, i) :
        ShouldRemove(tree[j]) => \E k \in Children(tree, i) : k < j /\ ShouldRemove(tree[k])}

KeptChildren(tree, i) == {j \in Children(tree, i) : ~ShouldRemove(tree[j])}

(* What cleanRenderedDOMNode leaves of an element, which itself stays.     *)
Cleaned(tree, i) ==
    LET Left[j \in 1..Len(tree)] == {j} \cup UNION {Left[k] : k \in KeptChildren(tree, j)}
    IN  Left[i]

(* Rendered as HTML and converted to markdown: the blocks of its elements. *)
Markdown(tree, elements) ==
    LET Upto(c) ==
            LET sum[i \in 0..Len(tree)] ==
                    IF i = 0 THEN 0
                    ELSE sum[i - 1] + (IF i \in elements THEN tree[i].block[c] ELSE 0)
            IN  sum[Len(tree)]
    IN  [c \in Counted |-> Upto(c)]

Sources == <<"main", "role_main", "article", "body">>
IsSource(element, source) ==
    IF source = "role_main" THEN element.role = "main" ELSE element.tag = source
Bonus(source) ==
    CASE source = "main" -> 60 [] source = "role_main" -> 50
      [] source = "article" -> 40 [] source = "body" -> 0

(* The first kind of element that it is. *)
Rank(element) == CHOOSE k \in 1..4 :
    IsSource(element, Sources[k]) /\ \A j \in 1..k-1 : ~IsSource(element, Sources[j])
Candidates(tree) ==
    {i \in 1..Len(tree) : \E k \in 1..4 : IsSource(tree[i], Sources[k])}
Source(tree, i) == Sources[Rank(tree[i])]
Rendered(tree, i) == Markdown(tree, Cleaned(tree, i))
RenderedQuality(tree, i) == Assess(Rendered(tree, i), Bonus(Source(tree, i)))

Beats(q, r) == q.score > r.score \/ (q.score = r.score /\ q.letters > r.letters)

Better(tree, best, i) ==
    LET q == RenderedQuality(tree, i)
    IN  IF q.letters > 0 /\ (best = 0 \/ Beats(q, RenderedQuality(tree, best))) THEN i ELSE best

(* Over the candidates of the k-th kind, in document order. *)
Pass(tree, k, first) ==
    LET Upto[i \in 0..Len(tree)] ==
            IF i = 0 THEN first
            ELSE IF i \in Candidates(tree) /\ Rank(tree[i]) = k THEN Better(tree, Upto[i - 1], i)
            ELSE Upto[i - 1]
    IN  Upto[Len(tree)]

(* The first of the best candidates that have any text, or 0. *)
BestCandidate(tree) == Pass(tree, 4, Pass(tree, 3, Pass(tree, 2, Pass(tree, 1, 0))))
-----------------------------------------------------------------------------
(* Readability's answer is a markdown; one without letters is an error.    *)
Content(format, method, md) == [format |-> format, method |-> method, md |-> md]

(* Without an absolute page address neither markdown can be made. *)
ExtractContent(page) ==
    LET readable == Assess(page.readable, 0)
        hasReadable == page.absolute /\ readable.letters > 0 /\ ~Inadequate(readable)
        best == BestCandidate(page.tree)
        hasRendered == page.absolute /\ best # 0
    IN  IF hasRendered /\ (hasReadable => ShouldPrefer(readable, RenderedQuality(page.tree, best),
                                                       Source(page.tree, best)))
        THEN Content("markdown", "rendered_dom_markdown", Rendered(page.tree, best))
        ELSE IF hasReadable THEN Content("markdown", "readability_markdown", page.readable)
        ELSE Content("text", "inner_text", page.visible)
=============================================================================
