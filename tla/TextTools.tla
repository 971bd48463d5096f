------------------------------ MODULE TextTools ------------------------------
(***************************************************************************)
(* The tools that only read (internal/mcpserver): cat, head, tail and grep *)
(* on a workspace file, and coreutils_run, which runs a command of package *)
(* coreutils on the text it is given.  A caller makes one call after       *)
(* another and may pass a command the output of the call before.           *)
(*                                                                         *)
(* A text is a sequence of bytes, each a character of its own.  What Go's  *)
(* library does with it is cut down to this: white space is SPACE and NL,  *)
(* a number is a run of digits, compared exactly, a delimiter is one byte, *)
(* and a pattern is literal text.  SliceStable is the insertion sort it is *)
(* up to 20 lines.                                                         *)
(***************************************************************************)
EXTENDS Integers, SequencesExt, FiniteSetsExt

CONSTANTS
  Files,             \* contents of the file that is read
  Arguments,         \* of each tool, the argument lists it is called with
  MaxCalls,          \* bound on the calls of a behaviour
  MaxLineLength,     \* limits of the code, in bytes ...
  MaxFileReadBytes,
  MaxResultBytes,
  MaxStdin,          \* the 64 KiB of the schema of coreutils_run
  MaxStdout,         \* the 256 KiB of runCoreutils
  MaxGrepMatches,    \* ... and in lines
  MaxCount           \* the 10000 of validateLineCount

VARIABLES
  file,   \* the content of the workspace file
  calls,  \* how many calls were made
  call,   \* the last one: its tool, arguments and input
  reply   \* what it answered

vars == <<file, calls, call, reply>>

(* What is printed in ASCII, and the line feed: a character is one byte.   *)
Bytes == {10} \cup 32..126
Texts == Seq(Bytes)

(* A run of equal lines, of at most 64 KiB, is counted in seven columns.   *)
ASSUME LimitsAssumption ==
  /\ {MaxLineLength, MaxFileReadBytes, MaxResultBytes, MaxStdin, MaxStdout, MaxGrepMatches} \subseteq Nat \ {0}
  /\ MaxCount \in Nat /\ MaxCalls \in Nat
  /\ MaxStdin < 10 * (1000 * 1000)

ASSUME FilesAssumption == Files \subseteq Texts

(* What the schemas let through.  The delimiter of cut is one byte.        *)
ASSUME ArgumentsAssumption ==
  /\ \A tool \in {"cat", "head_file", "tail_file"} : \A args \in Arguments[tool] : args[1] \in Nat
  /\ \A args \in Arguments["grep"] : args[1] \in Texts /\ args[2] \in Nat
  /\ \A tool \in {"sort", "uniq", "wc", "tr", "head", "tail", "cut"} : Arguments[tool] \subseteq Seq(Texts)
  /\ \A args \in Arguments["cut"] : Len(args) = 4 => Len(args[2]) <= 1

(* Bytes and options.                                                      *)
NL == 10
SPACE == 32
COMMA == 44
COLON == 58
Digits == 48..57
DashC == <<45, 99>>
DashD == <<45, 100>>
DashF == <<45, 102>>
DashL == <<45, 108>>
DashN == <<45, 110>>
DashR == <<45, 114>>
DashW == <<45, 119>>

Least(m, n) == IF m <= n THEN m ELSE n
InOrder(S) == [n \in 1..Cardinality(S) |-> CHOOSE x \in S : Cardinality({y \in S : y < x}) = n - 1]
ElementsAt(seq, S) == LET at == InOrder(S) IN [k \in DOMAIN at |-> seq[at[k]]]

-----------------------------------------------------------------------------
(* Lines and limits (coreutils.go).                                        *)

Split(text, sep) ==
  LET at == InOrder({0, Len(text) + 1} \cup {i \in DOMAIN text : text[i] = sep})
  IN  [k \in 1..(Len(at) - 1) |-> SubSeq(text, at[k] + 1, at[k + 1] - 1)]

Join(parts, sep) ==
  IF parts = << >> THEN << >>
  ELSE Tail(FlattenSeq([k \in DOMAIN parts |-> <<sep>> \o parts[k]]))

SplitLines(text) ==
  IF text = << >> THEN << >>
  ELSE Split(IF Last(text) = NL THEN Front(text) ELSE text, NL)

JoinLines(lines) == FlattenSeq([k \in DOMAIN lines |-> Append(lines[k], NL)])

Clamp(text, limit) == SubSeq(text, 1, Least(limit, Len(text)))
ClampLine(line) == Clamp(line, MaxLineLength)
ClampLines(lines) == [k \in DOMAIN lines |-> ClampLine(lines[k])]

Decimal[n \in Nat] ==
  IF n < 10 THEN <<48 + n>> ELSE Decimal[n \div 10] \o <<48 + (n % 10)>>

IsNumber(text) == text # << >> /\ ToSet(text) \subseteq Digits
Value(text) ==
  LET upto[i \in 0..Len(text)] == IF i = 0 THEN 0 ELSE 10 * upto[i - 1] + text[i] - 48
  IN  upto[Len(text)]

-----------------------------------------------------------------------------
(* The utilities (text.go, search.go).  Those that can leave out text      *)
(* report whether they did.                                                *)

Bounded(lines, dropped) ==
  [text |-> JoinLines(ClampLines(lines)), truncated |-> dropped \/ ClampLines(lines) # lines]

HeadLines(text, n) ==
  LET lines == SplitLines(text)
  IN  Bounded(SubSeq(lines, 1, Least(n, Len(lines))), Len(lines) > n)

TailLines(text, n) ==
  LET lines == SplitLines(text)
  IN  Bounded(SubSeq(lines, Len(lines) - Least(n, Len(lines)) + 1, Len(lines)), Len(lines) > n)

Blank(c) == c \in {SPACE, NL}

WordCount(text) ==
  [lines |-> Cardinality({i \in DOMAIN text : text[i] = NL})
               + (IF text # << >> /\ Last(text) # NL THEN 1 ELSE 0),
   words |-> Cardinality({i \in DOMAIN text : ~Blank(text[i]) /\ (i = 1 \/ Blank(text[i - 1]))}),
   bytes |-> Len(text)]

(* Numbers come before one another by value; a line that is no number is   *)
(* compared as text, also with one that is.                                *)
TextLess(x, y) ==
  \E k \in DOMAIN y : /\ k <= Len(x) + 1
                      /\ SubSeq(x, 1, k - 1) = SubSeq(y, 1, k - 1)
                      /\ k <= Len(x) => x[k] < y[k]

TrimSpace(line) ==
  LET solid == {i \in DOMAIN line : line[i] # SPACE}
  IN  IF solid = {} THEN << >> ELSE SubSeq(line, Min(solid), Max(solid))

Less(x, y, numeric) ==
  IF numeric /\ IsNumber(TrimSpace(x)) /\ IsNumber(TrimSpace(y))
  THEN Value(TrimSpace(x)) < Value(TrimSpace(y))
  ELSE TextLess(x, y)

Place(sorted, line, numeric) ==
  LET before == {k \in DOMAIN sorted : ~Less(line, sorted[k], numeric)}
  IN  InsertAt(sorted, Max({0} \cup before) + 1, line)

Sort(text, reverse, numeric) ==
  LET lines == SplitLines(text)
      upto[i \in 0..Len(lines)] == IF i = 0 THEN << >> ELSE Place(upto[i - 1], lines[i], numeric)
      sorted == upto[Len(lines)]
  IN  JoinLines(IF reverse THEN Reverse(sorted) ELSE sorted)

(* A counted run is printed with "%7d ".                                   *)
CountColumn(n) == [k \in 1..(7 - Least(7, Len(Decimal[n]))) |-> SPACE] \o Decimal[n] \o <<SPACE>>

Uniq(text, count) ==
  LET lines  == SplitLines(text)
      starts == InOrder({k \in DOMAIN lines : k = 1 \/ lines[k] # lines[k - 1]})
      run(k) == (IF k = Len(starts) THEN Len(lines) + 1 ELSE starts[k + 1]) - starts[k]
  IN  JoinLines([k \in DOMAIN starts |->
        (IF count THEN CountColumn(run(k)) ELSE << >>) \o lines[starts[k]]])

Cut(text, delimiter, fields) ==
  LET selected(line) ==
        LET parts == Split(line, delimiter)
            there == ElementsAt(fields, {n \in DOMAIN fields : fields[n] <= Len(parts)})
        IN  Join([k \in DOMAIN there |-> parts[there[k]]], delimiter)
      lines == SplitLines(text)
  IN  JoinLines([k \in DOMAIN lines |-> selected(lines[k])])

Delete(text, from) == ElementsAt(text, {i \in DOMAIN text : text[i] \notin ToSet(from)})

\* Faulty variant: the first mapping wins.
TranslateFirst(text, from, to) ==
  LET image(c) == to[Least(Min({i \in DOMAIN from : from[i] = c}), Len(to))]
  IN  [i \in DOMAIN text |-> IF text[i] \in ToSet(from) THEN image(text[i]) ELSE text[i]]

(* The last mapping of a byte wins; the last target serves all the rest.   *)
Translate(text, from, to) ==
  LET image(c) == to[Least(Max({i \in DOMAIN from : from[i] = c}), Len(to))]
  IN  [i \in DOMAIN text |-> IF text[i] \in ToSet(from) THEN image(text[i]) ELSE text[i]]

HasText(line, needle) ==
  \E i \in 0..(Len(line) - Len(needle)) : SubSeq(line, i + 1, i + Len(needle)) = needle

Grep(text, pattern, max) ==
  LET lines == SplitLines(text)
      hits  == InOrder({k \in DOMAIN lines : HasText(lines[k], pattern)})
      kept  == SubSeq(hits, 1, Least(max, Len(hits)))
  IN  [text |-> JoinLines([k \in DOMAIN kept |-> Decimal[kept[k]] \o <<COLON>> \o ClampLine(lines[kept[k]])]),
       truncated |-> \/ Len(hits) > max
                     \/ \E k \in DOMAIN kept : ClampLine(lines[kept[k]]) # lines[kept[k]]]

-----------------------------------------------------------------------------
(* The tools on a file (tools.go).  readFile reads one byte more than it   *)
(* returns, to see whether there is more.                                  *)

\* Faulty variant: what is beyond the limit goes unnoticed.
ReadFileSilently(limit) ==
  [text |-> Clamp(file, limit), truncated |-> FALSE]

ReadFile(limit) == [text |-> Clamp(file, limit), truncated |-> Len(file) > limit]

Init == /\ file \in Files /\ calls = 0
        /\ call = [tool |-> "none", args |-> << >>, input |-> << >>]
        /\ reply = [ok |-> TRUE, output |-> << >>, truncated |-> FALSE]

Respond(tool, args, input, answer) ==
  /\ calls < MaxCalls /\ calls' = calls + 1
  /\ call' = [tool |-> tool, args |-> args, input |-> input]
  /\ reply' = answer
  /\ UNCHANGED file

Refused == [ok |-> FALSE, output |-> << >>, truncated |-> FALSE]

(* callTool clamps the output of a tool.                                   *)
Answer(text, truncated) ==
  [ok |-> TRUE, output |-> Clamp(text, MaxResultBytes),
   truncated |-> truncated \/ Len(text) > MaxResultBytes]

Cat == \E args \in Arguments["cat"] :
  LET read  == ReadFile(Least(args[1], MaxFileReadBytes))
      lines == SplitLines(read.text)
      whole == JoinLines(ClampLines(lines))
  IN  Respond("cat", args, file,
        Answer(Clamp(whole, args[1]), read.truncated \/ ClampLines(lines) # lines \/ Len(whole) > args[1]))

HeadFile == \E args \in Arguments["head_file"] :
  LET read == ReadFile(MaxFileReadBytes)
      head == HeadLines(read.text, args[1])
  IN  Respond("head_file", args, file, Answer(head.text, read.truncated \/ head.truncated))

TailFile == \E args \in Arguments["tail_file"] :
  LET read == ReadFile(MaxFileReadBytes)
      tail == TailLines(read.text, args[1])
  IN  Respond("tail_file", args, file, Answer(tail.text, read.truncated \/ tail.truncated))

(* grep on a path or on a text, a text that is too long being refused.     *)
GrepAnswer(read, pattern, max) ==
  LET found == Grep(read.text, pattern, Least(max, MaxGrepMatches))
  IN  IF pattern = << >> THEN Refused
      ELSE Answer(found.text, read.truncated \/ found.truncated)

GrepFile == \E args \in Arguments["grep"] :
  Respond("grep", args, file, GrepAnswer(ReadFile(MaxFileReadBytes), args[1], args[2]))

GrepText == \E args \in Arguments["grep"], text \in {file, reply.output} :
  Respond("grep", args, text,
    IF Len(text) > MaxFileReadBytes THEN Refused
    ELSE GrepAnswer([text |-> text, truncated |-> FALSE], args[1], args[2]))

-----------------------------------------------------------------------------
(* coreutils_run (tools.go:197-226) and its commands (command.go).         *)

ValidSort(args) == ToSet(args) \subseteq {DashR, DashN}
ValidUniq(args) == args \in {<< >>, <<DashC>>}
ValidWC(args) == ToSet(args) \subseteq {DashL, DashW, DashC}
ValidTr(args) == Len(args) = 2
ValidLineCount(args) ==
  Len(args) = 2 /\ args[1] = DashN /\ IsNumber(args[2]) /\ Value(args[2]) <= MaxCount
ValidCut(args) ==
  /\ Len(args) = 4 /\ args[1] = DashD /\ args[2] # << >> /\ args[3] = DashF
  /\ \A field \in ToSet(Split(args[4], COMMA)) : IsNumber(field) /\ Value(field) \in 1..1024

(* callTool refuses a longer text than the schema allows.                  *)
Run(name, valid, args, stdin, stdout) ==
  Respond(name, args, stdin,
    IF ~valid \/ Len(stdin) > MaxStdin THEN Refused
    ELSE [ok |-> TRUE, output |-> Clamp(stdout, MaxStdout), truncated |-> Len(stdout) > MaxStdout])

Stdin == {file, reply.output}

RunSort == \E args \in Arguments["sort"], stdin \in Stdin :
  Run("sort", ValidSort(args), args, stdin, Sort(stdin, DashR \in ToSet(args), DashN \in ToSet(args)))

RunUniq == \E args \in Arguments["uniq"], stdin \in Stdin :
  Run("uniq", ValidUniq(args), args, stdin, Uniq(stdin, Len(args) = 1))

Counts(args, c) ==
  LET number(option) == CASE option = DashL -> c.lines [] option = DashW -> c.words [] OTHER -> c.bytes
      order == IF args = << >> THEN <<DashL, DashW, DashC>> ELSE args
  IN  Append(Join([k \in DOMAIN order |-> Decimal[number(order[k])]], SPACE), NL)

RunWC == \E args \in Arguments["wc"], stdin \in Stdin :
  Run("wc", ValidWC(args), args, stdin, Counts(args, WordCount(stdin)))

(* Tr refuses an empty set to translate from, or to.                       *)
RunTr == \E args \in Arguments["tr"], stdin \in Stdin :
  LET delete == args[1] = DashD
      sets   == IF delete THEN args[2] # << >> ELSE args[1] # << >> /\ args[2] # << >>
  IN  Run("tr", ValidTr(args) /\ sets, args, stdin,
          IF delete THEN Delete(stdin, args[2]) ELSE Translate(stdin, args[1], args[2]))

(* The commands head and tail drop what the utility says of truncation.    *)
RunHead == \E args \in Arguments["head"], stdin \in Stdin :
  Run("head", ValidLineCount(args), args, stdin, HeadLines(stdin, Value(args[2])).text)

RunTail == \E args \in Arguments["tail"], stdin \in Stdin :
  Run("tail", ValidLineCount(args), args, stdin, TailLines(stdin, Value(args[2])).text)

RunCut == \E args \in Arguments["cut"], stdin \in Stdin :
  LET parts == Split(args[4], COMMA)
  IN  Run("cut", ValidCut(args), args, stdin,
          Cut(stdin, args[2][1], [k \in DOMAIN parts |-> Value(parts[k])]))

(* A grep that names both a path and a text, or neither, is refused, and   *)
(* so is a command that is not in the registry.                            *)
Refuse == \E tool \in {"grep", "unlisted"} : Respond(tool, << >>, << >>, Refused)

(* The caller may stop whenever it likes.                                  *)
Next == \/ Cat \/ HeadFile \/ TailFile \/ GrepFile \/ GrepText
        \/ RunSort \/ RunUniq \/ RunWC \/ RunTr \/ RunHead \/ RunTail \/ RunCut \/ Refuse

Spec == Init /\ [][Next]_vars

-----------------------------------------------------------------------------
(* What the answers are held against.                                      *)

Answered(tools) == call.tool \in tools /\ reply.ok
Given == SplitLines(call.input)
Shown == SplitLines(reply.output)

(* A reader may rely on the flag: a file tool whose answer is not marked   *)
(* as truncated has shown every line of the file, or every matching line   *)
(* of the text, in full.  Four limits apply one after another (readFile,   *)
(* ClampLines, the count of lines, callTool) and each must raise the flag. *)
UnflaggedIsComplete ==
  ~reply.truncated =>
    /\ Answered({"cat", "head_file", "tail_file"}) => Shown = Given
    /\ Answered({"grep"}) =>
         LET hits == InOrder({k \in DOMAIN Given : HasText(Given[k], call.args[1])})
         IN  Shown = [k \in DOMAIN hits |-> Decimal[hits[k]] \o <<COLON>> \o Given[hits[k]]]

(* The commands against a second definition: uniq -c restores its    *)
(* input, wc counts the words line by line, head and tail show the n lines *)
(* at their end, cut finds a field by the delimiters before it, tr applies *)
(* its pairs one after another.                                            *)
UniqMerges ==
  LET counted == call.args = <<DashC>>
      line(k) == IF counted THEN SubSeq(Shown[k], 9, Len(Shown[k])) ELSE Shown[k]
      run(k)  == Value(TrimSpace(SubSeq(Shown[k], 1, 7)))
  IN  /\ \A k \in 2..Len(Shown) : line(k) # line(k - 1)
      /\ ToSet([k \in DOMAIN Shown |-> line(k)]) = ToSet(Given)
      /\ counted => FlattenSeq([k \in DOMAIN Shown |-> [i \in 1..run(k) |-> line(k)]]) = Given

WcCounts ==
  LET parts(k) == Split(Given[k], SPACE)
      words == UNION { {k} \X {j \in DOMAIN parts(k) : parts(k)[j] # << >>} : k \in DOMAIN Given }
  IN  reply.output = Counts(call.args,
        [lines |-> Len(Given), words |-> Cardinality(words), bytes |-> Len(call.input)])

EndsShown ==
  LET n == Least(Value(call.args[2]), Len(Given))
      skipped == IF call.tool = "head" THEN 0 ELSE Len(Given) - n
  IN  /\ Len(Shown) = n
      /\ \A k \in 1..n : /\ IsPrefix(Shown[k], Given[skipped + k])
                         /\ Len(Shown[k]) = Least(MaxLineLength, Len(Given[skipped + k]))

CutSelects ==
  LET d == call.args[2][1]
      fields == [k \in DOMAIN Split(call.args[4], COMMA) |-> Value(Split(call.args[4], COMMA)[k])]
      fieldOf(line, i) == 1 + Cardinality({j \in 1..(i - 1) : line[j] = d})
      content(line, f) == ElementsAt(line, {i \in DOMAIN line : line[i] # d /\ fieldOf(line, i) = f})
      wanted(line) == ElementsAt(fields, {n \in DOMAIN fields : fields[n] <= fieldOf(line, Len(line) + 1)})
  IN  reply.output = JoinLines([k \in DOMAIN Given |->
        Join([n \in DOMAIN wanted(Given[k]) |-> content(Given[k], wanted(Given[k])[n])], d)])

TrReplaces ==
  LET from == call.args[1]
      to   == call.args[2]
      image[i \in 0..Len(from)] ==
        IF i = 0 THEN [c \in Bytes |-> c]
        ELSE [image[i - 1] EXCEPT ![from[i]] = to[Least(i, Len(to))]]
  IN  IF from = DashD
      THEN reply.output = FlattenSeq([i \in DOMAIN call.input |->
             IF Contains(to, call.input[i]) THEN << >> ELSE <<call.input[i]>>])
      ELSE reply.output = [i \in DOMAIN call.input |-> image[Len(from)][call.input[i]]]

(* sort loses and invents no line.  Its result is ordered, in numeric mode *)
(* by value with equal values in the order given, as long as all lines are *)
(* numbers or none is: with both kinds the comparison is no order.         *)
SortOrders ==
  LET numeric == DashN \in ToSet(call.args) /\ \E k \in DOMAIN Given : IsNumber(TrimSpace(Given[k]))
      mixed   == numeric /\ \E k \in DOMAIN Given : ~IsNumber(TrimSpace(Given[k]))
      upwards == IF DashR \in ToSet(call.args) THEN Reverse(Shown) ELSE Shown
      key(line) == IF numeric THEN Value(TrimSpace(line)) ELSE 0
  IN  /\ ToBag(Shown) = ToBag(Given)
      /\ mixed \/ \A j \in DOMAIN upwards : \A i \in 1..(j - 1) :
           IF numeric THEN key(upwards[i]) <= key(upwards[j]) ELSE ~TextLess(upwards[j], upwards[i])
      /\ numeric /\ ~mixed => \A line \in ToSet(Given) :
           LET equals(lines) == ElementsAt(lines, {k \in DOMAIN lines : key(lines[k]) = key(line)})
           IN  equals(upwards) = equals(Given)

(* Each command of coreutils_run computes what its second definition says. *)
CommandsAgree ==
  ~reply.truncated =>
    /\ Answered({"sort"}) => SortOrders
    /\ Answered({"uniq"}) => UniqMerges
    /\ Answered({"wc"}) => WcCounts
    /\ Answered({"head", "tail"}) => EndsShown
    /\ Answered({"cut"}) => CutSelects
    /\ Answered({"tr"}) => TrReplaces
=============================================================================
