--------------------------- MODULE WorkspaceTools ---------------------------
(***************************************************************************)
(* The tools of internal/mcpserver that change the workspace: touch,       *)
(* mkdir, cp, mv, rm, rmdir and write_file, and find, which walks through  *)
(* it meanwhile, as callTool runs them.  The stdio server runs one call at *)
(* a time; the HTTP server runs every request in a goroutine of its own,   *)
(* so that the system calls of several handlers interleave.  One Worker is *)
(* one such goroutine.                                                     *)
(*                                                                         *)
(* A path is a sequence of names below the workspace root << >>.  Content  *)
(* is abstracted to the identifiers of the calls that wrote it, all texts  *)
(* being equally long; 0 is content that was there before.  Symbolic links *)
(* sit in the root and name another entry of it that is no link, and a     *)
(* file may have several names (hard links): no tool makes either, but a   *)
(* workspace may hold them.                                                *)
(***************************************************************************)
EXTENDS Integers, Sequences, SequencesExt, FiniteSets

CONSTANTS
    Workers,   \* goroutines that handle requests
    Names,     \* file names
    Requests,  \* the arguments tools are called with, by transport
    Initial,   \* what may be in the workspace: functions from Path to Entry
    MaxFindResults,
    MaxCopy,   \* what cp copies at most (maxCopyBytes)
    MaxCalls   \* bound: tool calls

Root == << >>
Path == {Root} \cup {<<n>> : n \in Names} \cup {<<n, m>> : n, m \in Names}
Nothing == [kind |-> "none", node |-> 0, target |-> Root]
Directory == [kind |-> "dir", node |-> 0, target |-> Root]
File(n) == [kind |-> "file", node |-> n, target |-> Root]
Link(p) == [kind |-> "link", node |-> 0, target |-> p]
Entry == {e \in [kind : {"none", "file", "dir", "link"}, node : Nat, target : Path] :
              e \in {Nothing, Directory, File(e.node), Link(e.target)}}

(* A tree of entries, in which a file may have several names. *)
FilesIn(tree) == {p \in Path : tree[p].kind = "file"}
NodesIn(tree) == {tree[p].node : p \in FilesIn(tree)}
IsTree(tree) ==
    /\ tree[Root].kind = "dir"
    /\ \A p \in Path : tree[p].kind # "none" /\ p # Root => tree[Front(p)].kind = "dir"

Tools == {"touch", "mkdir", "cp", "mv", "rm", "rmdir", "write_file", "find"}
Transports == {"stdio", "http"}
(* names are those that find's pattern matches; max 0 is no max_results. *)
Request == [tool : Tools, source : Path, path : Path, append : BOOLEAN, overwrite : BOOLEAN,
            names : SUBSET Names, max : Nat]

ASSUME WorkspaceAssumption ==
    /\ MaxCalls \in Nat /\ MaxCopy \in Nat /\ MaxFindResults \in Nat \ {0} /\ IsFiniteSet(Names)
    /\ \A transport \in DOMAIN Requests :
           transport \in Transports /\ Requests[transport] \subseteq Request
    /\ \A tree \in Initial :
           /\ tree \in [Path -> Entry] /\ IsTree(tree)
           /\ IsFiniteSet(NodesIn(tree)) /\ NodesIn(tree) = 1..Cardinality(NodesIn(tree))
           /\ \A p \in Path :
                  tree[p].kind = "link" =>
                      /\ Len(p) = 1 /\ Len(tree[p].target) = 1
                      /\ tree[tree[p].target].kind # "link"

VARIABLES
    transport,\* which server it is
    fs,       \* the entry at every path
    data,     \* the content of every file ever created, by node
    call,     \* what every worker is doing
    asked,    \* the request of every call so far
    outcome,  \* how it ended
    before,   \* over stdio, the workspace when the last call began (for the properties)
    seen      \* the entries a find may, and those it must have met (for the properties)

vars == <<transport, fs, data, call, asked, outcome, before, seen>>
-----------------------------------------------------------------------------
(* The file system. *)
Exists(p) == fs[p].kind # "none"
IsFile(p) == fs[p].kind = "file"
IsDir(p) == fs[p].kind = "dir"
Follow(p) == IF fs[p].kind = "link" THEN fs[p].target ELSE p
Inside(p, d) == Len(p) > Len(d) /\ IsPrefix(d, p)
HasEntries(d) == \E p \in Path : Inside(p, d) /\ Exists(p)

(* filepath.EvalSymlinks. *)
EvalSymlinks(p) == IF Len(p) = 2 THEN Append(Follow(<<p[1]>>), p[2]) ELSE Follow(p)

(* os.Remove takes a file, a link or an empty directory. *)
CanRemove(p) == Exists(p) /\ ~HasEntries(p)
Removed(p) == [fs EXCEPT ![p] = Nothing]

(* os.Rename replaces a file or a link, never a directory; a directory does *)
(* not go below itself; of two names of one file it keeps both.  (Bound:    *)
(* nothing goes below the depth of Path.)                                   *)
CanRename(s, d) ==
    /\ Exists(s) /\ ~IsDir(d) /\ IsDir(Front(d)) /\ ~Inside(d, s)
    /\ IsDir(s) => ~Exists(d) /\ (HasEntries(s) => Len(d) = 1)
Below(d, s, p) == s \o SubSeq(p, Len(d) + 1, Len(p))
Moved(s, d) ==
    [p \in Path |-> IF IsPrefix(d, p)
                    THEN IF Below(d, s, p) \in Path THEN fs[Below(d, s, p)] ELSE Nothing
                    ELSE IF IsPrefix(s, p) THEN Nothing ELSE fs[p]]
Renamed(s, d) == IF IsFile(s) /\ fs[s] = fs[d] THEN fs ELSE Moved(s, d)

(* Opening for writing follows a link and creates a file that is missing. *)
CanOpen(p) == IsFile(Follow(p)) \/ (~Exists(Follow(p)) /\ IsDir(Front(Follow(p))))
OpenNode(p) == IF IsFile(Follow(p)) THEN fs[Follow(p)].node ELSE Len(data) + 1
Opened(p, truncate) ==
    IF IsFile(Follow(p))
    THEN /\ fs' = fs
         /\ data' = IF truncate THEN [data EXCEPT ![OpenNode(p)] = << >>] ELSE data
    ELSE /\ fs' = [fs EXCEPT ![Follow(p)] = File(Len(data) + 1)]
         /\ data' = Append(data, << >>)

(* Writing at the start of a file leaves what lies beyond the new text. *)
WrittenOver(old, new) == new \o SubSeq(old, Len(new) + 1, Len(old))

(* What has been written when a write and the Close that follows it end so: *)
(* a write may fail after a part of the text, a Close after all of it.      *)
Written(text, result) ==
    IF result = "ok" THEN {text} ELSE {SubSeq(text, 1, k) : k \in 0..Len(text)}
-----------------------------------------------------------------------------
Idle == [pc |-> "idle", id |-> 0, source |-> Root, path |-> Root, input |-> 0, output |-> 0,
         todo |-> << >>, found |-> << >>, truncated |-> FALSE]
Req(w) == asked[call[w].id]
At(w, pc) == call[w].pc = pc
Goto(w, pc) == call' = [call EXCEPT ![w].pc = pc]
Finish(w, result) ==
    /\ call' = [call EXCEPT ![w] = Idle]
    /\ outcome' = [outcome EXCEPT ![call[w].id] = result]
Fail(w) == Finish(w, "error") /\ UNCHANGED <<fs, data>>

(* What a find meets lies there at some time of its call; what it has to   *)
(* meet lies there at every time.                                          *)
Entries == {[path |-> p, kind |-> fs[p].kind] : p \in {q \in Path : Exists(q)}}
Unseen == [ever |-> {}, always |-> {}]
Finding(w) == ~At(w, "idle") /\ Req(w).tool = "find"
Quiet ==
    /\ UNCHANGED <<transport, asked, before>>
    /\ seen' = [w \in Workers |-> IF Finding(w)' THEN [ever |-> seen[w].ever \cup Entries',
                                                       always |-> seen[w].always \cap Entries']
                                  ELSE Unseen]

Init ==
    /\ transport \in DOMAIN Requests
    /\ fs \in Initial
    /\ data = [n \in NodesIn(fs) |-> <<0>>]
    /\ call = [w \in Workers |-> Idle]
    /\ asked = << >> /\ outcome = << >>
    /\ before = <<fs, data>>
    /\ seen = [w \in Workers |-> Unseen]

(* callTool starts a handler on valid arguments. *)
Begin(w) ==
    /\ At(w, "idle") /\ Len(asked) < MaxCalls
    /\ transport = "stdio" => \A v \in Workers : At(v, "idle")
    /\ \E req \in Requests[transport] :
           /\ asked' = Append(asked, req)
           /\ call' = [call EXCEPT ![w] =
                 [Idle EXCEPT !.pc = IF req.tool \in {"cp", "mv"} THEN "source" ELSE "path",
                              !.id = Len(asked) + 1]]
           /\ seen' = [seen EXCEPT ![w] = IF req.tool = "find"
                                          THEN [ever |-> Entries, always |-> Entries] ELSE Unseen]
    /\ outcome' = Append(outcome, "running")
    /\ before' = IF transport = "stdio" THEN <<fs, data>> ELSE before
    /\ UNCHANGED <<transport, fs, data>>

(* cp and mv resolve their source; cp wants a regular file that is not too  *)
(* large, mv not the root.                                                  *)
ResolveSource(w) ==
    /\ At(w, "source")
    /\ LET p == EvalSymlinks(Req(w).source) IN
       IF /\ Exists(p)
          /\ Req(w).tool = "cp" => IsFile(p) /\ Len(data[fs[p].node]) <= MaxCopy
          /\ Req(w).tool = "mv" => p # Root
       THEN /\ call' = [call EXCEPT ![w].source = p, ![w].pc = "path"]
            /\ UNCHANGED <<fs, data, outcome>>
       ELSE Fail(w)
    /\ Quiet

(* resolvePath and resolveTouchPath: only the latter, which the tools use  *)
(* that create something, accepts a missing entry of a directory.          *)
Creates(tool) == tool \notin {"rm", "rmdir", "find"}

\* Faulty variant: rm and rmdir accept the root.
CanResolveRoot(req) ==
    \/ Exists(EvalSymlinks(req.path))
    \/ Creates(req.tool) /\ IsDir(EvalSymlinks(Front(req.path)))

CanResolve(req) ==
    LET p == EvalSymlinks(req.path) IN
    \/ Exists(p) /\ (req.tool \in {"rm", "rmdir"} => p # Root)
    \/ ~Exists(p) /\ Creates(req.tool) /\ IsDir(EvalSymlinks(Front(req.path)))
ResolvedPath(req) ==
    LET p == EvalSymlinks(req.path) IN
    IF Exists(p) THEN p ELSE Append(EvalSymlinks(Front(req.path)), Last(req.path))

\* Faulty variant: cp does not compare the paths.
CanProceedOntoItself(w) ==
    /\ CanResolve(Req(w))
    /\ Req(w).tool = "write_file" => ~(Req(w).append /\ Req(w).overwrite)

CanProceed(w) ==
    /\ CanResolve(Req(w))
    /\ Req(w).tool = "write_file" => ~(Req(w).append /\ Req(w).overwrite)
    /\ Req(w).tool = "cp" => ResolvedPath(Req(w)) # call[w].source

ResolveTarget(w) ==
    /\ At(w, "path")
    /\ IF CanProceed(w)
       THEN /\ call' = [call EXCEPT ![w].path = ResolvedPath(Req(w)),
                                    ![w].pc = IF Req(w).tool \in {"touch", "mkdir"} THEN "act" ELSE "check"]
            /\ UNCHANGED <<fs, data, outcome>>
       ELSE Fail(w)
    /\ Quiet

\* Faulty variant: only directories are protected.
AllowsAnyFile(w) ==
    LET p == call[w].path IN
    CASE Req(w).tool \in {"cp", "mv", "write_file"} -> ~IsDir(p)
      [] Req(w).tool = "rm" -> IsFile(p)
      [] Req(w).tool \in {"rmdir", "find"} -> IsDir(p)

(* What the handlers require of the entry they find (cp follows links). *)
Allows(w) ==
    LET p == call[w].path
    IN  CASE Req(w).tool = "cp" -> Exists(Follow(p)) => Req(w).overwrite
          [] Req(w).tool = "mv" -> Exists(p) => Req(w).overwrite
          [] Req(w).tool = "rm" -> IsFile(p)
          [] Req(w).tool = "rmdir" -> IsDir(p)
          [] Req(w).tool = "find" -> IsDir(Follow(p))
          [] Req(w).tool = "write_file" ->
                 Exists(p) => IsFile(p) /\ (Req(w).append \/ Req(w).overwrite)

Check(w) ==
    /\ At(w, "check")
    /\ IF Allows(w) THEN Goto(w, "act") /\ UNCHANGED <<fs, data, outcome>> ELSE Fail(w)
    /\ Quiet

Mkdir(w) ==
    /\ At(w, "act") /\ Req(w).tool = "mkdir"
    /\ IF ~Exists(call[w].path) /\ IsDir(Front(call[w].path))
       THEN /\ fs' = [fs EXCEPT ![call[w].path] = Directory]
            /\ Finish(w, "ok") /\ UNCHANGED data
       ELSE Fail(w)
    /\ Quiet

\* Faulty variant: mv clears its destination first.
ClearAndRename(w) ==
    /\ At(w, "act") /\ Req(w).tool = "mv"
    /\ IF CanRename(call[w].source, call[w].path)
       THEN /\ fs' = Renamed(call[w].source, call[w].path)
            /\ Finish(w, "ok") /\ UNCHANGED data
       ELSE /\ fs' = IF CanRemove(call[w].path) THEN Removed(call[w].path) ELSE fs
            /\ Finish(w, "error") /\ UNCHANGED data
    /\ Quiet

Rename(w) ==
    /\ At(w, "act") /\ Req(w).tool = "mv"
    /\ IF CanRename(call[w].source, call[w].path)
       THEN /\ fs' = Renamed(call[w].source, call[w].path)
            /\ Finish(w, "ok") /\ UNCHANGED data
       ELSE Fail(w)
    /\ Quiet

RemoveEntry(w) ==
    /\ At(w, "act") /\ Req(w).tool \in {"rm", "rmdir"}
    /\ IF CanRemove(call[w].path)
       THEN /\ fs' = Removed(call[w].path)
            /\ Finish(w, "ok") /\ UNCHANGED data
       ELSE Fail(w)
    /\ Quiet

OpenSource(w) ==
    /\ At(w, "act") /\ Req(w).tool = "cp"
    /\ IF IsFile(call[w].source)
       THEN /\ call' = [call EXCEPT ![w].input = fs[call[w].source].node, ![w].pc = "open"]
            /\ UNCHANGED <<fs, data, outcome>>
       ELSE Fail(w)
    /\ Quiet

\* Faulty variant: an append truncates as well.
TruncatesAlways(req) == req.tool # "touch"

Truncates(req) == req.tool = "cp" \/ (req.tool = "write_file" /\ ~req.append)

(* touch, write_file and cp open what they write, creating it if need be. *)
Open(w) ==
    /\ At(w, "open") \/ (At(w, "act") /\ Req(w).tool \in {"touch", "write_file"})
    /\ IF CanOpen(call[w].path)
       THEN /\ Opened(call[w].path, Truncates(Req(w)))
            /\ call' = [call EXCEPT ![w].output = OpenNode(call[w].path), ![w].pc = "finish"]
            /\ UNCHANGED outcome
       ELSE Fail(w)
    /\ Quiet

(* The file is closed: only its time is left to be set. *)
Chtimes(w) ==
    /\ At(w, "finish") /\ Req(w).tool = "touch"
    /\ Finish(w, IF Exists(Follow(call[w].path)) THEN "ok" ELSE "error")
    /\ UNCHANGED <<fs, data>>
    /\ Quiet

WriteString(w) ==
    /\ At(w, "finish") /\ Req(w).tool = "write_file"
    /\ \E result \in {"ok", "error"} : \E text \in Written(<<call[w].id>>, result) :
           /\ data' = [data EXCEPT ![call[w].output] =
                          IF Req(w).append THEN @ \o text ELSE WrittenOver(@, text)]
           /\ Finish(w, result)
    /\ UNCHANGED fs
    /\ Quiet

Copy(w) ==
    /\ At(w, "finish") /\ Req(w).tool = "cp"
    /\ \E result \in {"ok", "error"} : \E text \in Written(data[call[w].input], result) :
           /\ data' = [data EXCEPT ![call[w].output] = WrittenOver(@, text)]
           /\ Finish(w, result)
    /\ UNCHANGED fs
    /\ Quiet

(* filepath.WalkDir in runFind.  It goes through what ReadDir told it of a *)
(* directory, which may be old by then.                                    *)
Visit(p) == [path |-> p, kind |-> fs[p].kind, enter |-> FALSE]
Children(d) == {Append(d, n) : n \in {m \in Names : Append(d, m) \in Path}}
Listing(d) ==
    LET there == SetToSeq({p \in Children(d) : Exists(p)})
    IN  [i \in 1..Len(there) |-> Visit(there[i])]
Limit(req) == IF req.max = 0 \/ req.max > MaxFindResults THEN MaxFindResults ELSE req.max
Continue(w, todo) == call' = [call EXCEPT ![w].pc = "walk", ![w].todo = todo]

StartWalk(w) ==
    /\ At(w, "act") /\ Req(w).tool = "find"
    /\ LET root == call[w].path IN
       IF Exists(root)
       THEN /\ Continue(w, IF IsDir(root) THEN <<[Visit(root) EXCEPT !.enter = TRUE]>> ELSE << >>)
            /\ UNCHANGED <<fs, data, outcome>>
       ELSE Fail(w)
    /\ Quiet

ReadDir(w) ==
    /\ At(w, "walk") /\ call[w].todo # << >> /\ Head(call[w].todo).enter
    /\ LET d == EvalSymlinks(Head(call[w].todo).path) IN
       IF IsDir(d)
       THEN Continue(w, Listing(d) \o Tail(call[w].todo)) /\ UNCHANGED <<fs, data, outcome>>
       ELSE Fail(w)
    /\ Quiet

(* The callback; the walk goes into directories, and never through links. *)
Matched(req, entry) == entry.kind \in {"file", "dir"} /\ Last(entry.path) \in req.names
\* Faulty variant: the limit ends the walk without a flag.
VisitEntryUnflagged(w) ==
    /\ At(w, "walk") /\ call[w].todo # << >> /\ ~Head(call[w].todo).enter
    /\ LET entry == Head(call[w].todo)
           found == IF Matched(Req(w), entry)
                    THEN Append(call[w].found, [path |-> entry.path, kind |-> entry.kind])
                    ELSE call[w].found
           full == Len(found) > Len(call[w].found) /\ Len(found) >= Limit(Req(w))
           rest == (IF entry.kind = "dir" THEN <<[entry EXCEPT !.enter = TRUE]>> ELSE << >>)
                   \o Tail(call[w].todo)
       IN  call' = [call EXCEPT ![w].found = found, ![w].todo = IF full THEN << >> ELSE rest]
    /\ UNCHANGED <<fs, data, outcome>>
    /\ Quiet

VisitEntry(w) ==
    /\ At(w, "walk") /\ call[w].todo # << >> /\ ~Head(call[w].todo).enter
    /\ LET entry == Head(call[w].todo)
           found == IF Matched(Req(w), entry)
                    THEN Append(call[w].found, [path |-> entry.path, kind |-> entry.kind])
                    ELSE call[w].found
           full == Len(found) > Len(call[w].found) /\ Len(found) >= Limit(Req(w))
           rest == (IF entry.kind = "dir" THEN <<[entry EXCEPT !.enter = TRUE]>> ELSE << >>)
                   \o Tail(call[w].todo)
       IN  call' = [call EXCEPT ![w].found = found, ![w].truncated = full,
                                ![w].todo = IF full THEN << >> ELSE rest]
    /\ UNCHANGED <<fs, data, outcome>>
    /\ Quiet

(* The context ends: after MaxDuration, or with an HTTP request. *)
WalkTimesOut(w) ==
    /\ At(w, "walk") /\ call[w].todo # << >> /\ ~Head(call[w].todo).enter
    /\ Fail(w)
    /\ Quiet

WalkEnds(w) ==
    /\ At(w, "walk") /\ call[w].todo = << >>
    /\ Finish(w, "ok") /\ UNCHANGED <<fs, data>>
    /\ Quiet

(* Mkdir, Rename, Remove, OpenFile, Close, Chtimes or ReadDir fails for a  *)
(* reason outside the tree (permissions, a full disk), without effect.     *)
SystemCallFails(w) ==
    /\ \/ call[w].pc \in {"act", "open", "finish"}
       \/ At(w, "walk") /\ call[w].todo # << >> /\ Head(call[w].todo).enter
    /\ Fail(w)
    /\ Quiet

Served == Len(asked) = MaxCalls /\ (\A w \in Workers : At(w, "idle")) /\ UNCHANGED vars

Step(w) ==
    \/ Begin(w) \/ ResolveSource(w) \/ ResolveTarget(w) \/ Check(w)
    \/ Mkdir(w) \/ Rename(w) \/ RemoveEntry(w)
    \/ OpenSource(w) \/ Open(w) \/ Chtimes(w) \/ WriteString(w) \/ Copy(w)
    \/ StartWalk(w) \/ ReadDir(w) \/ VisitEntry(w) \/ WalkTimesOut(w) \/ WalkEnds(w)
    \/ SystemCallFails(w)
Next == (\E w \in Workers : Step(w)) \/ Served
Spec == Init /\ [][Next]_vars
-----------------------------------------------------------------------------
(* Whatever calls interleave and fail, every entry stays in a directory    *)
(* that is there, and the root stays (the guards on s.workspace).          *)
TreeIntact == IsTree(fs)

Stored(n) == \E p \in FilesIn(fs) : fs[p].node = n

(* "Existing files require overwrite:true or append:true" (tools.go:141),  *)
(* and cp, mv say the same: content is only lost in a step of a call that  *)
(* was told to overwrite, or of rm.                                        *)
KeepsExistingFiles ==
    \A n \in 1..Len(data) :
        Stored(n) /\ data[n] # << >> =>
            \/ Stored(n)' /\ IsPrefix(data[n], data'[n])
            \/ \E w \in Workers : /\ call'[w] # call[w] /\ ~At(w, "idle")
                                  /\ Req(w).overwrite \/ Req(w).tool = "rm"
ExistingFilesKept == [][KeepsExistingFiles]_vars

(* One call at a time, that is so. *)
OneAtATime == transport = "stdio"
ExistingFilesKeptInTurn == [][OneAtATime => KeepsExistingFiles]_vars

Adds(req) == req.tool \in {"touch", "mkdir"} \/ (req.tool = "write_file" /\ req.append)

(* Nothing that was appended is lost, however appends, touches and mkdirs  *)
(* interleave: while callers only add, the text of every append that       *)
(* reported success is in some file, once (O_APPEND in runWriteFile).      *)
AppendsKept ==
    (\A i \in 1..Len(asked) : Adds(asked[i])) =>
        \A i \in 1..Len(asked) :
            asked[i].tool = "write_file" /\ outcome[i] = "ok" =>
                \E n \in 1..Len(data) :
                    Stored(n) /\ Cardinality({k \in 1..Len(data[n]) : data[n][k] = i}) = 1

Ends(w, result) == ~At(w, "idle") /\ At(w, "idle")' /\ outcome'[call[w].id] = result

HarmsOnlyItsOutput(w, tree, content) ==
    LET p == Follow(call[w].path) IN
    /\ \A q \in Path :
           tree[q] # before[1][q] =>
               Req(w).tool \in {"touch", "cp", "write_file"} /\ q = p /\ before[1][q] = Nothing
    /\ \A n \in DOMAIN before[2] :
           content[n] # before[2][n] =>
               /\ Req(w).tool \in {"cp", "write_file"} /\ before[1][p] = File(n)
               /\ ~Req(w).overwrite => Req(w).append /\ IsPrefix(before[2][n], content[n])

(* One call at a time, a call that reports an error has removed and        *)
(* replaced no entry, and made none but the file it was to write; it has   *)
(* lost no content but that of the file it was told to overwrite, which a  *)
(* cp or a write_file empties before it can fail (tools.go:361, 741).      *)
FailureHarmsOnlyItsOutput ==
    [][\A w \in Workers :
          OneAtATime /\ Ends(w, "error") => HarmsOnlyItsOutput(w, fs', data')]_vars

Copied(w) == Ends(w, "ok") /\ Req(w).tool = "cp"
SourceHeld(w) == before[2][before[1][call[w].source].node]
CopyFaithful(w) == \A n \in {call[w].input, call[w].output} : data'[n] = SourceHeld(w)

SameFile(w) ==
    LET p == Follow(call[w].path)
    IN  p # call[w].source /\ before[1][p] = before[1][call[w].source]

(* "Copy a bounded regular file" (tools.go:158): one call at a time, after *)
(* a cp that reports success both files hold what the source held, links   *)
(* or not, unless its paths are two names of one file: runCopy compares    *)
(* paths (tools.go:350), and empties that file.                            *)
OtherFilesCopied ==
    [][\A w \in Workers : OneAtATime /\ Copied(w) /\ ~SameFile(w) => CopyFaithful(w)]_vars

(* Whatever is changed meanwhile, a find that reports success gives every  *)
(* path once, at most as many as asked for, and only what lay there at     *)
(* some time of the call; unless it is flagged, it gives every match below *)
(* its root that lay there all the time (tools.go:619-668).                *)
FindIsFaithful ==
    [][\A w \in Workers :
          Finding(w) /\ At(w, "walk") /\ At(w, "idle")' /\ outcome'[call[w].id] = "ok" =>
              LET found == Range(call[w].found) IN
              /\ Cardinality({entry.path : entry \in found}) = Len(call[w].found)
              /\ Len(call[w].found) <= Limit(Req(w)) /\ found \subseteq seen[w].ever
              /\ ~call[w].truncated =>
                     {entry \in seen[w].always :
                         Inside(entry.path, call[w].path) /\ Matched(Req(w), entry)} \subseteq found]_vars
=============================================================================
