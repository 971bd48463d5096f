-------------------------- MODULE MCWorkspaceTools --------------------------
(* Small instances of WorkspaceTools: two names, so that a file can be      *)
(* copied, moved and written over, and a directory can have an entry.       *)
EXTENDS WorkspaceTools, TLC

CONSTANTS a, b, w1, w2, w3

Empty == [p \in Path |-> IF p = Root THEN Directory ELSE Nothing]
Put(tree, p, entry) == [tree EXCEPT ![p] = entry]

(* A file beside a free name; a file beside a directory; a link to a file   *)
(* and a link to nothing; a file with two names.                            *)
OneFile == Put(Empty, <<a>>, File(1))
FileAndDirectory == Put(OneFile, <<b>>, Directory)
LinkToFile == Put(OneFile, <<b>>, Link(<<a>>))
DanglingLink == Put(Empty, <<b>>, Link(<<a>>))
TwoNames == Put(OneFile, <<b>>, File(1))
MCInitial == {Empty, OneFile, FileAndDirectory, LinkToFile, DanglingLink, TwoNames}

Ask(tool, source, path, append, overwrite) ==
    [tool |-> tool, source |-> source, path |-> path, append |-> append, overwrite |-> overwrite,
     names |-> {}, max |-> 0]
Find(path, names, max) ==
    [Ask("find", Root, path, FALSE, FALSE) EXCEPT !.names = names, !.max = max]
On(tool, paths) == {Ask(tool, Root, p, FALSE, FALSE) : p \in paths}
Between(tool, sources, paths) ==
    {Ask(tool, s, p, FALSE, overwrite) : s \in sources, p \in paths, overwrite \in BOOLEAN}
Writes(paths, append, overwrite) == {Ask("write_file", Root, p, append, overwrite) : p \in paths}

Places == {<<a>>, <<b>>, <<b, a>>}
Replace(tool, s, p) == Ask(tool, s, p, FALSE, TRUE)
EveryRequest ==
    On("touch", {<<a>>}) \cup On("mkdir", {<<b>>, <<b, a>>})
    \cup On("rm", {<<a>>, <<b>>}) \cup On("rmdir", {<<b>>, Root})
    \cup UNION {Between(tool, {<<a>>}, {<<b>>}) : tool \in {"cp", "mv"}}
    \cup {Replace(tool, <<a>>, <<b, a>>) : tool \in {"cp", "mv"}}
    \cup {Replace(tool, <<b>>, <<a>>) : tool \in {"cp", "mv"}} \cup {Replace("cp", <<a>>, <<a>>)}
    \cup Writes(Places, TRUE, FALSE) \cup Writes({<<a>>, <<b, a>>}, FALSE, TRUE)
    \cup Writes({<<a>>, <<b>>}, FALSE, FALSE) \cup Writes({<<a>>}, TRUE, TRUE)
    \cup {Find(<<b>>, {a}, 0), Find(Root, {a, b}, 1)}

(* Requests that only add, and requests that make, move and remove entries. *)
AddingRequests ==
    On("touch", {<<a>>}) \cup On("mkdir", {<<b>>}) \cup Writes(Places, TRUE, FALSE)
ShapingRequests ==
    On("rm", {<<a>>}) \cup On("rmdir", {<<b>>})
    \cup {Replace("mv", <<a>>, <<b, a>>), Replace("mv", <<b>>, <<a>>), Replace("cp", <<a>>, <<b, a>>)}
MCRequests == [stdio |-> EveryRequest,
               http |-> AddingRequests \cup ShapingRequests \cup {Find(Root, {a}, 2)}]
PlainWrites == [http |-> Writes({<<a>>}, FALSE, FALSE)]

(* The goroutines are interchangeable. *)
Goroutines == Permutations(Workers)
=============================================================================
