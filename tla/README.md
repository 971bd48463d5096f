# A verification project for groovy-agent

groovy-agent answers one request with a small local language model.  A Go command asks
llama-server for a reply, runs the tools the reply asks for through MCP servers that are its
child processes, and gives the results back to the model, a bounded number of times.  Beside it
the repository holds the two MCP servers (a file workspace and a web browser) and the shell
script that supervises everything in a container.

This directory models that system in TLA+: what TLC checks on small instances is listed under
*Runs*, what TLAPS proves for every instance under *Proofs*.  Paths are those of the repository,
without the leading `src/`.

## The system

| part | source | state it keeps | operations |
|---|---|---|---|
| agent loop | `internal/agent/agent.go` (Loop), `context.go`, `toolcall.go` | conversation, round, executed calls, exposed tools | begin a round, prune, ask the model, validate, run and answer a tool call, end |
| agent run | `internal/agent/agent.go` (Run), `cmd/agent` | child processes, contexts, deferred calls, which server owns a tool | validate, ping, start and list each server, loop, unwind |
| model client | `internal/llm` | none | Ping, Complete |
| MCP client | `internal/mcpclient` | identifier, message and error channels, child process | call, notify, read loop, Close |
| tool server process | `internal/mcpserver/server.go`, `http.go`, `cmd/coreutils-mcp` | input position, requests in flight, listener goroutine | Serve (stdio), serveHTTP, dispatch, callTool, shutdown |
| workspace tools | `internal/mcpserver/tools.go`, `workspace.go` | the files of the workspace | touch, mkdir, cp, mv, rm, rmdir, write_file; find and the other read-only tools |
| web utilities | `webutils`, `cmd/webutils-mcp` | the server's limits; for each call a Chromium, its profile, the first error, the texts and links collected | Serve, callTool, Browse, Search |
| container entrypoint | `docker/entrypoint.sh` | two children, their pids, a trapped signal, a status | start, wait for readiness, supervise, forward signals, exit |
| text utilities, profiles | `coreutils`, `internal/agent/profiles.go` | none (pure) | text tools, profile choice |
| JSON schema | `internal/jsonschema` | none (pure) | check of arguments, in the agent and in both servers |

How they interact:

    entrypoint.sh ── starts, signals, waits ──> llama-server, groovy-agent, coreutils-mcp (http)
    cmd/agent ─> Run ── StartProcess/Initialize/ListTools ──> coreutils-mcp, webutils-mcp (stdio)
                  └─> Session.Loop ── Complete ──> llama-server
                          └─ CallTool ─> mcpclient ── pipe ──> Serve ─> callTool ─> a tool
                                              ^── readLoop goroutine, channels
    remote client ── HTTP ──> handleHTTP (a goroutine each) ─> callTool ─> a tool

What is hard about it, and which property is about it, is the list `hazards` of `PROJECT.json`.
In short: pruning under a tight context; pairing calls and answers over rounds and refusals;
late answers and lost transports in the client; a start that can fail at any point with two
children alive; handlers that check and then act while others run; a browser whose requests are
checked by concurrent goroutines that share one error; arguments that are judged twice, in two
representations; results that are cut at many limits and must say so; a shell that is interrupted
anywhere.

## Modules

| module | models | abstract or composed |
|---|---|---|
| `AgentLoop` | Session.Loop, runToolCall, validateCall, pruneMessages | the model and the servers are its environment |
| `AgentLoopProofs` | | proofs about `AgentLoop` |
| `RpcCall` | what the MCP client promises | abstract specification |
| `McpClient` | the client's goroutines, channels, pipes and child | implements `RpcCall` |
| `ToolSession` | the client joined by the pipes with its child, coreutils-mcp or any program | composes `McpClient` and `ToolServer`, and implements both |
| `McpClientProofs` | | proofs about `McpClient` and `ToolSession` |
| `AgentRun` | main, Run, startWebMCPServer | takes Loop and Close as steps; `AgentLoop` and `McpClient` justify their fairness |
| `AgentRunProofs` | | proofs about `AgentRun` |
| `WorkspaceTools` | the tools that change files, system call by system call, and find | a `Worker` is the stdio loop or an HTTP goroutine of `ToolServer` |
| `WorkspaceProofs` | | proofs about `WorkspaceTools`: the tree and finds, whatever interleaves, and contents |
| `ToolServer` | the process around the tools | a tool call is one that runs and ends |
| `Browse` | the session of one call of ChromiumBrowser.Browse | Chromium is its environment |
| `BrowseProofs` | | proofs about `Browse` |
| `Schema` | the JSON-schema check, and what encoding does to a schema | |
| `PageContent` | the choice of what is returned as a page's content | |
| `WebCall` | a call of a web tool: the agent's check, the server's, Browse and Search around the session | uses `Schema` and `PageContent`; a session is one that fails or ends on a page, which `Browse` takes apart |
| `WebCallProofs` | | proofs about `WebCall` and, for it, about `Schema` and `PageContent` |
| `TextTools` | the read-only tools and package coreutils | one call after another on one file |
| `TextToolsProofs` | | proofs about `TextTools` |
| `Entrypoint` | entrypoint.sh | children run and exit |
| `ProcessProofs` | | proofs about `Entrypoint` and about the `ToolServer` it starts |

Each `MC...` module gives a specification the values for TLC, the `.cfg` of a run its name.
Definitions commented *faulty variant* are not part of a specification: each changes one
definition the way a slip in the code would, and shows that a property notices it.

### How state and actions correspond to the code

**AgentLoop.**  A message is a record (`role`, `calls`, `id`, `bytes`); text is its length, since
pruning and clamping look at nothing else.  `pc` is the line Loop is at, `next` the index of the
inner loop, `tail` the local variable of pruneMessages.  `Start` is Loop up to its `for`,
`BeginRound` pruneMessages up to its dropping loop, `DropOldest` one turn of that, `Complete` the
request, `Answer`/`AskForTools`/`ModelFails` what comes of it, `RejectCall`/`SendCall` and
`ToolReturns`/`ToolFails` the two halves of runToolCall.  `overhead` is what tool schemas, system
prompt and request cost; a call costs the constant `CallTokens`.  A call's arguments are the
verdict on them.  The reply's role is taken to be the assistant's.

**McpClient.**  `pc` is the goroutine that calls (the mutex admits one), `reader`/`held` that of
readLoop, `messages`, `closed` and `readErr` the channels, `stdin`/`stdout` the pipes with a
capacity, `proc` the child.  The alternatives of the `select` in call are actions of their own:
Go takes any that is ready.  A result that does not decode is an `error` line.  Close is
`BeginClose`, `KillOnClose` (after three seconds) or the child's own exit, `Reap`, `CloseReader`.

**ToolSession.**  The child is chosen at the start.  If it is another program (`server = "other"`), the
session is `McpClient` as it stands, whose server may do anything.  If it is coreutils-mcp, the client's
variables and steps are those of `McpClient`, and the steps of its server are replaced by those of `Serve`: `ReadLine`, `CarryOut` (a tool takes effect,
whether or not anyone still waits), `Reply` (which blocks while the pipe is full), `StopServing` at
the end of the input.  `carried` are the tool calls that took effect, `written` the lines of the
input, `replied` all that it ever answered; `server` says where the process is or how it ended.  The first `Handshake` calls are
initialize and tools/list, which run no tool.

**AgentRun.**  `deferred` is the stack of deferred calls, which `Unwind` pops; `startup` is
startupCtx, `cancelled` the signal context, `mcpDone` the effect of cancelMCP.  `server` says which
of the two servers `pc` is about.

**WorkspaceTools.**  `fs` maps paths to entries, `data` the content of files by inode, so that a
renamed or replaced file keeps its open handles.  Each system call of a handler is a step:
resolving the source, resolving the path, the check, and then the effect (mkdir, rename, remove,
open with or without truncation, write, copy, chtimes).  Content is the sequence of identifiers of
the calls that wrote it.  The file system operators are external and follow POSIX.  A file may have
several names, hard links that the workspace was given with.  EvalSymlinks
and the Stat that follows are one step.  Writing or copying a text and closing the file are one step,
`WriteString` or `Copy`, which may end in an error after a part of the text was written (`Written`), and
so when opening has emptied the file already.  A written text is one identifier, so that a part of it
is nothing or all.  Any other system call from the act on may fail without
effect (`SystemCallFails`); a lookup before it (EvalSymlinks, Stat, Lstat) fails for absence only.
`MaxCopy` is cp's limit on its source.  `transport`
says which server it is: over stdio a call begins when the last one has ended.  find is
`StartWalk`, then `ReadDir` and `VisitEntry` for each directory and each entry WalkDir goes through;
`todo` is what it has still to visit, as the directory's listing had it, and `seen` (for the
property) what lay in the tree at some time, and all the time, of the call.

**ToolServer.**  It starts when main has its signal context.  `state` says how far a message is,
`scanned` how many lines the scanner has returned, `serving`/`errCh` are the goroutine of
httpServer.Serve.  An exit with success is `exitStatus = "ok"`.

**TextTools.**  A text is a sequence of bytes, the printed characters of ASCII and the line feed, so that
a byte is a character and white space is the space and the line feed.  Each tool is an action that
reads the file, or the text it is given, and answers; a command may be given the output of the
call before.  The operators follow text.go and search.go; what belongs to Go's library (splitting,
comparing strings, parsing numbers) is modelled by what it does on such texts, and `Place` is
the insertion step SliceStable takes up to 20 lines.  Beyond these it merges sorted blocks, which comes to
the same wherever the comparison is an order.  A number is a run of digits, compared exactly: signs,
fractions, exponents, `nan` and numbers that a float64 rounds are left out, and so is what `sort -n` does
with them.  grep's pattern is literal.  The arguments are
those the schema lets through; a longer text than `MaxStdin`, the 64 KiB of coreutils_run's schema
(`tools.go:192`), is refused.

**Browse.**  `main` is the goroutine of Browse, `handler[r]` the goroutine of the last
EventRequestPaused of a request, `net[r]` how the browser sees that request, `allowed[r]` the
policy's verdict on its present address.  `locked` is checkErrMtx held by setCheckErr while
browserCancel waits.  A page-level error after loading is `NavigateFails` or the context's.

**WebCall.**  `call` is what was proposed, by the agent or by another client; `Propose` is
validateCall with the schema as ListTools gave it (`OverTheWire`: encoded and decoded, so that all
numbers are float64 and all lists `[]any`), `Refuse`/`Accept` ValidateRaw in callTool with the schema
as it is made there, `CheckTarget` the policy before a browser starts, `SessionFails`/`SessionEnds`
the session, `CheckFinal` the checks and texts after it, and `LinksFull`, `SkipLink`, `CheckLink` one
turn each of the loop over the links, of Browse or of normalizeSearchLinks.  A type assertion that fails
leads to `panicked`.  A text is a name with a number of runes, bytes and surrounding blanks; the
policy is a table of addresses, in which a host name gets a verdict each time it is asked
about.  `limits` is normalizeLimits of what the server was made with.

**Schema.**  A value carries what Go's type switch sees: whether a number is a float64, an int or
a json.Number, and whether a list of the schema is a `[]any`.  `Accepts` follows validate keyword by
keyword; what calls itself there goes through `Parts`, the values within a value, each with its schema.
The tools' schemas are nested at most twice, an object with lists of texts (`tools.go:189`), and so are
the three levels of `Accepts`.

**PageContent.**  A page is a tree of elements, in which each contributes a number of letters and
of headings, lists and so on to the markdown.  The converter and go-readability are external: the
one adds contributions up, the other's answer is part of the page.  `Cleaned`, `Candidates`,
`BestCandidate` and `ExtractContent` follow the functions of those names.

**Entrypoint.**  `pc` is the next command, `pending` a trapped signal not acted on; `wait` is
interrupted by it, any other command is followed by the trap.  A turn of the readiness loop is
`StartProbe`, then the answer or failure of curl (`Ready`, `ProbeFails`), once more for the second probe,
and the look at llama-server and the deadline.  curl runs in the foreground and without a limit of time,
so that a probe that is not answered holds the script and its traps.  `asked` records a TERM sent to a
child.  That bash reaps its children as they exit, and returns 143 from an interrupted wait, was
confirmed by running the functions of the script.

## Runs

| run | instance | shows |
|---|---|---|
| `AgentLoop` | 3 rounds, 2 executed calls, replies of 1–2 calls out of 4 kinds, a context with room for one or two exchanges and one that is full | pairing of calls and results in the conversation and in the prompt, the longest history that fits is sent, execution policy, a cancelled session stops, a served one ends |
| `AgentLoopUnresolved` | the code's own limits, replies of 1–3 calls, results of 4 KiB | *violated*: results the model has not seen are dropped |
| `ToolSession` | any child or coreutils-mcp; 5 calls, 3 of them of tools, 1 other line, channel and pipes of 1 | with any child, no answer is lost, the client refines `RpcCall`, no call hangs that has a cause to end, Close reaps; with coreutils-mcp, tools take effect in the order the agent sees, client, child and read loop never all wait for each other, and the child's half implements `ToolServer` |
| `Workspace` | stdio: 3 calls of every tool over 2 names and 6 initial trees, two with links and one with a file of two names; HTTP: 3 workers, 3 calls that add, move, remove and find | the workspace stays a tree; callers that only add lose nothing; find reports what was there, once, and everything unless it is flagged; one call at a time, content is lost only on request, a failure harms at most the file the call was to write, and copies of one file to another are faithful |
| `WorkspaceReplaced` | 2 workers, plain write_file | *violated*: check, then truncate |
| `TextTools` | files of up to 3 bytes out of 4, and longer ones picked for sort, cut and readFile; 2 calls | an answer that is not flagged is complete; sort (loses nothing and orders), uniq, wc, head, tail, cut and tr agree with second definitions |
| `AgentRun` | 2 servers, 4 tools | children reaped, tools routed by policy, a signal ends the command, the start is bounded |
| `Entrypoint` | 3 modes, 3 signals, 3 statuses | no child abandoned, success is the agent's, supervision to the end; if every probe returns, the start ends, and a trapped signal and the agent's end end the container |
| `Browse` | document, subresource, late request; limit of 1 redirect, 2 offered | the policy holds for all that is sent, the cause is reported, clean-up, Browse returns |
| `BrowseBlocked` | document and subresource | *violated*: a blocked request need not fail the page |
| `ToolServer` | 3 messages of 5 kinds, both transports | clean exits, a signal (HTTP) or the end of input (stdio) ends it |
| `WebCall` | the code's own limits and others; 50 arguments, from the agent or another client; 7 pages | agent and server agree on arguments, what is accepted can be carried out, the content is the best candidate and clean, whatever was cut is flagged |

**Bounds.**  Three rounds and a budget of two calls let the budget run out in the middle of a
round and in a later one, and the third request has two exchanges to choose from; the overheads
leave room for one of them, for both when they are short, or for nothing at all.  Texts are short
there so that the state space stays small; `AgentLoopUnresolved` has the real limits.  The five calls
of `ToolSession` make answers to earlier calls arrive during a later one, also several; capacities of one
let every queue be full.  Five calls are the most that `FewCalls` allows with such
queues; with a sixth TLC finds the circular wait.  Two names are enough for a file, a copy and a directory with an entry, and cp's limit of one text for a source that is too large;
three tool calls for a race of two and a third that shows its effect.  The limits of `TextTools` are two to
twenty-four bytes, in the order of the real ones, so that texts fall on both sides of each of them; counts
and line numbers have one digit.  `WebCall` has the limits of the code, since a length costs TLC
nothing: its arguments and texts lie on both sides of each of them, in bytes and in characters, and
its second configuration has limits of two links and two results, which its pages exceed.  A search
engine's page is gone over twice.  Redirects, signals and
messages exceed the limit they are compared with by one.

**Fairness.**  A goroutine or script that can continue does (weak fairness of its own steps);
timers expire (the request timeout of the model client, MCPStartupTimeout, the three seconds of
Close, the browse timeout, the shutdown timeout); a killed process dies; a process sent TERM by
the entrypoint exits, which SignalEnds and StopsWhenTold justify for this repository's own
commands and which is assumed of llama-server.  The start's deadline comes if the script looks at it
again and again (strong fairness: each look follows a second's sleep), and a probe ends when
llama-server does.  Nothing is assumed of the servers' answers, of the
model's choices, of clients, sites, pages or signals, except that two properties state
their assumption themselves: `Terminates` of `AgentLoop`, if the servers answer, and `ContainerEnds` of
`Entrypoint`, if every probe of llama-server returns.  A tool of `ToolServer` is assumed to end: it works on bounded files under MaxDuration.

**Deadlock** is checked where the program waits for someone; `Browse`, `ToolServer` and `Entrypoint`
end with their process, and `TextTools` at its bound on calls; they set `CHECK_DEADLOCK FALSE`.  The other specifications
have an explicit step for having stopped.

## Proofs

`tlapm` proves the following for every value of the constants that satisfies the named assumptions
(`LimitsAssumption` and `InputsAssumption` of `AgentLoop`: limits are natural numbers and inputs have
their types; `McpBounds`: capacities are natural numbers; `HandshakeAssumption` and `FewCalls` of
`ToolSession`: there are at most as many calls as lines that can be under way, which the agent keeps,
as its two first calls and five tool calls (`agent.go:26`) are fewer than the channel's eight lines; `AllowedAssumption` of `AgentRun`: a policy
names tools; `StatusesAssumption` of `Entrypoint`: a status is a byte; `RedirectsAssumption` of `Browse`:
the limit of redirects is a natural number; `WorkspaceAssumption`: names are finitely many, the workspace is a tree of finitely many
files, numbered from 1 and each of any number of names, links lie in its root and name entries of it that
are no links, requests have their types, and find's limit is positive (200, `server.go:40`); and of `WebCall` `ContentAssumption` and `PolicyAssumption`, types of a constant and of a
table, `BoundsAssumption`: the longest query makes an address of allowed length, 31 + 3 · 300 ≤ 2048
bytes, and the schemas' maxima, 12000 characters and 10 results, are below the agent's own of 12288 and
200 (`toolcall.go:23-24`), `LimitsAssumption`: the server's defaults are positive (`browser.go:83`),
while what it is configured with is any integers, `PagesAssumption`: a page's lists are sequences, a
text has as many bytes as its characters, letters are some of a markdown's characters, and an element
comes after its parent, and `ProposalsAssumption`: a call names one of the two tools,
and its numbers and texts are such; and of `TextTools` `LimitsAssumption`: limits are positive, and
coreutils_run takes less than ten million bytes (it takes 64 KiB), and `FilesAssumption` and
`ArgumentsAssumption`: the file is a text, arguments have the types that the schemas ask for, and cut's
delimiter is one byte).

| theorem | says | invariant it rests on |
|---|---|---|
| `AgentLoopProofs!TypeCorrect` | `[]TypeOK` | `TypeInv`: with `Shape`, which says what `pc` implies about round, conversation and current call |
| `AgentLoopProofs!ExecutionWithinPolicy` | `[]ExecutionPolicy` | `Policy`: calls sent are those counted, and exposed tools are discovered and in the profile |
| `AgentLoopProofs!ConversationStaysWhole` | `[]ConversationWellFormed` | `WholeInv` |
| `AgentLoopProofs!ExchangesStayWhole` | `[]PromptWellFormed` | `WholeInv` |
| `AgentLoopProofs!NothingDroppedTooEarly` | `[]LongestFittingHistory` | `HistoryInv` |
| `McpClientProofs!TypeCorrect` | `[]TypeOK` | itself |
| `McpClientProofs!AnswersReachTheCall` | `[]AnswerInTransit` | `TypeOK`, `Fresh` and `InTransit` |
| `McpClientProofs!ClientImplementsRpc` | `Spec => Rpc!Spec` | `TypeOK`, `Origin` and `Control` |
| `McpClientProofs!SessionImplementsRpc` | `SessionSpec => Rpc!Spec` | `Alive`, and the former |
| `McpClientProofs!NoCircularWait` | `[]NotAllWaiting` | `OneLinePerCall` |
| `McpClientProofs!AnswersCloseThePast` | `[]NoStraggler` | `TurnInv` |
| `McpClientProofs!CloseEndsEffects` | `NothingAfterClose`, an action property | `Alive` and `ReapedIsGone` |
| `McpClientProofs!ServerKeepsItsSpecification` | `SessionSpec => ServesAsToolServer`, that is `ServerSpec` of `ToolServer` under its mapping | `LinesInv` and `InputInv` |
| `AgentRunProofs!TypeCorrect` | `[]TypeOK` | `RunInv`: with `Control`, which says which calls are deferred where |
| `AgentRunProofs!ChildrenAreReaped` | `[]NoChildSurvives` | `Attended` |
| `AgentRunProofs!ToolsAreRouted` | `[]RoutedByPolicy` | `Routing` |
| `ProcessProofs!ChildrenAreSignalled` | `[]NothingAbandoned` | `ScriptInv` |
| `ProcessProofs!SuccessIsEarned` | `[]SuccessIsTheAgents` | `ScriptInv` |
| `ProcessProofs!ServerIsAwaited` | `SupervisesToTheEnd`, an action property | `ScriptInv` |
| `ProcessProofs!SuccessIsIdle` | `[]CleanExitLeavesNothing` | `ProcInv` |
| `BrowseProofs!PolicyIsEnforced` | `[]OnlyAllowedSent` | `BrowseInv` |
| `BrowseProofs!FirstErrorWins` | `[]CauseIsReported` | `BrowseInv` |
| `BrowseProofs!NothingOutlivesTheCall` | `[]NothingLeftBehind` | `BrowseInv` |
| `WorkspaceProofs!WorkspaceStaysATree` | `[]TreeIntact` | `WorkspaceInv` |
| `WorkspaceProofs!ContentIsKeptInTurn` | `ExistingFilesKeptInTurn`, an action property | `TurnInv` |
| `WorkspaceProofs!FailuresHarmOnlyTheirOutput` | `FailureHarmsOnlyItsOutput`, an action property | `TurnInv` |
| `WorkspaceProofs!OtherFilesAreCopied` | `OtherFilesCopied`, an action property | `TurnInv` and `CopyInv` |
| `WorkspaceProofs!AppendsAreKept` | `[]AppendsKept` | `AddInv`, and `WorkspaceInv` |
| `WorkspaceProofs!FindsAreFaithful` | `FindIsFaithful`, an action property | `WalkInv` and `LinksInv`, and `AddInv` |
| `WebCallProofs!AcceptedCallsAreUsable` | `[]AcceptedIsUsable` | `CheckInv` |
| `WebCallProofs!AgentAndServerAgree` | `[]ChecksAgree` | `CheckInv` |
| `WebCallProofs!UnflaggedIsComplete` | `[]UnflaggedPageIsComplete` | `PageInv` |
| `WebCallProofs!ContentIsTheBest` | `[]ContentChosen` | `PageInv` |
| `TextToolsProofs!TextCorrect` | `[]TextInv` | itself |
| `TextToolsProofs!ReadersMayRelyOnTheFlag` | `[]UnflaggedIsComplete` | `TextInv` |
| `TextToolsProofs!CommandsCompute` | `[]CommandsAgree` | `TextInv` |

**Exchanges.**  ConversationWellFormed is not inductive: it does not say that the call about to be
answered belongs to the last assistant message.  `WholeInv` adds that between rounds every call has
its answers (`Whole`), and that during a round the conversation is an exchange *underway*: whole up
to the last assistant message, whose calls are `calls` and of which the first `next - 1` are
answered.  `CutWhole` shows that cutting a whole conversation before a message that is not a result
leaves a whole one, which is what pruneMessages does with its inner loop; clamping changes lengths
only (`Shifted`).

**The history.**  LongestFittingHistory says of a prompt that no longer part of the conversation, from a
message on that is no result, would have fitted too.  `HistoryInv` says it of the dropping loop: what is
left is the end of the conversation at some point, and no such end before that point fits (`CutAt`).
Costs are sums, of which `UsedType` shows that they are numbers.

**Answers.**  AnswerInTransit (`InTransit` in the proof) needs `Fresh`: a call that is still being
written has been seen by nobody, so that no answer to it can have come and gone before the call
waits.  For the refinement, `Origin` says that a line with an identifier, in pipe, reader or
channel, was answered by the server, and `Control` that the table's pending entry is the call being
made; the one step that returns an answer compares the line's identifier with that call's.

**The session.**  Which child there is does not change (`SameProgram`).  A step of `ToolSession` is one of `McpClient` or changes nothing of it, as long as a
server that has not ended is a process that runs (`Alive`); so the client's theorems hold of it.
NotAllWaiting is a matter of counting: `OneLinePerCall` bounds the lines under way, in pipes, server,
read loop and channel, by the calls made, less the one being written; the notification takes the place
of the first call's line, whose answer has been read by then.  For NoStraggler, `TurnInv` says
that every tool call made before another one's line is carried out, worked on or ahead in the pipe, so
that an answer finds them all carried out.

**The server's half.**  The history variable `replied` takes the place of the server's replies, which the
client consumes.  Its mapping derives a message's progress from where its line is, so that a step of the client is
one of `ToolServer` only if it moves lines as its pipe does.  `LinesInv` says that a call is written once
(`WrittenOnce`), that the pipe holds what was written last and the server works on the line before that
(`LastWritten`), and `InputInv` that the input stays open while calls are made: an end of input is
Close's, which the abstract server provides for.

**Children.**  NoChildSurvives speaks of the last state only.  `Control` shows that the deferred calls
are always one of five stacks and which; `Attended` that a server started and not waited for has its
Close on that stack, or under way, or is the web server in the code that closes it on failure.  At
exit the stack is empty.  `Routing` says that each server lists once, the core server first, that a
tool has an owner that listed it and may run it, and which servers are open where.

**The container.**  The three properties of the script speak of its last state or step.  `ScriptInv`
says which children have been started at each command of each mode (`Control`), which of them, where the
script reaps one or has exited, are not running or have been sent TERM (`Awaiting`), and, from the first
such command on, that a status of 0 is the agent's (`Outcome`).

**The tool server.**  Over HTTP a process exits with success only after a shutdown that found no request
in flight.  `ProcInv` adds that this still holds while the process drains the listener's error
(`DrainedIsIdle`: nothing is dispatched then), and that before a shutdown the listener never
ends without an error (`ClosedIsShutdown`).

**Browsing.**  A request that may be sent, or that a handler is about to let go on, is allowed at its
present address (`Sendable`); this is where a check that is not repeated after a redirect would show.
For the cause, setCheckErr's order matters: a live context has no error recorded (`LiveIsClean`), one
that was stopped, was by a recorded error (`StoppedByError`), and a command fails only for these reasons
(`FailedCommands`); so the error recorded first is not one of those that its own recording caused
(`Recorded`, `Reported`).

**Calls of web tools.**  The agent has the schemas as decoded from JSON, where each number is a float64 and
each list a `[]any`, the server as made in Go.  `SchemasAgree` shows, kind of field by kind of field, that
both accept the same values, and which; were a list of names of the schema a `[]string`, it would
fail, as the check skips such a list.  `CheckInv` says what is known of a call at each point:
that a request underway was decoded from accepted arguments (`Requested`, `UsableRequest`), and who has
judged the arguments and how (`Judged`).  `AcceptedRequest` shows that such a request has positive
limits within the server's, whatever these were configured with, and a query whose address, blanks
removed and each byte escaped, is short enough.

**Pages.**  For UnflaggedPageIsComplete `PageInv` is the invariant of the loop over anchors, of Browse or
of normalizeSearchLinks: the links come from anchors gone over, in their order (`Ordered`), are in full
unless flagged (`Flagged`), and each anchor gone over is listed, refused or empty (`Accounted`).
Markdown and the anchors of a search page are recursive functions; what type they have is shown over
the length of a list, by the least position where it fails (`IntervalInduction`), and that such a function
exists by building it step by step (`LoopExists`).  `LeastNatural` serves the sums of `AgentLoop` alike.

**The content.**  ContentChosen says which element's text is returned in terms of the whole tree: the best
of the candidates, showing the elements below it from which no way up to it leads through one that is to be
removed.  The code descends instead and removes.  That both are the same is an induction from the last
element to the first (`StrongInduction`, `CleanedIsPresentable`): a parent comes before its child, and
what is kept of a child is that of the child's own children.  Four passes over the elements, one for each
kind, each keep one that nothing they have met beats (`PassIsBest`); together they meet every candidate
(`BestCandidateIsBest`).

**The workspace.**  TreeIntact needs to know what the workers hold: `WorkspaceInv` adds that the files of
the tree are stored, that links lead to entries of the root, and that the path of an rm, and the source
of an mv, is not the root (`GoodCalls`), at every point between a handler's system calls.  The hard step is
a rename.  `RenameKeepsTree` translates the tree to two functions on names, in which it is four cases.

**Contents.**  Over stdio a call is alone: `Turns` says that every other worker is idle, that what the
handler checked still holds when it acts, and that what it truncated is empty when it writes.  It is
this that fails over HTTP, where TLC finds the counterexample of `WorkspaceReplaced`.  A call that ends in an
error may have emptied a file: `Output` says that the open file, unless it is new, is the one its path led
to when the call began, and that a call without leave to overwrite appends and has changed nothing of it
yet; `HarmsOnlyItsOutput` holds of the tree as
soon as the file is open, and no part of a text that is written changes that (`WritingHarms`).  `CopyInv`
adds that no link is ever moved, since a resolved path is none; so two resolved paths that differ are two
names, of two files unless these are hard links of one (`SameFile`).  It follows that what cp reads is what the source held, although its
destination has been emptied by then.

**Appends.**  Over HTTP the calls interleave, so AppendsKept asks which of the requests' steps can
take a text away.  While all requests only add (`Adding`), `AddInv` says that the files which calls have
open are in the tree (`Outputs`), that the texts found in files are of calls that succeeded (`Marks`),
and that what such a call wrote is in one of the tree's files, once (`Kept`); an append that fails may
have written its text or not (`WrittenOnce`), and nothing is said of that text; two calls under way have
different identifiers (`Ids`), so that none writes a text another one has written.

**Finds.**  A find is proved while other calls change what it walks through.  `WalkInv` says that the
entries still to be gone through lead to parts of the tree that do not overlap (`Unrelated`), to nothing
that was found (`Apart`), and to every match that has lain there since the call began and is not yet found
(`NothingMissed`).  When ReadDir replaces a directory by its children, the last holds since what lies
below it lies below a child that exists, and since the path the walk knows still leads there: no step
puts a link where none was (`NoNewLink`), only a rename could, and what mv has resolved is no link
(`LinksInv`).

**Texts.**  Most operators of `TextTools` are computed by a loop: a fold, a recursive function, a list in
order.  The proof takes each by one element more, at its end (`SplitAppend`, `JoinStep`, `FlattenStep`,
`DecimalIs`, `ValueStep`, `ChosenStep`, `PlaceKeeps`), and concludes over the length of the list
(`IntervalInduction`).  For UnflaggedIsComplete it is `LinesRestored` that matters: lines joined and split
again are those lines, so that a reader of an answer sees the lines that were kept, and each of the four
limits, one after another, has raised the flag if it kept fewer.  For CommandsAgree the hard ones are these.
uniq -c: a count below ten million fits into its seven columns (`DecimalLength`), and printing a number and
reading it again gives the number (`ValueOfDecimal`).  wc: the words found line by line are where the words
of the text begin, one for one (`WordsOfLine`, `WordsOfBody`).  cut: the field found by splitting is the one
found by counting delimiters (`FieldIs`).  sort: of lines none of which is less than another, placing a line
keeps the order (`PlaceKeeps`), from which stability follows, and, a line being a class of its own, that none
is lost or invented (`SameBag`); that the result is ordered needs the comparison to be an order, which
`LessOrders` shows for lines that are all numbers or none.  `TextInv` adds that the file and the last answer
are texts, since the answer may be the next command's input.

What stays with TLC: liveness, and everything under fairness.
`NothingAfterClose` of `ToolSession` is proved and not run: one state, where the child has been reaped,
decides it.

## Disagreements between the code and what is said of it

Each is a run that TLC finds violated; `findings` of `PROJECT.json` quotes both sides.

1. pruneMessages may drop the tool activity the model has not seen (`context.go:38-39`).
2. write_file without overwrite or append may replace a file (`tools.go:141`), over HTTP.
3. A page whose subresource was blocked may succeed (`browser_test.go:517-519`).

Others were met while reading and follow from the models' actions, without a run of their own:

- cp with overwrite from one hard link of a file to another empties the file and succeeds, as it compares
  paths (`tools.go:351` says "source and destination must differ"); without `SameFile` in
  OtherFilesCopied, TLC finds this in the tree `TwoNames`;
- a health probe that llama-server takes and never answers keeps the start from its deadline
  (`StartProbe`; `entrypoint.sh:404` says "did not become ready within ${LLAMA_STARTUP_TIMEOUT}s"), and a
  signal from being forwarded; without `ProbesReturn` in ContainerEnds, TLC finds both;
- rm of a symbolic link removes the file behind it and leaves the link (`RemoveEntry` acts on the
  resolved path; `tools.go:174` says "one regular file or symbolic link");
- mv moves directories with entries (`Rename`; `tools.go:166` speaks of empty ones);
- wait_for_exit_status leaves 143 when the child exits between an interrupted wait and the look at
  it (`Recheck`; `entrypoint.sh:50-51`);
- a one-shot container exits with 1 after its agent succeeded if llama-server is gone at the next
  poll (`ServerLost`; `README.md:291-293`);
- the commands head and tail of coreutils_run cut a line beyond 2 KiB and answer `truncated: false`
  (`RunHead`, `RunTail`; `coreutils.go:2-3` says every helper reports truncation, which it does to a
  caller that drops the report);
- the tool tail reads the first 12 KiB of a file and shows the end of those, flagged as truncated
  (`TailFile`; `tools.go:109` says "trailing lines from a workspace file");
- SelectProfile takes the profile with the most keywords in the request and, of several, the first in
  its table, not "the smallest relevant tool profile" (`profiles.go:71`): a request to sort a file
  gets the six tools of file_inspection, not the one of text_processing;
- `sort -n` on a mixture of numbers and other lines depends on their arrangement, since its
  comparison is no order there: 2 < 12 by value, "12" < "1a" < "2" as text (`Less`; SortOrders
  excludes that case).

## Not modelled, and why

SelectProfile, ls and pwd are small pure functions of their input.  The parts of package coreutils
that no registered tool reaches (Paste, Base64, Basename, Dirname, Sha256Sum, Sort's unique mode),
regular expressions, glob patterns and letter case are left out, and so are validateWorkspacePath's
look at a path's text, which the server takes again at the resolved path, and the trimming of a call's
identifier: an answer is compared with its call up to blanks (`toolcall.go:42`).  A trap that is
not yet set (`entrypoint.sh:390`) loses a signal in the model as it does in the script; nothing is
stated about that.  Looking up the addresses of the page and of its links is done without the browse timeout
(`browser.go:172`, `308`, `335`), under the caller's context alone; `Browse` is the session between these, so that
BrowseReturns says nothing of a resolver that does not answer.  Removing an element from the list of siblings
being walked (`browser.go:865-878`) is a set operation in `PageContent`.  Over stdio a signal alone does not end
the tool server, which looks at its context once a line; StopsWhenTold speaks of the end of its input.
The HTTP exchange with llama-server, screenshots, the arguments and the environment of
Chromium, logging, argument parsing, the scripts, the
Dockerfile and the workflows have no state that outlives a call.  Of a page whose links include
one that is not a text (an SVG link's `href` is an object), Browse fails as a whole when the list is
decoded (`browser.go:287`); this is one of the errors of `SessionFails`.  The `initialized` field of the
tool server is written without synchronisation and never read.  A scanner's own buffering and the
partial transfer of one message through a pipe are left out: a line is read whole or not at all.

## Plan

1. `AgentLoop`, `McpClient`, `WorkspaceTools`, `AgentRun`, `Entrypoint`, `Browse`, `ToolServer`,
   `TextTools`, `WebCall`, `ToolSession` (done) with their runs.
2. Proofs: `AgentLoop`, `McpClient`, `ToolSession`, `AgentRun`, `Browse`, `Entrypoint`, `ToolServer`,
   `WorkspaceTools`, `WebCall` and `TextTools` (done): every invariant that a run checks is proved.
3. Pure algorithms that are left: SelectProfile, the policy's table of networks, ls.
4. Composition: client and stdio server (`ToolSession`, done); an HTTP `ToolServer` whose tool calls are
   workers of `WorkspaceTools`.
