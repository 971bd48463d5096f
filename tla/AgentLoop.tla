------------------------------ MODULE AgentLoop ------------------------------
(***************************************************************************)
(* The bounded agent loop of internal/agent: Session.Loop, runToolCall,    *)
(* validateCall and pruneMessages.  One goroutine runs the loop; the       *)
(* language model, the MCP servers and the cancellation of the context     *)
(* are its environment.                                                    *)
(*                                                                         *)
(* Text is abstracted to its length.  A message is a record that says who  *)
(* wrote it, which tool calls it asks for, which call it answers, and how  *)
(* many bytes of content it has.                                           *)
(***************************************************************************)
EXTENDS Integers, Sequences, FiniteSets

CONSTANTS
    MaxModelRounds,      \* rounds of the loop (3 in the code)
    MaxTotalToolCalls,   \* tool calls executed per session (5)
    MaxExposedTools,     \* tools shown to the model (6)
    MaxResultBytes,      \* a longer tool result is refused (16 KiB)
    MaxToolResultBytes,  \* a longer result is cut in the prompt (4 KiB)
    ContextTokens,       \* the model's context (4096)
    ReservedTokens,      \* kept free for the reply (256)
    Profile,             \* the selected profile's tool names, in order
    Tools,               \* every tool name the servers or the model may use
    CallIds,             \* identifiers the model puts on a call, up to blanks around them
    NoId,                \* an identifier that is blank once trimmed
    Requests,            \* the tool calls a reply may contain
    MaxReplyCalls,       \* bound: calls in one reply
    Overheads,           \* tokens of tool schemas, system prompt and request
    ReplyBytes,          \* content lengths of a reply
    CallTokens,          \* tokens charged for one call of a reply
    ResultBytes,         \* lengths of the text of a tool result
    ErrorBytes,          \* length of an errorPayload
    WrapBytes,           \* what normalizeResult adds to a bare text
    MarkBytes            \* length of the truncation mark

Arguments == {"valid", "notObject", "schema", "overLimit", "path"}
Call == [id : CallIds \cup {NoId}, function : BOOLEAN, tool : Tools, arguments : Arguments]

ASSUME LimitsAssumption ==
    /\ MaxModelRounds \in Nat /\ MaxTotalToolCalls \in Nat /\ MaxExposedTools \in Nat
    /\ MaxResultBytes \in Nat /\ MaxToolResultBytes \in Nat
    /\ ContextTokens \in Nat /\ ReservedTokens \in Nat
    /\ CallTokens \in Nat /\ ErrorBytes \in Nat /\ WrapBytes \in Nat /\ MarkBytes \in Nat
    /\ MaxReplyCalls \in Nat
ASSUME InputsAssumption ==
    /\ Profile \in Seq(Tools)
    /\ NoId \notin CallIds
    /\ Requests \subseteq Call
    /\ Overheads \subseteq Nat /\ ReplyBytes \subseteq Nat /\ ResultBytes \subseteq Nat

VARIABLES
    pc,          \* where the loop is
    discovered,  \* Session.discovered: the tools Run kept
    overhead,    \* this request's share of Overheads
    exposed,     \* the tools of the profile that were discovered
    messages,    \* the whole conversation
    tail,        \* the activity pruneMessages is cutting down
    prompt,      \* the messages of the last model request
    round,       \* the loop counter, from 1
    calls,       \* the tool calls of the current reply
    next,        \* the index of the call being run, from 1
    toolCalls,   \* Session.toolCalls
    sent,        \* the tools asked of the MCP servers, oldest first
    cancelled,   \* the context is done
    out,         \* the lines written to stdout
    err          \* why the loop failed

vars == <<pc, discovered, overhead, exposed, messages, tail, prompt, round, calls,
          next, toolCalls, sent, cancelled, out, err>>
-----------------------------------------------------------------------------
Ids == CallIds \cup {NoId} \cup (Nat \X Nat)
Message == [role : {"system", "user", "assistant", "tool"},
            calls : Seq(Call), id : Ids, bytes : Nat]

Plain(role) == [role |-> role, calls |-> << >>, id |-> NoId, bytes |-> 0]
SystemMessage == Plain("system")
UserMessage == Plain("user")
Reply(requested, bytes) ==
    [role |-> "assistant", calls |-> requested, id |-> NoId, bytes |-> bytes]
ToolMessage(id, bytes) == [role |-> "tool", calls |-> << >>, id |-> id, bytes |-> bytes]

\* Faulty variant: every answer gets an identifier of its own.
FreshAnswerId(call) == <<round, next>>

(* The identifier of the answer: a blank one is replaced by round and index. *)
AnswerId(call) == IF call.id = NoId THEN <<round, next>> ELSE call.id

EstimateTokens(bytes) == (bytes + 3) \div 4
MessageTokens(m) == EstimateTokens(m.bytes) + 8 + CallTokens * Len(m.calls)
Used(s) ==
    LET used[i \in 0..Len(s)] == IF i = 0 THEN 0 ELSE used[i - 1] + MessageTokens(s[i])
    IN  used[Len(s)]
Budget == ContextTokens - ReservedTokens - overhead

ClampText(bytes) == IF bytes <= MaxToolResultBytes THEN bytes ELSE MaxToolResultBytes + MarkBytes
Clamp(m) == IF m.role = "tool" THEN [m EXCEPT !.bytes = ClampText(m.bytes)] ELSE m

(* pruneMessages looks for the last user message: what follows is activity. *)
UserIndex(s) == CHOOSE i \in 1..Len(s) :
                    /\ s[i].role = "user"
                    /\ \A j \in i+1..Len(s) : s[j].role # "user"
Activity(s) == [i \in 1..(Len(s) - UserIndex(s)) |-> Clamp(s[UserIndex(s) + i])]

\* Faulty variants, for checking that the properties notice them: only the
\* oldest message is dropped; everything is dropped; only results are.
DropOldestMessage(s) == SubSeq(s, 2, Len(s))
DropEverything(s) == << >>
DropLeadingResults(s) ==
    SubSeq(s, Cardinality({k \in 1..Len(s) : \A j \in 1..k : s[j].role = "tool"}) + 1, Len(s))

(* The oldest message goes, and with it the tool results that follow it. *)
OldestExchange(s) == {k \in 1..Len(s) : \A j \in 2..k : s[j].role = "tool"}
DropOldestExchange(s) == SubSeq(s, Cardinality(OldestExchange(s)) + 1, Len(s))

(* The profile's discovered tools, in order, up to the limit. *)
ExposeProfile(found) ==
    LET usable == {i \in 1..Len(Profile) : Profile[i] \in found}
    IN  {Profile[i] : i \in {k \in usable : Cardinality(usable \cap 1..k) <= MaxExposedTools}}

\* Faulty variant: the call budget is not checked.
ValidWithoutBudget(call) ==
    call.function /\ call.tool \in exposed /\ call.arguments = "valid"

(* validateCall. *)
Valid(call) ==
    /\ call.function
    /\ toolCalls < MaxTotalToolCalls
    /\ call.tool \in exposed
    /\ call.arguments = "valid"

(* The bytes of the tool message made from a result. *)
NormalizeResult(bytes, structured, isError) ==
    IF structured THEN bytes ELSE IF isError THEN ErrorBytes ELSE bytes + WrapBytes
ResultMessageBytes(bytes, structured, isError) ==
    IF bytes > MaxResultBytes THEN ErrorBytes ELSE NormalizeResult(bytes, structured, isError)
-----------------------------------------------------------------------------
Init ==
    /\ pc = "start"
    /\ discovered \in SUBSET Tools
    /\ overhead \in Overheads
    /\ exposed = {}
    /\ messages = << >> /\ tail = << >> /\ prompt = << >>
    /\ round = 0 /\ calls = << >> /\ next = 0
    /\ toolCalls = 0 /\ sent = << >>
    /\ cancelled = FALSE /\ out = << >> /\ err = "none"

Fail(reason) == pc' = "failed" /\ err' = reason
Keep == UNCHANGED <<discovered, overhead>>

(* Loop before its for statement: choose the tools, or refuse to start. *)
Start ==
    /\ pc = "start"
    /\ exposed' = ExposeProfile(discovered)
    /\ IF exposed' = {}
       THEN Fail("noTools") /\ UNCHANGED <<messages, round>>
       ELSE /\ pc' = "round" /\ round' = 1 /\ messages' = <<SystemMessage, UserMessage>>
            /\ UNCHANGED err
    /\ Keep /\ UNCHANGED <<tail, prompt, calls, next, toolCalls, sent, cancelled, out>>

(* Another round: pruneMessages up to its dropping loop. *)
BeginRound ==
    /\ pc = "round" /\ round <= MaxModelRounds
    /\ tail' = Activity(messages)
    /\ IF Budget <= 0 THEN Fail("doesNotFit") ELSE pc' = "prune" /\ UNCHANGED err
    /\ Keep
    /\ UNCHANGED <<exposed, messages, prompt, round, calls, next, toolCalls, sent, cancelled, out>>

(* The round budget is spent. *)
RoundLimit ==
    /\ pc = "round" /\ round > MaxModelRounds
    /\ pc' = "done" /\ out' = Append(out, "roundLimit")
    /\ Keep
    /\ UNCHANGED <<exposed, messages, tail, prompt, round, calls, next, toolCalls, sent, cancelled, err>>

DropOldest ==
    /\ pc = "prune" /\ Used(tail) > Budget
    /\ tail' = DropOldestExchange(tail)
    /\ Keep
    /\ UNCHANGED <<pc, exposed, messages, prompt, round, calls, next, toolCalls, sent, cancelled, out, err>>

(* The pruned conversation goes to the model; a request made with a context *)
(* that is already done fails before it is sent.                            *)
Complete ==
    /\ pc = "prune" /\ Used(tail) <= Budget
    /\ IF cancelled
       THEN Fail("cancelled") /\ UNCHANGED prompt
       ELSE /\ prompt' = <<messages[1], messages[UserIndex(messages)]>> \o tail
            /\ pc' = "model" /\ UNCHANGED err
    /\ Keep
    /\ UNCHANGED <<exposed, messages, tail, round, calls, next, toolCalls, sent, cancelled, out>>

(* The model answers: the text is the result, or tool calls are to be run. *)
Answer ==
    /\ pc = "model"
    /\ \E bytes \in ReplyBytes : messages' = Append(messages, Reply(<< >>, bytes))
    /\ pc' = "done" /\ out' = Append(out, "answer")
    /\ Keep
    /\ UNCHANGED <<exposed, tail, prompt, round, calls, next, toolCalls, sent, cancelled, err>>

AskForTools ==
    /\ pc = "model"
    /\ \E n \in 1..MaxReplyCalls, bytes \in ReplyBytes : \E requested \in [1..n -> Requests] :
           /\ calls' = requested
           /\ messages' = Append(messages, Reply(requested, bytes))
    /\ pc' = "calls" /\ next' = 1
    /\ Keep
    /\ UNCHANGED <<exposed, tail, prompt, round, toolCalls, sent, cancelled, out, err>>

(* The request fails, times out, or is aborted by the context. *)
ModelFails ==
    /\ pc = "model"
    /\ Fail(IF cancelled THEN "cancelled" ELSE "model")
    /\ Keep
    /\ UNCHANGED <<exposed, messages, tail, prompt, round, calls, next, toolCalls, sent, cancelled, out>>

(* runToolCall answers a call it does not accept itself. *)
RejectCall ==
    /\ pc = "calls" /\ next <= Len(calls)
    /\ calls[next].id = NoId \/ ~Valid(calls[next])
    /\ messages' = Append(messages, ToolMessage(AnswerId(calls[next]), ErrorBytes))
    /\ next' = next + 1
    /\ Keep
    /\ UNCHANGED <<pc, exposed, tail, prompt, round, calls, toolCalls, sent, cancelled, out, err>>

(* It counts an accepted one and passes it to the tool's MCP server. *)
SendCall ==
    /\ pc = "calls" /\ next <= Len(calls)
    /\ calls[next].id # NoId /\ Valid(calls[next])
    /\ toolCalls' = toolCalls + 1
    /\ sent' = Append(sent, calls[next].tool)
    /\ pc' = "tool"
    /\ Keep
    /\ UNCHANGED <<exposed, messages, tail, prompt, round, calls, next, cancelled, out, err>>

(* A response may still win against a context that is done. *)
ToolReturns ==
    /\ pc = "tool"
    /\ \E bytes \in ResultBytes, structured \in BOOLEAN, isError \in BOOLEAN :
           messages' = Append(messages, ToolMessage(AnswerId(calls[next]),
                                  ResultMessageBytes(bytes, structured, isError)))
    /\ pc' = "calls" /\ next' = next + 1
    /\ Keep
    /\ UNCHANGED <<exposed, tail, prompt, round, calls, toolCalls, sent, cancelled, out, err>>

\* Faulty variant: the pending call does not watch the context.
ToolFailsUncancelled ==
    /\ pc = "tool" /\ ~cancelled
    /\ Fail("transport")
    /\ Keep
    /\ UNCHANGED <<exposed, messages, tail, prompt, round, calls, next, toolCalls, sent, cancelled, out>>

ToolFails ==
    /\ pc = "tool"
    /\ Fail(IF cancelled THEN "cancelled" ELSE "transport")
    /\ Keep
    /\ UNCHANGED <<exposed, messages, tail, prompt, round, calls, next, toolCalls, sent, cancelled, out>>

EndRound ==
    /\ pc = "calls" /\ next > Len(calls)
    /\ round' = round + 1 /\ pc' = "round"
    /\ Keep
    /\ UNCHANGED <<exposed, messages, tail, prompt, calls, next, toolCalls, sent, cancelled, out, err>>

Stopped == pc \in {"done", "failed"}

(* A signal ends the context of Run. *)
Cancel ==
    /\ ~cancelled /\ ~Stopped
    /\ cancelled' = TRUE
    /\ Keep
    /\ UNCHANGED <<pc, exposed, messages, tail, prompt, round, calls, next, toolCalls, sent, out, err>>

Terminated == Stopped /\ UNCHANGED vars

Local == Start \/ BeginRound \/ RoundLimit \/ DropOldest \/ Complete \/ RejectCall \/ SendCall \/ EndRound
Model == Answer \/ AskForTools \/ ModelFails
Server == ToolReturns \/ ToolFails
Next == Local \/ Model \/ Server \/ Cancel \/ Terminated

Spec == Init /\ [][Next]_vars
(* The loop runs, the model request has a timeout, and a pending CallTool  *)
(* notices a context that is done.                                         *)
FairSpec == Spec /\ WF_vars(Local) /\ WF_vars(Model) /\ WF_vars(cancelled /\ ToolFails)
-----------------------------------------------------------------------------
(* Every variable has its type; rounds and executed calls stay within their *)
(* budgets.                                                                *)
TypeOK ==
    /\ pc \in {"start", "round", "prune", "model", "calls", "tool", "done", "failed"}
    /\ discovered \subseteq Tools /\ exposed \subseteq Tools
    /\ overhead \in Nat
    /\ messages \in Seq(Message) /\ tail \in Seq(Message) /\ prompt \in Seq(Message)
    /\ round \in 0..MaxModelRounds + 1
    /\ calls \in Seq(Call) /\ next \in Nat
    /\ toolCalls \in 0..MaxTotalToolCalls /\ sent \in Seq(Tools)
    /\ cancelled \in BOOLEAN
    /\ out \in Seq({"answer", "roundLimit"})
    /\ err \in {"none", "noTools", "doesNotFit", "cancelled", "model", "transport"}

(* Every tool message stands behind the assistant message that asked for   *)
(* it, at that call's position, with only other answers of the same        *)
(* message between them, and carries that call's identifier.               *)
ResultsFollowCalls(s) ==
    \A i \in 1..Len(s) : s[i].role = "tool" =>
        \E j \in 1..i-1 :
            /\ s[j].role = "assistant"
            /\ i - j <= Len(s[j].calls)
            /\ \A k \in j+1..i : s[k].role = "tool"
            /\ s[j].calls[i - j].id # NoId => s[i].id = s[j].calls[i - j].id

(* Every call of every assistant message has its answer right behind it. *)
CallsAnswered(s) ==
    \A j \in 1..Len(s) : s[j].role = "assistant" =>
        /\ j + Len(s[j].calls) <= Len(s)
        /\ \A k \in j+1..j+Len(s[j].calls) : s[k].role = "tool"

(* The conversation never holds a result without, or away from, its call,  *)
(* whichever calls of a reply are rejected, fail or succeed                *)
(* (agent.go:282-288, toolcall.go:41-77).                                  *)
ConversationWellFormed == ResultsFollowCalls(messages)

(* What is sent to the model keeps exchanges whole: no result precedes or  *)
(* loses its call, no call loses its results (context.go:76-77).           *)
PromptWellFormed == ResultsFollowCalls(prompt) /\ CallsAnswered(prompt)

(* What is sent leaves ReservedTokens of the context free, and no exchange  *)
(* is dropped that could have stayed: the prompt holds every run of newest  *)
(* exchanges that fits (context.go:71-90).                                  *)
LongestFittingHistory ==
    pc = "model" =>
        /\ overhead + Used(SubSeq(prompt, 3, Len(prompt))) + ReservedTokens <= ContextTokens
        /\ LET all == Activity(messages)
               From(k) == SubSeq(all, k, Len(all))
           IN  \A k \in 1..Len(all) :
                   all[k].role # "tool" /\ Used(From(k)) <= Budget =>
                       Len(From(k)) <= Len(prompt) - 2
                       /\ SubSeq(prompt, Len(prompt) - Len(From(k)) + 1, Len(prompt)) = From(k)

(* "It keeps the system message, the current user request, and unresolved  *)
(* tool activity" (context.go:38-39): the results the model has not seen   *)
(* yet are in the request that follows them.                               *)
UnresolvedActivityKept ==
    pc = "model" /\ messages[Len(messages)].role = "tool" =>
        prompt[Len(prompt)] = Clamp(messages[Len(messages)])

(* Over all rounds the servers are asked for at most MaxTotalToolCalls     *)
(* tools, each of them discovered and part of the profile                  *)
(* (toolcall.go:84-90).                                                    *)
ExecutionPolicy ==
    /\ Len(sent) <= MaxTotalToolCalls
    /\ \A i \in 1..Len(sent) :
           sent[i] \in discovered /\ \E k \in 1..Len(Profile) : Profile[k] = sent[i]

(* Once the context is done the loop stops, whether or not a server ever   *)
(* answers the call that is pending (client.go:131-134).                   *)
CancelStops == cancelled ~> Stopped

(* If the servers answer, which they do as long as their tools end, every   *)
(* session ends (agent.go:265-292).                                         *)
Terminates == WF_vars(Server) => <>Stopped
=============================================================================
