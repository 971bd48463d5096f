------------------------------- MODULE WebCall -------------------------------
(***************************************************************************)
(* One call of a web tool, from the arguments a language model wrote to    *)
(* the result: validateCall of internal/agent, callTool of webutils'       *)
(* Server, and what Browse and Search do before and after the browser      *)
(* session that module Browse models.  Other MCP clients call the server   *)
(* without the agent's check.                                              *)
(*                                                                         *)
(* A text is its name and its length.  The policy's verdict on an address  *)
(* is a constant, except for a host name, which is looked up each time.    *)
(***************************************************************************)
EXTENDS Schema, PageContent

CONSTANTS
    MaxURLLength,        \* policy.go (2048)
    MaxSearchQueryRunes, \* runes of a query (300)
    SearchPrefix,        \* bytes of a search address before the query
    AllowedTextChars,    \* maxAllowedTextChars, in the schema (12000)
    AllowedResults,      \* maxAllowedSearchResults, in the schema (10)
    RequestedTextChars,  \* the agent's own limits on max_text_chars
    RequestedResults,    \* and on max_results
    Defaults,            \* DefaultLimits
    Configured,          \* the limits a server may be made with
    Proposals,           \* the calls that may be made
    Pages,               \* the pages the browser may end at
    Policy               \* what the policy says of an address

Refusals == {"required", "tooLong", "notHttps", "noHost", "userinfo", "notPublic", "noAddress"}
NeedsLookup == "named"

ASSUME PolicyAssumption ==
    \A name \in DOMAIN Policy : Policy[name] \in Refusals \cup {"public", "unparsable", NeedsLookup}

(* What the constants of the packages agree on: the longest query makes an *)
(* address of allowed length, and the agent limits less than the server.   *)
ASSUME BoundsAssumption ==
    /\ {MaxURLLength, MaxSearchQueryRunes, SearchPrefix} \subseteq Nat
    /\ {AllowedTextChars, AllowedResults, RequestedTextChars, RequestedResults} \subseteq Nat
    /\ SearchPrefix + 3 * MaxSearchQueryRunes <= MaxURLLength
    /\ AllowedTextChars <= RequestedTextChars /\ AllowedResults <= RequestedResults

LimitNames == {"textChars", "maxTextChars", "links", "linkText", "results", "maxResults"}

ASSUME LimitsAssumption ==
    Defaults \in [LimitNames -> Nat \ {0}] /\ Configured \subseteq [LimitNames -> Int]

(* A text: characters of some bytes each, with blanks of one byte around.  *)
Texts ==
    {text \in [name : STRING, runes : Nat, width : Nat \ {0}, pad : Nat, bytes : Nat] :
        text.pad <= text.runes /\ text.bytes = text.pad + (text.runes - text.pad) * text.width}
Anchors == [url : Texts, title : Nat, snippet : Nat]

ASSUME PagesAssumption ==
    Pages \subseteq
        [url : Texts, absolute : BOOLEAN, heavy : BOOLEAN,
         tree : Trees, readable : MarkdownTexts, visible : MarkdownTexts,
         anchors : Seq(Anchors), matches : Seq(Anchors)]

(* Numbers and texts are what they are wherever they stand in an argument. *)
Measured(value) ==
    /\ value.kind = "number" => value.double \in Int
    /\ value.kind = "string" => value.text \in Texts

ASSUME ProposalsAssumption ==
    \A proposal \in Proposals :
        /\ proposal.tool \in {"browse_url", "search_web"} /\ proposal.agent \in BOOLEAN
        /\ proposal.raw.kind = "object" =>
               \A key \in DOMAIN proposal.raw.fields : Measured(proposal.raw.fields[key])

VARIABLES
    pc,         \* how far the call is
    limits,     \* the server's limits, normalised
    call,       \* the proposal
    request,    \* BrowseRequest or SearchRequest
    page,       \* where the browser ended
    next,       \* the position in the page's links
    links,      \* those accepted so far
    refused,    \* the positions of those refused
    truncated,  \* something was left out
    reply       \* the result, and who gave it

vars == <<pc, limits, call, request, page, next, links, refused, truncated, reply>>
-----------------------------------------------------------------------------
(* Limits. *)
Positive(value, default) == IF value <= 0 THEN default ELSE value
AtMostLimit(value, max) == IF value > max THEN max ELSE value

NormalizeLimits(given) ==
    LET filled == [key \in DOMAIN Defaults |-> Positive(given[key], Defaults[key])]
    IN  [filled EXCEPT !.textChars = AtMostLimit(@, filled.maxTextChars),
                       !.results = AtMostLimit(@, filled.maxResults)]

Words(name, runes, width, pad) ==
    [name |-> name, runes |-> runes, width |-> width, pad |-> pad,
     bytes |-> pad + (runes - pad) * width]
Trim(text) == Words(text.name, text.runes - text.pad, text.width, 0)
Clipped(runes, max) == max > 0 /\ runes > max          \* clampString

(* Schemas. *)
Name(name) == Words(name, 9, 1, 0)
Closed(properties, required) ==
    [type |-> "object", properties |-> properties, required |-> required,
     additionalProperties |-> FALSE]
IntField(min, max) == [type |-> "integer", minimum |-> GoInt(min), maximum |-> GoInt(max)]

\* Faulty variant: the list of required names is a []string.
RequireOnPaper(names) == StringList(names)

Require(names) == AnyList(names)

InputSchemaBrowse ==
    Closed([url |-> [type |-> "string", maxLength |-> GoInt(MaxURLLength)],
            max_text_chars |-> IntField(1, AllowedTextChars),
            capture_screenshot |-> [type |-> "boolean"],
            screenshot_mode |-> [type |-> "string",
                enum |-> AnyList(<<String(Name("viewport")), String(Name("full_page"))>>)]],
           Require(<<"url">>))
InputSchemaSearch ==
    Closed([query |-> [type |-> "string", minLength |-> GoInt(1),
                       maxLength |-> GoInt(MaxSearchQueryRunes)],
            max_results |-> IntField(1, AllowedResults),
            engine |-> [type |-> "string", enum |-> AnyList(<<String(Name("duckduckgo"))>>)]],
           Require(<<"query">>))
InputSchema(tool) == IF tool = "browse_url" THEN InputSchemaBrowse ELSE InputSchemaSearch

(* Addresses: the verdicts the policy may give. *)
Verdicts(name) ==
    CASE Policy[name] = "public" -> {"ok"}
      [] Policy[name] = NeedsLookup -> {"ok", "dns", "deadline", "notPublic", "noAddress"}
      [] OTHER -> {Policy[name]}

URLVerdicts(text) ==
    IF text.runes = text.pad THEN {"required"}
    ELSE IF Trim(text).bytes > MaxURLLength THEN {"tooLong"} ELSE Verdicts(text.name)

(* url.QueryEscape makes up to three bytes of one. *)
SearchURLLength(query) == SearchPrefix + 3 * query.bytes
SearchVerdicts(query) ==
    IF SearchURLLength(query) > MaxURLLength THEN {"tooLong"} ELSE Verdicts("search engine")

(* classifyError; an error that wraps another is classified as that one. *)
Classify(error) ==
    CASE error \in {"notPublic", "noAddress"} -> "disallowed_destination"
      [] error \in Refusals \cup {"queryRequired", "engineUnsupported"}
             /\ error \notin {"notPublic", "noAddress"} -> "invalid_url"
      [] error = "screenshotTooLarge" -> "result_too_large"
      [] error = "deadline" -> "timeout"
      [] OTHER -> "tool_error"
-----------------------------------------------------------------------------
NoReply == [by |-> "nobody", status |-> "none", cause |-> "none"]
Answered(by, status, cause) == reply' = [by |-> by, status |-> status, cause |-> cause]
NoRequest == [tool |-> "none"]
NoPage == [url |-> "none"]

Init ==
    /\ pc = "proposed"
    /\ \E given \in Configured : limits = NormalizeLimits(given)
    /\ call \in Proposals
    /\ request = NoRequest /\ page = NoPage
    /\ next = 1 /\ links = << >> /\ refused = {}
    /\ truncated = FALSE /\ reply = NoReply

Reading == <<next, links, refused, truncated>>

(* validateCall, for a call that comes from the agent: an empty text is an *)
(* empty object, and only the first value of a text is decoded.            *)
WithinRequested(fields, key, max) ==
    key \in DOMAIN fields => IsInteger(fields[key]) /\ fields[key].double <= 2 * max
ValidateCall ==
    /\ call.raw.kind \in {"absent", "object"}
    /\ AcceptsRaw(OverTheWire(InputSchema(call.tool)), call.raw)
    /\ WithinRequested(Decoded(call.raw).fields, "max_text_chars", RequestedTextChars)
    /\ WithinRequested(Decoded(call.raw).fields, "max_results", RequestedResults)

Propose ==
    /\ pc = "proposed"
    /\ IF call.agent /\ ~ValidateCall
       THEN Answered("agent", "invalid_arguments", "none") /\ pc' = "done"
       ELSE pc' = "called" /\ UNCHANGED reply
    /\ UNCHANGED <<limits, call, request, page, Reading>>

(* The arguments are sent as they were written: text behind the object     *)
(* makes the parameters unencodable, and they are left out (mustParams).   *)
Readable == ~call.trailing

\* A type assertion that does not hold ends the process.
Asserted(fields, key) == key \in DOMAIN fields /\ fields[key].kind = "string"
OptionalInt(fields, key) ==
    IF key \in DOMAIN fields /\ IsInteger(fields[key]) THEN fields[key].double \div 2 ELSE 0
OptionalBool(fields, key) ==
    key \in DOMAIN fields /\ fields[key].kind = "boolean" /\ fields[key].truth

BrowseRequest(fields) ==
    [tool |-> "browse_url", url |-> fields.url.text,
     max |-> AtMostLimit(Positive(OptionalInt(fields, "max_text_chars"), limits.textChars),
                         limits.maxTextChars),
     screenshot |-> OptionalBool(fields, "capture_screenshot")]

Cut(query) ==
    IF query.runes > MaxSearchQueryRunes
    THEN Words(query.name, MaxSearchQueryRunes, query.width, 0) ELSE query
SearchRequest(fields) ==
    [tool |-> "search_web", query |-> Cut(Trim(fields.query.text)),
     max |-> AtMostLimit(Positive(OptionalInt(fields, "max_results"), limits.results),
                         limits.maxResults)]

(* callTool up to the call of the browser. *)
Refuse == /\ pc = "called" /\ ~(Readable /\ AcceptsRaw(InputSchema(call.tool), call.raw))
          /\ Answered("server", "invalid_arguments", "none") /\ pc' = "done"
          /\ UNCHANGED <<limits, call, request, page, Reading>>

Accept ==
    /\ pc = "called" /\ Readable /\ AcceptsRaw(InputSchema(call.tool), call.raw)
    /\ LET fields == Decoded(call.raw).fields
           key == IF call.tool = "browse_url" THEN "url" ELSE "query"
       IN  IF ~Asserted(fields, key)
           THEN pc' = "panicked" /\ UNCHANGED request
           ELSE /\ pc' = "target"
                /\ request' = IF call.tool = "browse_url"
                              THEN BrowseRequest(fields) ELSE SearchRequest(fields)
    /\ UNCHANGED <<limits, call, page, Reading, reply>>

Error(cause) == Answered("server", Classify(cause), cause) /\ pc' = "done"

(* The address is checked before a browser is started. *)
TargetVerdicts ==
    IF call.tool = "browse_url" THEN URLVerdicts(request.url)
    ELSE IF request.query.runes = 0 THEN {"queryRequired"} ELSE SearchVerdicts(request.query)
CheckTarget ==
    /\ pc = "target"
    /\ \E verdict \in TargetVerdicts :
           IF verdict = "ok" THEN pc' = "browser" /\ UNCHANGED reply ELSE Error(verdict)
    /\ UNCHANGED <<limits, call, request, page, Reading>>

(* Module Browse: the session fails, or ends on some page.  A request that *)
(* was blocked fails with the refusal of its address.                      *)
SessionErrors == Refusals \cup
    {"executable", "profile", "enable failed", "redirect limit", "fail request", "continue request",
     "deadline", "navigation failed", "dns", "unparsable"}
SessionFails == /\ pc = "browser"
                /\ \E cause \in SessionErrors : Error(cause)
                /\ UNCHANGED <<limits, call, request, page, Reading>>
SessionEnds == /\ pc = "browser"
               /\ page' \in Pages /\ pc' = "final"
               /\ UNCHANGED <<limits, call, request, Reading, reply>>

(* The content of every page. *)
ContentOf == [shown \in Pages |-> ExtractContent(shown)]

ClipTexts(shown, max) ==
    Clipped(ContentOf[shown].md.runes, max) \/ Clipped(shown.visible.runes, max)

(* The page it ended on is checked; then its texts are clamped. *)
CheckFinal ==
    /\ pc = "final"
    /\ \E verdict \in URLVerdicts(page.url) :
           IF verdict # "ok" THEN Error(verdict) /\ UNCHANGED truncated
           ELSE IF call.tool = "browse_url" /\ request.screenshot /\ page.heavy
           THEN Error("screenshotTooLarge") /\ UNCHANGED truncated
           ELSE /\ pc' = "links" /\ UNCHANGED reply
                /\ truncated' = IF call.tool = "browse_url" THEN ClipTexts(page, request.max)
                                ELSE Clipped(page.visible.runes, limits.maxTextChars)
    /\ UNCHANGED <<limits, call, request, page, next, links, refused>>

Target(item) == Trim(item.url)

(* The script in Search goes over what its selectors match, one after      *)
(* another, and keeps the first anchor with each address.                  *)
Collect(matches) ==
    LET found[i \in 0..Len(matches)] ==
            IF i = 0 THEN << >>
            ELSE IF \/ Target(matches[i]).runes = 0
                    \/ \E k \in 1..Len(found[i - 1]) : Target(found[i - 1][k]) = Target(matches[i])
                 THEN found[i - 1] ELSE Append(found[i - 1], matches[i])
    IN  found[Len(matches)]
Items == IF call.tool = "browse_url" THEN page.anchors ELSE Collect(page.matches)

MaxLinks == IF call.tool = "browse_url" THEN limits.links ELSE request.max
LinkClipped(item) ==
    \/ Clipped(item.title, limits.linkText)
    \/ call.tool = "search_web" /\ Clipped(item.snippet, limits.linkText)
Seen(url) == call.tool = "search_web" /\ \E i \in 1..Len(links) : links[i].url = url

\* Faulty variant: a full list ends the loop without a flag.
LinksFullSilently ==
    /\ pc = "links" /\ next <= Len(Items) /\ Len(links) >= MaxLinks
    /\ pc' = "reply"
    /\ UNCHANGED <<limits, call, request, page, next, links, refused, truncated, reply>>

LinksFull ==
    /\ pc = "links" /\ next <= Len(Items) /\ Len(links) >= MaxLinks
    /\ truncated' = TRUE /\ pc' = "reply"
    /\ UNCHANGED <<limits, call, request, page, next, links, refused, reply>>

SkipLink ==
    /\ pc = "links" /\ next <= Len(Items) /\ Len(links) < MaxLinks
    /\ Target(Items[next]).runes = 0 \/ Seen(Target(Items[next]))
    /\ next' = next + 1
    /\ UNCHANGED <<pc, limits, call, request, page, links, refused, truncated, reply>>

CheckLink ==
    /\ pc = "links" /\ next <= Len(Items) /\ Len(links) < MaxLinks
    /\ Target(Items[next]).runes > 0 /\ ~Seen(Target(Items[next]))
    /\ \E verdict \in URLVerdicts(Target(Items[next])) :
           IF verdict = "ok"
           THEN /\ links' = Append(links, [url |-> Target(Items[next]), rank |-> Len(links) + 1, at |-> next])
                /\ truncated' = (truncated \/ LinkClipped(Items[next]))
                /\ UNCHANGED refused
           ELSE refused' = refused \cup {next} /\ UNCHANGED <<links, truncated>>
    /\ next' = next + 1
    /\ UNCHANGED <<pc, limits, call, request, page, reply>>

LinksEnd == /\ pc = "links" /\ next > Len(Items)
            /\ pc' = "reply"
            /\ UNCHANGED <<limits, call, request, page, Reading, reply>>

Reply == /\ pc = "reply"
         /\ Answered("server", "success", "none") /\ pc' = "done"
         /\ UNCHANGED <<limits, call, request, page, Reading>>

Stopped == pc \in {"done", "panicked"}

Terminated == Stopped /\ UNCHANGED vars

Check == Propose \/ Refuse \/ Accept \/ CheckTarget
Session == SessionFails \/ SessionEnds
Read == CheckFinal \/ LinksFull \/ SkipLink \/ CheckLink \/ LinksEnd \/ Reply
Next == Check \/ Session \/ Read \/ Terminated

Spec == Init /\ [][Next]_vars
-----------------------------------------------------------------------------
Succeeded == pc = "done" /\ reply.status = "success"

(* What passes the schema can be carried out: the assertions on the        *)
(* arguments hold, the query is not cut, however many bytes its characters *)
(* have, and its address is not too long; limits are positive whatever the *)
(* server was made with (server.go:194, 230; browser.go:164-171, 358-376). *)
AcceptedIsUsable ==
    /\ pc # "panicked"
    /\ request # NoRequest => request.max >= 1
    /\ request.tool = "browse_url" => request.max <= limits.maxTextChars
    /\ request.tool = "search_web" =>
           /\ request.max <= limits.maxResults
           /\ request.query = Trim(Decoded(call.raw).fields.query.text)
           /\ SearchURLLength(request.query) <= MaxURLLength

(* The agent, which has the schemas from JSON, and the server, which has   *)
(* them from Go, judge arguments alike: a call the agent lets through is   *)
(* refused only for text behind its object, and what it does not let       *)
(* through the server would not have run (toolcall.go:103, server.go:189). *)
ChecksAgree ==
    /\ call.agent /\ reply.by = "server" /\ reply.status = "invalid_arguments" => call.trailing
    /\ reply.by = "agent" => ~AcceptsRaw(InputSchema(call.tool), call.raw) \/ call.raw.kind = "null"

(* Links stand in the order of the page, with their own ranks, as many as  *)
(* allowed, and a search gives no address twice.  Unless it is flagged, a  *)
(* result has every text in full and every address that was not refused    *)
(* when its turn came (browser.go:315-341, 579-622).                       *)
UnflaggedPageIsComplete ==
    Succeeded =>
        /\ Len(links) <= MaxLinks
        /\ \A i \in 1..Len(links) :
               /\ links[i].rank = i /\ links[i].at \notin refused
               /\ links[i].url = Target(Items[links[i].at])
               /\ \A j \in 1..i-1 : /\ links[j].at < links[i].at
                                    /\ call.tool = "search_web" => links[j].url # links[i].url
        /\ ~truncated =>
               /\ page.visible.runes <= IF call.tool = "browse_url" THEN request.max ELSE limits.maxTextChars
               /\ call.tool = "browse_url" => ContentOf[page].md.runes <= request.max
               /\ \A k \in 1..Len(Items) :
                      Target(Items[k]).runes = 0 \/ k \in refused
                      \/ \E i \in 1..Len(links) :
                             links[i].url = Target(Items[k]) /\ ~LinkClipped(Items[links[i].at])

(* The elements on the way from an element up to the document. *)
Ancestors(tree, i) ==
    LET Up[j \in 0..Len(tree)] == IF j = 0 THEN {} ELSE {j} \cup Up[tree[j].parent]
    IN  Up[i]

(* What is below an element, but for what is to be removed and its parts. *)
Presentable(tree, root) ==
    {i \in 1..Len(tree) :
        /\ root \in Ancestors(tree, i)
        /\ \A j \in Ancestors(tree, i) \ Ancestors(tree, root) : ~ShouldRemove(tree[j])}

(* The content is as good as the page allows.  There is some whenever      *)
(* there is visible text, and it is the plain visible text only if no      *)
(* candidate of the rendered page has letters.  An element's content is    *)
(* free of everything that is to be removed, wherever that is below it; no *)
(* other candidate beats it; and an adequate readable text gives way to it *)
(* only if it keeps four fifths of the letters (browser.go:669-690,        *)
(* 754-778, 865-878, 1034-1048).                                           *)
ContentChosen ==
    Succeeded /\ call.tool = "browse_url" =>
        LET content == ContentOf[page]
            tree == page.tree
            Shown(i) == Markdown(tree, Presentable(tree, i))
            Quality(i) == Assess(Shown(i), Bonus(Source(tree, i)))
            others == {i \in Candidates(tree) : Shown(i).letters > 0}
        IN  /\ page.visible.runes > 0 => content.md.runes > 0
            /\ content.method = "inner_text" => ~page.absolute \/ others = {}
            /\ content.method = "rendered_dom_markdown" =>
                   /\ page.readable.letters >= InadequateTextRunes =>
                          5 * content.md.letters >= 4 * (page.readable.letters - 1)
                   /\ \E i \in others : /\ content.md = Shown(i)
                                        /\ \A j \in others : ~Beats(Quality(j), Quality(i))
=============================================================================
