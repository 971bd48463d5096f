----------------------------- MODULE MCWebCall -----------------------------
(* TLC instance of WebCall, with the limits of the code: calls that are    *)
(* good, that are wrong in one argument, and that are no objects; pages    *)
(* for which each kind of content is chosen.                               *)
EXTENDS WebCall, TLC

MCDefaults == [textChars |-> 4000, maxTextChars |-> 12000, links |-> 40, linkText |-> 200,
               results |-> 5, maxResults |-> 10]
Unset == [key \in DOMAIN MCDefaults |-> 0]
MCConfigured == {Unset,
                 [Unset EXCEPT !.textChars = 500, !.maxTextChars = 100, !.links = 2,
                               !.results = -1, !.maxResults = 2]}

MCPolicy == [name \in {"docs", "other", "search engine"} |-> "public"] @@ [host |-> NeedsLookup] @@
            [plain |-> "notHttps"] @@ [local |-> "notPublic"] @@ [broken |-> "unparsable"]

URLs == {Words("docs", 30, 1, 0), Words("host", 40, 1, 2), Words("local", 20, 1, 0),
         Words("docs", 4, 1, 4), Words("docs", 2049, 1, 0), Words("docs", 0, 1, 0)}
Queries == {Words("query", 300, 1, 0), Words("query", 300, 4, 0), Words("query", 300, 1, 20),
            Words("query", 75, 4, 0), Words("query", 3, 1, 3), Words("query", 0, 1, 0)}
Docs == [url |-> String(Words("docs", 30, 1, 0))]
Query == [query |-> String(Words("query", 30, 1, 0))]

Limits == {JsonNumber(n) : n \in {0, 1, 10, 11, 12000, 12001}}
          \cup {HalfAfter(1), Overflowing, Null, Boolean(TRUE)}
BrowseArguments ==
    {[url |-> String(url)] : url \in URLs} \cup {[url |-> Null], [url |-> JsonNumber(1)]}
    \cup {Docs @@ [max_text_chars |-> limit] : limit \in Limits}
    \cup {Docs @@ [capture_screenshot |-> Boolean(TRUE)] @@ [screenshot_mode |-> String(Name(mode))] :
              mode \in {"full_page", "half_page"}}
    \cup {[capture_screenshot |-> Boolean(TRUE)], Docs @@ [wait |-> JsonNumber(1)]}
SearchArguments ==
    {[query |-> String(query)] : query \in Queries} \cup {[query |-> Array(<<Null>>)]}
    \cup {Query @@ [max_results |-> limit] : limit \in Limits}
    \cup {Query @@ [engine |-> String(Name(engine))] : engine \in {"duckduckgo", "bing"}}
    \cup {[max_results |-> JsonNumber(1)]}
NoObjects == {[kind |-> "absent"], Null, Array(<<Null>>), JsonNumber(1)}

Call(tool, agent, raw, trailing) ==
    [tool |-> tool, agent |-> agent, raw |-> raw, trailing |-> trailing]
Arguments(tool) == IF tool = "browse_url" THEN BrowseArguments ELSE SearchArguments
Tools == {"browse_url", "search_web"}
MCProposals ==
    UNION {{Call(tool, agent, raw, FALSE) : agent \in BOOLEAN,
            raw \in {Object(fields) : fields \in Arguments(tool)} \cup NoObjects} : tool \in Tools}
    \cup {Call("browse_url", TRUE, Object(Docs), TRUE), Call("search_web", TRUE, Object(Query), TRUE)}

Element(parent, tag, block) ==
    [parent |-> parent, tag |-> tag, role |-> "", hidden |-> FALSE, noise |-> FALSE, block |-> block]
Rich(letters) == [NoText EXCEPT !.letters = letters, !.runes = letters + 40, !.headings = 1,
                                !.lists = 3, !.tables = 1, !.links = 7]

(* An article among navigation; readability finds the article. *)
Article == <<Element(0, "body", Text(10)), Element(1, "nav", Text(300)),
             Element(1, "article", Rich(900)), Element(3, "aside", Text(50)),
             Element(1, "footer", Text(80))>>
(* An application: banners, a dialog inside the main part, a decoy article. *)
App == <<Element(0, "body", NoText), [Element(1, "div", Text(400)) EXCEPT !.noise = TRUE],
         Element(1, "article", Text(30)), [Element(1, "div", Rich(600)) EXCEPT !.role = "main"],
         [Element(4, "section", Rich(700)) EXCEPT !.hidden = TRUE], Element(5, "p", Text(90)),
         [Element(4, "div", Text(60)) EXCEPT !.role = "dialog"], Element(4, "p", Text(20))>>
(* Nothing but scripts, and a canvas with a caption. *)
Scripts == <<Element(0, "body", NoText), Element(1, "script", Text(500)),
             Element(1, "style", Text(500))>>

Item(url, title, snippet) == [url |-> url, title |-> title, snippet |-> snippet]
Address(name) == Words(name, 30, 1, 0)
Nowhere == Item(Words("docs", 0, 1, 0), 1, 0)
Good == Item(Address("docs"), 20, 30)
Long == Item(Address("other"), 201, 10)
Named == Item(Address("host"), 15, 201)
Local == Item(Address("local"), 15, 10)
Endless == Item(Words("docs", 2049, 1, 0), 15, 10)
Page(name, tree, readable, visible) ==
    [url |-> Address(name), absolute |-> TRUE, tree |-> tree, readable |-> readable, visible |-> visible,
     anchors |-> <<Good, Good, Local>>, matches |-> <<Good, Local, Good>>, heavy |-> FALSE]
MCPages == {
    Page("docs", Article, Rich(800), Text(1200)),
    [Page("host", App, Text(120), Text(1100)) EXCEPT
        !.anchors = <<Named, Nowhere, Endless, Long, Good>>,
        !.matches = <<Named, Nowhere, Endless, Named, Good, Long>>, !.heavy = TRUE],
    [Page("docs", App, NoText, Text(90)) EXCEPT !.anchors = << >>, !.matches = << >>],
    [Page("docs", App, Rich(900), Text(90)) EXCEPT !.anchors = <<Long>>, !.matches = <<Named>>],
    Page("docs", Scripts, Text(11), Text(11)),
    [Page("docs", Article, NoText, Text(12001)) EXCEPT !.absolute = FALSE],
    Page("local", Scripts, NoText, NoText)}
=============================================================================
