----------------------------- MODULE MCHttpTransport -----------------------------
(* A small instance of HttpTransport: three POSTs of two users and two threads. *)
EXTENDS HttpTransport

CONSTANTS p1, p2, p3, ann, bob

\* One tool with a required and an optional parameter.
WeatherProperties == [tool \in {"weather"} |-> {"city", "days"}]
WeatherRequired == [tool \in {"weather"} |-> {"city"}]

Message(kind, id) == [kind |-> kind, id |-> id]
Single(kind, id) ==
    [endpoint |-> "/jsonrpc", alone |-> FALSE, batch |-> FALSE, elements |-> <<Message(kind, id)>>]
Batch(elements) == [endpoint |-> "/jsonrpc", alone |-> FALSE, batch |-> TRUE, elements |-> elements]

\* A valid tools/call, and what may be wrong with a POST to /mcp.
Good ==
    [origin |-> "local", contentType |-> TRUE, accept |-> TRUE, shape |-> "request",
     version |-> Latest, versionHeader |-> Latest, method |-> "tools/call",
     methodHeader |-> "tools/call", about |-> "weather", nameHeader |-> "weather",
     arguments |-> [n \in {"city"} |-> "Paris"], argumentsTyped |-> TRUE,
     params |-> [n \in {"city"} |-> "Paris"], capabilities |-> TRUE]
Read == [Good EXCEPT !.method = "resources/read", !.methodHeader = "resources/read",
                     !.about = "file", !.nameHeader = "file"]

Defects(post) ==
    {[post EXCEPT !.origin = o] : o \in {None, "foreign"}}
        \cup {[post EXCEPT !.contentType = FALSE], [post EXCEPT !.accept = FALSE],
              [post EXCEPT !.argumentsTyped = FALSE], [post EXCEPT !.capabilities = FALSE]}
        \cup {[post EXCEPT !.shape = s] : s \in BodyShapes}
        \cup {[post EXCEPT !.version = v, !.versionHeader = h] :
                 v \in {None, "2025-11-25", Latest}, h \in {None, Empty, "2025-11-25", Latest}}
        \cup {[post EXCEPT !.method = m, !.methodHeader = h] :
                 m \in {post.method, Empty}, h \in {None, Empty, "tools/list"}}
        \cup {[post EXCEPT !.about = a, !.nameHeader = n] :
                 a \in {None, Empty, "weather", "file"},
                 n \in {None, Empty, "weather", "file", "undecodable"}}
        \cup {[post EXCEPT !.arguments = [n \in args |-> "Paris"], !.params = [n \in sent |-> v]] :
                 args \in SUBSET {"city", "days"}, sent \in SUBSET {"city", "days", "units"},
                 v \in {"Paris", "Rome"}}

Mcp(verb, kind, post) ==
    [endpoint |-> "/mcp", alone |-> post # Good \/ verb # "POST" \/ kind = "note", verb |-> verb, batch |-> FALSE,
     post |-> post, elements |-> <<Message(kind, 1)>>]
McpRequests == {Mcp("POST", kind, post) : kind \in {"call", "note"}, post \in {Good, Read}}
OddRequests ==
    {Mcp("POST", "call", post) : post \in (Defects(Good) \cup Defects(Read)) \ {Good, Read}}
        \cup {Mcp(verb, "call", [Good EXCEPT !.origin = o]) :
                 verb \in {"GET", "DELETE", "OPTIONS"}, o \in {None, "local", "foreign"}}

\* An initialize or a batch that cancels its own first element; a call in a session
\* or without one, or a message on /mcp; a cancellation.  Messages that add nothing
\* to the interleavings are tried alone.
Lonely(r) == [r EXCEPT !.alone = TRUE]
Requests ==
    [p \in Posts |->
        CASE p = p1 -> {Single("initialize", 1),
                        Batch(<<Message("call", 1), Message("cancel", 1)>>),
                        Lonely(Batch(<<Message("call", 1), Message("invalid", None), Message("note", None), Message("call", 2)>>)),
                        Lonely(Single("note", None)), Lonely(Single("invalid", None))}
          [] p = p2 -> {Single("call", 1)} \cup McpRequests \cup OddRequests
          [] p = p3 -> {Single("cancel", 1)}]

OfAnn == [p \in Posts |-> IF p = p3 THEN Users ELSE {ann}]
===============================================================================
