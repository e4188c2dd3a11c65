----------------------------- MODULE HttpTransport -----------------------------
(***************************************************************************)
(* HttpJsonRpcServer (http_jsonrpc.cpp): the threads of httplib run one    *)
(* handler for each POST.  /jsonrpc takes one message or a batch, maps its *)
(* elements to tasks of the runtime and gathers their results; initialize  *)
(* opens a session, which gives later POSTs the same client id.  /mcp      *)
(* takes one validated message; tools/call is answered by a stream that    *)
(* polls the result and watches its client and the deadline.               *)
(*                                                                         *)
(* A task is a pair <<post, position>>.  The runtime is what RequestService *)
(* promises; that it unregisters a task a moment after it was resolved is  *)
(* TaskRuntime's subject.  httplib serves HttpThreads POSTs at a time and  *)
(* tells a stream's releaser whether it succeeded.                         *)
(***************************************************************************)
EXTENDS HttpValidation, FiniteSets

CONSTANTS
    Posts, Users,
    SenderOf,       \* the users who may send each POST (a bound)
    Unknown,        \* a session id that was never granted
    NoTask,
    Ids,            \* JSON-RPC ids
    MaxElements,    \* length of the longest batch (a bound)
    HttpThreads,    \* threads of httplib
    RequestsOf      \* the requests tried for each post; one with the field "alone"
                    \* only while no other POST is in progress, and only such a
                    \* one with an unknown session (bounds)

ASSUME TransportAssumption ==
    /\ HttpThreads \in Nat \ {0} /\ MaxElements \in Nat \ {0}
    /\ None \notin Posts /\ Unknown \notin Posts /\ NoTask \notin Posts \X (1..MaxElements)

Tasks == Posts \X (1..MaxElements)
Keys == Posts \X Ids

VARIABLES
    where,      \* where the thread of each POST is
    request,    \* what was posted
    sender,     \* the user who posted it
    session,    \* its Mcp-Session-Id header
    cursor,     \* the element its thread is at
    client,     \* the connection of its user
    status,     \* the HTTP status
    answer,     \* the responses of the body: <<position, verdict>>
    task,       \* what the runtime did to each task
    token,      \* unresolved tasks whose cancellation token is set
    expired,    \* unresolved tasks whose deadline has passed
    registry,   \* the cancellation registry
    sessions,   \* sessions_; a session is named after the POST that opened it
    granted,    \* sessions whose id has reached a client (history)
    cancelled   \* <<post, task>>: the post's notification set the token (history)

vars == <<where, request, sender, session, cursor, client, status, answer, task, token, expired,
          registry, sessions, granted, cancelled>>
runtime == <<task, token, expired, registry>>
posted == <<request, sender, session>>
history == <<granted, cancelled>>

\* An element is a request, an initialize request, a notification, a cancellation
\* notification, or nothing that can be read as a request.
ElementKinds == {"call", "initialize", "note", "cancel", "invalid"}
HasTask(element) == element.kind \in {"call", "initialize", "note"}
HasResponse(element) == element.kind \in {"call", "initialize"}

\* What is posted: a batch, or one message; and one message on /mcp, which treats
\* every method and every notification alike.
IsRequest(r) ==
    /\ r.endpoint \in {"/jsonrpc", "/mcp"} /\ r.batch \in BOOLEAN
    /\ \E n \in 1..MaxElements :
          /\ r.elements \in [1..n -> [kind : ElementKinds, id : Ids \cup {None}]]
          /\ r.endpoint = "/mcp" \/ ~r.batch => n = 1
    /\ \A i \in DOMAIN r.elements :
          HasResponse(r.elements[i]) \/ r.elements[i].kind = "cancel" => r.elements[i].id \in Ids
    /\ r.endpoint = "/mcp" =>
          /\ r.elements[1].kind \in {"call", "note"}
          /\ r.verb \in {"POST", "GET", "DELETE", "OPTIONS"}
          /\ r.post.origin \in {None, "local", "foreign"}

ASSUME RequestsAssumption ==
    \A p \in Posts : SenderOf[p] \subseteq Users /\ \A r \in RequestsOf[p] : IsRequest(r)

\* "unserialisable": the result holds a string that is not UTF-8.  The other errors
\* of a handler take the way of "method_not_found", but for its HTTP status.
Results == {"ok", "method_not_found", "unserialisable"}
Resolved == Results \cup {"busy", "cancelled", "timeout"}

Element(p, i) == request[p].elements[i]
Size(p) == Len(request[p].elements)
Modern(p) == request[p].endpoint = "/mcp"
Streamed(p) == Modern(p) /\ request[p].post.method = "tools/call" /\ HasResponse(Element(p, 1))

NoRequest == [endpoint |-> "none", alone |-> FALSE, elements |-> <<>>]

Init ==
    /\ where = [p \in Posts |-> "idle"]
    /\ request = [p \in Posts |-> NoRequest]
    /\ sender = [p \in Posts |-> None]
    /\ session = [p \in Posts |-> None]
    /\ cursor = [p \in Posts |-> 1]
    /\ client = [p \in Posts |-> "here"]
    /\ status = [p \in Posts |-> 0]
    /\ answer = [p \in Posts |-> <<>>]
    /\ task = [t \in Tasks |-> "none"]
    /\ token = {} /\ expired = {}
    /\ registry = [k \in Keys |-> NoTask]
    /\ sessions = {} /\ granted = {}
    /\ cancelled = {}

-------------------------------------------------------------------------------
At(p, place) == where[p] = place
Goto(p, place) == where' = [where EXCEPT ![p] = place]
Close(p, code) == Goto(p, "closed") /\ status' = [status EXCEPT ![p] = code]

(* A client posts something, on /jsonrpc with no session, one it was granted, *)
(* or one that does not exist.                                                *)
Send(p, u, r, s) ==
    /\ At(p, "idle")
    /\ \/ s = None
       \/ /\ r.endpoint = "/jsonrpc"
          /\ \/ s = Unknown /\ r.alone
             \/ s \in granted /\ sender[s] = u
    /\ \A q \in Posts : ~request[q].alone /\ (r.alone => At(q, "idle"))
    /\ Goto(p, "sent")
    /\ request' = [request EXCEPT ![p] = r]
    /\ sender' = [sender EXCEPT ![p] = u]
    /\ session' = [session EXCEPT ![p] = s]
    /\ UNCHANGED <<cursor, client, status, answer, runtime, sessions, history>>

ThreadFree == Cardinality({p \in Posts : where[p] \notin {"idle", "sent", "closed"}}) < HttpThreads

\* The status of a request that is refused at the door, 0 for any other.
Refusal(p) ==
    LET r == request[p] IN
    CASE Modern(p) /\ r.verb = "POST" -> ValidationStatus(r.post)
      [] Modern(p) /\ r.verb = "OPTIONS" -> PreflightStatus(r.post.origin, HeadersOf(r.post))
      [] Modern(p) /\ r.verb \in {"GET", "DELETE"} -> ObsoleteStatus(r.post.origin)
      [] OTHER -> IF session[p] \in sessions \cup {None} THEN 0 ELSE 404

\* A thread takes the POST and refuses it.
Refuse(p) ==
    /\ At(p, "sent") /\ ThreadFree
    /\ Refusal(p) # 0
    /\ Close(p, Refusal(p))
    /\ request' = [request EXCEPT ![p] = NoRequest]
    /\ session' = [session EXCEPT ![p] = None]
    /\ UNCHANGED <<sender, cursor, client, answer, runtime, sessions, history>>

Accept(p) ==
    /\ At(p, "sent") /\ ThreadFree
    /\ Refusal(p) = 0
    /\ Goto(p, "map")
    /\ UNCHANGED <<posted, cursor, client, status, answer, runtime, sessions, history>>

-------------------------------------------------------------------------------
(* The map phase of handle_request; /mcp and a single message have one element. *)

\* Faulty: POSTs without a session share one client id.
LegacyClientShared(p) == CHOOSE q \in Posts : TRUE
LegacyClientId(p) == p

ClientOf(p) == IF session[p] = None THEN LegacyClientId(p) ELSE session[p]
Key(p, i) == <<ClientOf(p), Element(p, i).id>>

Mapping(p) == At(p, "map") /\ cursor[p] <= Size(p)
Advance(p) == cursor' = [cursor EXCEPT ![p] = @ + 1]

\* The error of an element that cannot be read is stored at its index.
MapInvalid(p) ==
    /\ Mapping(p) /\ Element(p, cursor[p]).kind = "invalid"
    /\ Advance(p)
    /\ UNCHANGED <<where, posted, client, status, answer, runtime, sessions, history>>

\* cancel_request, inline and without a response.
MapCancel(p) ==
    LET target == registry[Key(p, cursor[p])] IN
    /\ Mapping(p) /\ Element(p, cursor[p]).kind = "cancel"
    /\ Advance(p)
    /\ token' = IF target = NoTask THEN token ELSE token \cup {target}
    /\ cancelled' = IF target = NoTask THEN cancelled ELSE cancelled \cup {<<p, target>>}
    /\ UNCHANGED <<where, posted, client, status, answer, task, expired, registry, sessions, granted>>

(* submit registers the task, which overwrites an older one with its key, and *)
(* unregisters the key again if the queue has no room.                        *)
MapSubmit(p) ==
    LET i == cursor[p] IN
    /\ Mapping(p) /\ HasTask(Element(p, i))
    /\ Advance(p)
    /\ \E outcome \in {"live", "busy"} :
          /\ task' = [task EXCEPT ![<<p, i>>] = outcome]
          /\ registry' = IF HasResponse(Element(p, i))
                         THEN [registry EXCEPT ![Key(p, i)] =
                                  IF outcome = "live" THEN <<p, i>> ELSE NoTask]
                         ELSE registry
    /\ UNCHANGED <<where, posted, client, status, answer, token, expired, sessions, history>>

\* /mcp acknowledges a notification as soon as it was queued, or not.
Acknowledge(p) ==
    /\ At(p, "map") /\ cursor[p] > Size(p)
    /\ Modern(p) /\ ~HasResponse(Element(p, 1))
    /\ Close(p, IF task[<<p, 1>>] = "busy" THEN 503 ELSE 202)
    /\ UNCHANGED <<posted, cursor, client, answer, runtime, sessions, history>>

EndMap(p) ==
    /\ At(p, "map") /\ cursor[p] > Size(p)
    /\ ~Modern(p) \/ HasResponse(Element(p, 1))
    /\ Goto(p, IF Streamed(p) THEN "stream" ELSE "gather")
    /\ cursor' = [cursor EXCEPT ![p] = 1]
    /\ UNCHANGED <<posted, client, status, answer, runtime, sessions, history>>

-------------------------------------------------------------------------------
(* The gather phase: wait_for_result for one element after the other *)

Gathering(p) == At(p, "gather") /\ cursor[p] <= Size(p)

\* Faulty: whatever was waited for gets a response.
RespondAlways(p, i, verdict) == answer' = [answer EXCEPT ![p] = Append(@, <<i, verdict>>)]
Respond(p, i, verdict) ==
    answer' = IF HasResponse(Element(p, i)) THEN [answer EXCEPT ![p] = Append(@, <<i, verdict>>)]
              ELSE answer

\* Notifications of a batch are not waited for; a single notification is.
AwaitedBySingle(p, i) == HasTask(Element(p, i)) /\ ~Modern(p) /\ ~request[p].batch
Awaited(p, i) == HasResponse(Element(p, i)) \/ AwaitedBySingle(p, i)

GatherStored(p) ==
    LET i == cursor[p] IN
    /\ Gathering(p) /\ ~Awaited(p, i)
    /\ Advance(p)
    /\ answer' = IF Element(p, i).kind = "invalid"
                 THEN [answer EXCEPT ![p] = Append(@, <<i, "invalid">>)] ELSE answer
    /\ UNCHANGED <<where, posted, client, status, runtime, sessions, history>>

GatherResult(p) ==
    LET i == cursor[p] IN
    /\ Gathering(p) /\ Awaited(p, i)
    /\ task[<<p, i>>] \in Resolved
    /\ Advance(p)
    /\ Respond(p, i, task[<<p, i>>])
    /\ UNCHANGED <<where, posted, client, status, runtime, sessions, history>>

\* Faulty: the waiter gives up and lets the task go on.
TokenKept(t) == token
TokenSet(t) == IF task[t] = "live" THEN token \cup {t} ELSE token

GatherTimeout(p) ==
    LET i == cursor[p] IN
    /\ Gathering(p) /\ Awaited(p, i)
    /\ task[<<p, i>>] = "live" /\ <<p, i>> \in expired
    /\ Advance(p)
    /\ Respond(p, i, "timeout")
    /\ token' = TokenSet(<<p, i>>)
    /\ UNCHANGED <<where, posted, client, status, task, expired, registry, sessions, history>>

Unserialisable(p) == \E k \in DOMAIN answer[p] : answer[p][k][2] = "unserialisable"
Opens(p) == ~Modern(p) /\ ~request[p].batch /\ session[p] = None /\ Element(p, 1).kind = "initialize"

\* A session is opened only for an initialize that succeeded.
OpensSession(p) == Opens(p) /\ answer[p] = <<<<1, "ok">>>>

\* Faulty: the JSON-RPC code of the error goes out as the HTTP status.
CodeAsStatus(p) == IF answer[p] = <<<<1, "method_not_found">>>> THEN 0 - 32601 ELSE 200
\* ModernHttpStatus; the version errors it maps to 400 were found by validation.
HttpStatus(p) ==
    CASE Modern(p) /\ Unserialisable(p) -> 500
      [] Modern(p) /\ answer[p] = <<<<1, "method_not_found">>>> -> 404
      [] OTHER -> 200

(* dump() throws for the whole body if one result cannot be serialised, and  *)
(* handle_request answers with one error instead.  A session is known before *)
(* its id leaves.                                                            *)
EndGather(p) ==
    /\ At(p, "gather") /\ cursor[p] > Size(p)
    /\ Goto(p, "respond")
    /\ status' = [status EXCEPT ![p] = HttpStatus(p)]
    /\ answer' = IF Unserialisable(p) THEN [answer EXCEPT ![p] = <<<<0, "internal">>>>] ELSE answer
    /\ sessions' = IF OpensSession(p) THEN sessions \cup {p} ELSE sessions
    /\ UNCHANGED <<posted, cursor, client, runtime, history>>

\* The response reaches its client, or is lost.
Deliver(p) ==
    /\ At(p, "respond")
    /\ Goto(p, "closed")
    /\ \/ granted' = IF p \in sessions THEN granted \cup {p} ELSE granted
       \/ UNCHANGED granted
    /\ UNCHANGED <<posted, cursor, client, status, answer, runtime, sessions, cancelled>>

-------------------------------------------------------------------------------
(* The stream of a tools/call.  Its releaser cancels the task of a stream    *)
(* that failed.                                                              *)
Call(p) == <<p, 1>>

\* Faulty: a stream has no deadline of its own.
NoStreamDeadline(p) == FALSE
StreamOverdue(p) == Call(p) \in expired

\* Between two looks at the result: it is there, or the wait of 10 ms is over.
Poll(p) ==
    /\ At(p, "stream")
    /\ Goto(p, IF task[Call(p)] \in Resolved THEN "write" ELSE "polled")
    /\ UNCHANGED <<posted, cursor, client, status, answer, runtime, sessions, history>>

Abandon(p) ==
    /\ where[p] \in {"stream", "polled"} /\ client[p] = "gone"
    /\ Close(p, 200)
    /\ token' = TokenSet(Call(p))
    /\ UNCHANGED <<posted, cursor, client, answer, task, expired, registry, sessions, history>>

StreamTimeout(p) ==
    /\ At(p, "polled") /\ StreamOverdue(p)
    /\ Goto(p, "write_timeout")
    /\ token' = TokenSet(Call(p))
    /\ UNCHANGED <<posted, cursor, client, status, answer, task, expired, registry, sessions, history>>

PollAgain(p) ==
    /\ At(p, "polled") /\ ~StreamOverdue(p)
    /\ Goto(p, "stream")
    /\ UNCHANGED <<posted, cursor, client, status, answer, runtime, sessions, history>>

Verdict(p) == IF At(p, "write_timeout") THEN "timeout" ELSE task[Call(p)]
Writing(p) == where[p] \in {"write", "write_timeout"}

WriteEvent(p) ==
    /\ Writing(p) /\ Verdict(p) # "unserialisable"
    /\ Close(p, 200)
    /\ answer' = [answer EXCEPT ![p] = <<<<1, Verdict(p)>>>>]
    /\ UNCHANGED <<posted, cursor, client, runtime, sessions, history>>

WriteFails(p) ==
    /\ Writing(p) /\ Verdict(p) # "unserialisable" /\ client[p] = "gone"
    /\ Close(p, 200)
    /\ token' = TokenSet(Call(p))
    /\ UNCHANGED <<posted, cursor, client, answer, task, expired, registry, sessions, history>>

\* dump() throws in the content provider, where neither the handler nor httplib
\* catches: std::terminate.
ProviderThrows(p) ==
    /\ Writing(p) /\ Verdict(p) = "unserialisable"
    /\ Goto(p, "thrown")
    /\ UNCHANGED <<posted, cursor, client, status, answer, runtime, sessions, history>>

Leave(p) ==
    /\ where[p] \in {"stream", "polled", "write", "write_timeout"} /\ client[p] = "here"
    /\ client' = [client EXCEPT ![p] = "gone"]
    /\ UNCHANGED <<where, posted, cursor, status, answer, runtime, sessions, history>>

-------------------------------------------------------------------------------
(* The runtime *)

\* An error of a handler makes a difference to /mcp's status and to initialize only.
ErrorMatters(t) ==
    (Modern(t[1]) /\ ~Streamed(t[1])) \/ Element(t[1], t[2]).kind = "initialize"
Verdicts(t) ==
    IF Element(t[1], t[2]).kind = "note" THEN {"ok"}
    ELSE (IF ErrorMatters(t) THEN Results ELSE Results \ {"method_not_found"})
                 \cup (IF t \in token THEN {"cancelled"} ELSE {})
                 \cup (IF t \in expired THEN {"timeout"} ELSE {})

\* Token and clock of a resolved task are forgotten, except that a stream may have
\* polled just before.
Resolve(t) ==
    /\ task[t] = "live"
    /\ \E v \in Verdicts(t) : task' = [task EXCEPT ![t] = v]
    /\ registry' = IF HasResponse(Element(t[1], t[2]))
                   THEN [registry EXCEPT ![Key(t[1], t[2])] = NoTask] ELSE registry
    /\ token' = token \ {t}
    /\ expired' = IF At(t[1], "polled") THEN expired ELSE expired \ {t}
    /\ UNCHANGED <<where, posted, cursor, client, status, answer, sessions, history>>

Expire(t) ==
    /\ task[t] = "live" /\ t \notin expired
    /\ expired' = expired \cup {t}
    /\ UNCHANGED <<where, posted, cursor, client, status, answer, task, token, registry, sessions,
                   history>>

-------------------------------------------------------------------------------
Map(p) == MapInvalid(p) \/ MapCancel(p) \/ MapSubmit(p) \/ Acknowledge(p) \/ EndMap(p)
Gather(p) == GatherStored(p) \/ GatherResult(p) \/ GatherTimeout(p) \/ EndGather(p) \/ Deliver(p)
Stream(p) ==
    \/ Poll(p) \/ Abandon(p) \/ StreamTimeout(p) \/ PollAgain(p)
    \/ WriteEvent(p) \/ WriteFails(p) \/ ProviderThrows(p)

Clock == \E t \in Tasks : Expire(t)

Serve(p) == Refuse(p) \/ Accept(p) \/ Map(p) \/ Gather(p) \/ Stream(p)

Work ==
    \/ \E p \in Posts :
          \/ /\ At(p, "idle")
             /\ \E u \in SenderOf[p], r \in RequestsOf[p], s \in Posts \cup {None, Unknown} :
                   Send(p, u, r, s)
          \/ Serve(p)
          \/ Leave(p)
    \/ \E t \in Tasks : Resolve(t)
    \/ Clock

\* An exception that nobody catches ends the process.
Terminated == \E p \in Posts : At(p, "thrown")
Next == ~Terminated /\ Work

\* The threads of httplib run and time passes; no task has to be resolved.
Fairness ==
    /\ \A p \in Posts : WF_vars(~Terminated /\ Serve(p))
    /\ WF_vars(~Terminated /\ Clock)

Spec == Init /\ [][Next]_vars /\ Fairness

-------------------------------------------------------------------------------
Places == {"idle", "sent", "map", "gather", "respond", "stream", "polled", "write", "write_timeout",
           "thrown", "closed"}
AnswerVerdicts == Resolved \cup {"invalid", "internal"}

TypeOK ==
    /\ where \in [Posts -> Places]
    /\ sender \in [Posts -> Users \cup {None}]
    /\ session \in [Posts -> Posts \cup {None, Unknown}]
    /\ cursor \in [Posts -> 1..MaxElements + 1]
    /\ client \in [Posts -> {"here", "gone"}]
    /\ status \in [Posts -> {0, 200, 202, 204, 400, 403, 404, 405, 406, 415, 500, 503}]
    /\ answer \in [Posts -> Seq((0..MaxElements) \X AnswerVerdicts)]
    /\ task \in [Tasks -> Resolved \cup {"none", "live"}]
    /\ token \subseteq Tasks /\ expired \subseteq Tasks
    /\ registry \in [Keys -> Tasks \cup {NoTask}]
    /\ sessions \subseteq Posts /\ granted \subseteq Posts
    /\ cancelled \subseteq Posts \X Tasks
    /\ DOMAIN request = Posts /\ \A p \in Posts : Size(p) <= MaxElements

\* What a /jsonrpc client is owed when its POST is over: one response for every
\* element with an id and every element that cannot be read, none for the others,
\* in the order of the elements whatever the order of completion, each with the
\* verdict of its own task, or a timeout once its deadline has passed; or one
\* error for all of them if a result cannot be serialised.
Owed(p) == {i \in 1..Size(p) : HasResponse(Element(p, i)) \/ Element(p, i).kind = "invalid"}
BatchAnsweredInOrder ==
    \A p \in Posts : where[p] \in {"respond", "closed"} /\ request[p].endpoint = "/jsonrpc" =>
        \/ /\ answer[p] = <<<<0, "internal">>>>
           /\ \E i \in Owed(p) : task[<<p, i>>] = "unserialisable"
        \/ /\ {answer[p][k][1] : k \in DOMAIN answer[p]} = Owed(p)
           /\ \A j, k \in DOMAIN answer[p] : j < k => answer[p][j][1] < answer[p][k][1]
           /\ \A k \in DOMAIN answer[p] :
                 LET t == <<p, answer[p][k][1]>> IN
                 \/ Element(p, t[2]).kind = "invalid" /\ answer[p][k][2] = "invalid"
                 \/ answer[p][k][2] = task[t]
                 \/ answer[p][k][2] = "timeout" /\ (task[t] = "live" => t \in expired)

\* When a POST is over, each task whose result its client does not get (the
\* waiter or the stream gave up, the client left, the write failed) has been told
\* to stop or is known to be resolved: no abandoned work goes on unasked.
GivenUpIsCancelled ==
    \A p \in Posts : where[p] \in {"respond", "closed"} =>
        \A i \in 1..Size(p) :
            task[<<p, i>>] = "live" /\ Awaited(p, i) => <<p, i>> \in token

\* No user's notification cancels a request of another user, whatever ids they
\* use (http_jsonrpc.cpp, the comment in LegacyClientId).
CancelStaysWithUser ==
    \A c \in cancelled : sender[c[1]] = sender[c[2][1]]

\* A message that /mcp submits to the runtime says the same in its headers as in
\* its body (what a proxy routed by is what is executed; only an empty name may go
\* without a header), and a browser's preflight for it would have been granted.
AdmittedAreConsistent ==
    \A p \in Posts : Modern(p) /\ task[<<p, 1>>] # "none" => Consistent(request[p].post)

\* Every POST is answered or closed, even if no handler ever returns and more
\* POSTs arrive than there are threads, unless a result that cannot be serialised
\* ends the process.
PostsEnd == \A p \in Posts : At(p, "sent") ~> At(p, "closed") \/ Terminated
===============================================================================
