-------------------------- MODULE HttpTransport_proofs --------------------------
(***************************************************************************)
(* Proofs about HttpTransport and HttpValidation, for every set of POSTs,  *)
(* users and requests.                                                     *)
(***************************************************************************)
EXTENDS HttpTransport, SequenceTheorems, TLAPS

-------------------------------------------------------------------------------
(* HttpValidation *)

LEMMA FirstOfTen ==
    ASSUME NEW S, S \subseteq 1..10, S # {}
    PROVE  \E i \in S : \A j \in S : i <= j
<1>1. PICK n \in S : TRUE
  OBVIOUS
<1>2. n \in 1..10
  OBVIOUS
<1>3. \A i \in S : i \in {1, 2, 3, 4, 5, 6, 7, 8, 9, 10}
  OBVIOUS
<1>4. CASE 1 \in S
  BY <1>3, <1>4
<1>5. CASE 1 \notin S /\ 2 \in S
  BY <1>3, <1>5
<1>6. CASE {1, 2} \cap S = {} /\ 3 \in S
  BY <1>3, <1>6
<1>7. CASE {1, 2, 3} \cap S = {} /\ 4 \in S
  BY <1>3, <1>7
<1>8. CASE {1, 2, 3, 4} \cap S = {} /\ 5 \in S
  BY <1>3, <1>8
<1>9. CASE {1, 2, 3, 4, 5} \cap S = {}
  BY <1>1, <1>3, <1>9
<1>10. QED
  BY <1>4, <1>5, <1>6, <1>7, <1>8, <1>9

\* A request that passes validation passed each check; one that does not gets
\* the status of a check.
LEMMA ValidationResult ==
    ASSUME NEW post
    PROVE  /\ ValidationStatus(post) \in {0, 400, 403, 406, 415}
           /\ ValidationStatus(post) = 0 => \A i \in 1..10 : Checks(post)[i][1]
<1> DEFINE checks == Checks(post)
           failed == {i \in DOMAIN checks : ~checks[i][1]}
           first == CHOOSE i \in failed : \A j \in failed : i <= j
<1>1. DOMAIN checks = 1..10 /\ \A i \in 1..10 : checks[i][2] \in {400, 403, 406, 415}
  BY DEF Checks
<1>2. ValidationStatus(post) = IF failed = {} THEN 0 ELSE checks[first][2]
  BY DEF ValidationStatus
<1> HIDE DEF checks
<1>3. CASE failed = {}
  BY <1>1, <1>2, <1>3 DEF checks
<1>4. CASE failed # {}
  <2>1. \E i \in failed : \A j \in failed : i <= j
    BY <1>1, <1>4, FirstOfTen
  <2>2. first \in failed
    BY <2>1
  <2>3. checks[first][2] \in {400, 403, 406, 415}
    BY <1>1, <2>2
  <2>4. QED
    BY <1>2, <1>4, <2>3
<1>5. QED
  BY <1>3, <1>4

LEMMA ValidatedIsConsistent ==
    ASSUME NEW post, post.origin \in {None, "local", "foreign"}, ValidationStatus(post) = 0
    PROVE  Consistent(post)
<1>1. \A i \in 1..10 : Checks(post)[i][1]
  BY ValidationResult
<1>2. /\ Checks(post)[1][1] /\ Checks(post)[5][1] /\ Checks(post)[6][1] /\ Checks(post)[7][1]
      /\ Checks(post)[8][1] /\ Checks(post)[9][1]
  BY <1>1
<1>3. /\ IsAllowedOrigin(post.origin)
      /\ Matches(post.versionHeader, post.version) /\ post.version = Latest
      /\ Matches(post.methodHeader, post.method)
      /\ NameAgrees(post) /\ ToolParamsAgree(post)
  BY <1>2 DEF Checks
<1>3a. post.versionHeader = post.version /\ post.methodHeader = post.method
  BY <1>3 DEF Matches, HeaderValue
<1>4. post.origin \in {None, "local"}
  BY <1>3 DEF IsAllowedOrigin
<1>5. \A h \in HeadersOf(post) : IsAllowedModernRequestHeader(h)
  BY DEF HeadersOf, IsAllowedModernRequestHeader, AllowedHeaders
<1>6. PreflightStatus(post.origin, HeadersOf(post)) = 204
  BY <1>3, <1>5 DEF PreflightStatus
<1>7. post.method \in {"tools/call", "resources/read", "prompts/get"} =>
        post.nameHeader = post.about \/ (post.nameHeader = None /\ post.about = Empty)
  BY <1>3 DEF NameAgrees, RequiresMcpName, HeaderValue
<1>8. ASSUME post.method = "tools/call", post.about \in Tools
      PROVE  /\ DOMAIN post.params = DOMAIN post.arguments \cap Properties[post.about]
             /\ \A n \in DOMAIN post.params : post.params[n] = post.arguments[n]
  BY <1>3, <1>8 DEF ToolParamsAgree, HeadersSent
<1>9. QED
  BY <1>3, <1>3a, <1>4, <1>6, <1>7, <1>8 DEF Consistent

\* What a POST is that a thread took and did not refuse.
LEMMA AcceptedPost ==
    ASSUME NEW p \in Posts, request[p] \in RequestsOf[p], Refusal(p) = 0
    PROVE  /\ Modern(p) => Consistent(request[p].post)
           /\ ~Modern(p) => session[p] \in sessions \cup {None}
<1>1. IsRequest(request[p])
  BY RequestsAssumption
<1>2. CASE Modern(p)
  <2>1. request[p].verb \in {"POST", "GET", "DELETE", "OPTIONS"}
        /\ request[p].post.origin \in {None, "local", "foreign"}
    BY <1>1, <1>2 DEF IsRequest, Modern
  <2>2. PreflightStatus(request[p].post.origin, HeadersOf(request[p].post)) # 0
    BY DEF PreflightStatus
  <2>3. ObsoleteStatus(request[p].post.origin) # 0
    BY DEF ObsoleteStatus
  <2>4. ValidationStatus(request[p].post) = 0
    BY <1>2, <2>1, <2>2, <2>3 DEF Refusal
  <2>5. QED
    BY <1>2, <2>1, <2>4, ValidatedIsConsistent
<1>3. CASE ~Modern(p)
  BY <1>3 DEF Refusal
<1>4. QED
  BY <1>2, <1>3

LEMMA RefusalType ==
    ASSUME NEW p \in Posts, Refusal(p) # 0
    PROVE  Refusal(p) \in {204, 400, 403, 404, 405, 406, 415}
<1>1. PreflightStatus(request[p].post.origin, HeadersOf(request[p].post)) \in {204, 403}
  BY DEF PreflightStatus
<1>2. ObsoleteStatus(request[p].post.origin) \in {405, 403}
  BY DEF ObsoleteStatus
<1>3. QED
  BY <1>1, <1>2, ValidationResult DEF Refusal

-------------------------------------------------------------------------------
(* Where a POST is *)

\* The POSTs that a thread has taken.
Taken(p) == where[p] \notin {"idle", "sent"}

\* What a POST is while it is somewhere.
PostPlaced(p) ==
    /\ request[p] = NoRequest \/ request[p] \in RequestsOf[p]
    /\ where[p] \notin {"idle", "closed"} => request[p] \in RequestsOf[p]
    /\ cursor[p] <= Size(p) + 1
    /\ where[p] \in {"idle", "sent"} => cursor[p] = 1
    /\ where[p] \in {"stream", "polled", "write", "write_timeout"} => Streamed(p)
    /\ Modern(p) => session[p] = None
    /\ Taken(p) => session[p] \in sessions \cup {None}
    /\ Taken(p) /\ Modern(p) => Consistent(request[p].post)
PostsPlaced == \A p \in Posts : PostPlaced(p)

\* A stream that is about to write its result has it.
ResultsKnown == \A p \in Posts : where[p] = "write" => task[Call(p)] \in Resolved

\* A request has as many elements as the length of its sequence says.
LEMMA RequestLength ==
    ASSUME NEW r, IsRequest(r)
    PROVE  /\ Len(r.elements) \in 1..MaxElements
           /\ r.elements \in [1..Len(r.elements) -> [kind : ElementKinds, id : Ids \cup {None}]]
           /\ r.endpoint = "/mcp" \/ ~r.batch => Len(r.elements) = 1
<1> DEFINE S == [kind : ElementKinds, id : Ids \cup {None}]
<1>1. PICK n \in 1..MaxElements : /\ r.elements \in [1..n -> S]
                                  /\ r.endpoint = "/mcp" \/ ~r.batch => n = 1
  BY DEF IsRequest
<1>2. n \in Nat
  BY TransportAssumption
<1> HIDE DEF S
<1>3. [1..n -> S] \subseteq Seq(S)
  BY <1>2, SeqDef
<1>4. Len(r.elements) = n
  BY <1>1, <1>2, <1>3, LenProperties
<1>5. QED
  BY <1>1, <1>4 DEF S

\* The shape of what was posted.
LEMMA RequestShape ==
    ASSUME NEW p \in Posts, request[p] \in RequestsOf[p]
    PROVE  /\ Size(p) \in 1..MaxElements
           /\ DOMAIN request[p].elements = 1..Size(p)
           /\ \A i \in 1..Size(p) :
                 /\ Element(p, i).kind \in ElementKinds
                 /\ HasResponse(Element(p, i)) \/ Element(p, i).kind = "cancel"
                       => Element(p, i).id \in Ids
           /\ Modern(p) \/ ~request[p].batch => Size(p) = 1
           /\ Modern(p) <=> request[p].endpoint # "/jsonrpc"
<1>1. IsRequest(request[p])
  BY RequestsAssumption
<1>2. \A i \in 1..Size(p) : Element(p, i).kind \in ElementKinds
  BY <1>1, RequestLength DEF Size, Element
<1>3. QED
  BY <1>1, <1>2, RequestLength DEF IsRequest, Size, Element, Modern

LEMMA NothingPosted == ASSUME NEW p \in Posts, request[p] = NoRequest PROVE Size(p) = 0 /\ ~Modern(p)
  BY DEF Size, NoRequest, Modern

\* A step on behalf of one POST.
Act(p) ==
    \/ /\ At(p, "idle")
       /\ \E u \in SenderOf[p], r \in RequestsOf[p], s \in Posts \cup {None, Unknown} :
             Send(p, u, r, s)
    \/ Serve(p) \/ Leave(p)

\* It leaves the other POSTs alone.
LEMMA OtherPosts ==
    ASSUME TypeOK, NEW p \in Posts, Act(p), NEW q \in Posts, q # p
    PROVE  /\ where'[q] = where[q] /\ request'[q] = request[q] /\ sender'[q] = sender[q]
           /\ session'[q] = session[q] /\ cursor'[q] = cursor[q] /\ client'[q] = client[q]
           /\ status'[q] = status[q] /\ answer'[q] = answer[q]
           /\ \A i \in 1..MaxElements : task'[<<q, i>>] = task[<<q, i>>]
<1> USE DEF Goto, Close, Advance, posted, runtime, history, Tasks, TypeOK
<1>1. CASE \E u \in SenderOf[p], r \in RequestsOf[p], s \in Posts \cup {None, Unknown} : Send(p, u, r, s)
  BY <1>1 DEF Send
<1>2. CASE Refuse(p) \/ Accept(p)
  BY <1>2 DEF Refuse, Accept
<1>3. CASE Map(p)
  BY <1>3 DEF Map, MapInvalid, MapCancel, MapSubmit, Acknowledge, EndMap
<1>4. CASE Gather(p)
  BY <1>4 DEF Gather, GatherStored, GatherResult, GatherTimeout, EndGather, Deliver, Respond
<1>5. CASE Stream(p) \/ Leave(p)
  BY <1>5 DEF Stream, Poll, Abandon, StreamTimeout, PollAgain, WriteEvent, WriteFails, ProviderThrows, Leave
<1>6. QED
  BY <1>1, <1>2, <1>3, <1>4, <1>5 DEF Act, Serve

\* Only Send and Refuse change what was posted.
LEMMA PostKept ==
    ASSUME TypeOK, NEW p \in Posts, Act(p), Taken(p)
    PROVE  request' = request /\ session' = session /\ sender' = sender /\ Taken(p)'
<1> USE DEF Goto, Close, Advance, posted, runtime, history, TypeOK, Taken, At
<1>1. CASE Map(p)
  BY <1>1 DEF Map, Mapping, MapInvalid, MapCancel, MapSubmit, Acknowledge, EndMap
<1>2. CASE Gather(p)
  BY <1>2 DEF Gather, GatherStored, GatherResult, GatherTimeout, EndGather, Deliver
<1>3. CASE Stream(p) \/ Leave(p)
  BY <1>3 DEF Stream, Poll, Abandon, StreamTimeout, PollAgain, WriteEvent, WriteFails, ProviderThrows, Leave
<1>4. QED
  BY <1>1, <1>2, <1>3 DEF Act, Serve, Refuse, Accept

LEMMA SessionsGrow == ASSUME TypeOK, NEW p \in Posts, Act(p) PROVE sessions \subseteq sessions'
  BY DEF Act, Serve, Send, Refuse, Accept, Map, MapInvalid, MapCancel, MapSubmit, Acknowledge, EndMap,
     Gather, GatherStored, GatherResult, GatherTimeout, EndGather, Deliver, Stream, Poll, Abandon,
     StreamTimeout, PollAgain, WriteEvent, WriteFails, ProviderThrows, Leave

LEMMA PostStaysPlaced ==
    ASSUME TypeOK, PostsPlaced, NEW p \in Posts, Act(p)
    PROVE  PostsPlaced'
<1>1. ASSUME NEW q \in Posts, q # p PROVE PostPlaced(q)'
  <2>1. PostPlaced(q)
    BY DEF PostsPlaced
  <2>2. QED
    BY <1>1, <2>1, OtherPosts, SessionsGrow
    DEF PostPlaced, Taken, Size, Streamed, Modern, Element, HasResponse
<1>2. PostPlaced(p)'
  <2> USE DEF Goto, Close, Advance, At, Size, Modern
  <2>1. PostPlaced(p)
    BY DEF PostsPlaced
  <2>2. ASSUME NEW u \in SenderOf[p], NEW r \in RequestsOf[p], NEW s \in Posts \cup {None, Unknown},
               Send(p, u, r, s), At(p, "idle")
        PROVE  PostPlaced(p)'
    <3>1. /\ request'[p] = r /\ session'[p] = s /\ where'[p] = "sent" /\ cursor'[p] = 1
          /\ r.endpoint # "/jsonrpc" => s = None
      BY <2>1, <2>2 DEF Send, TypeOK, PostPlaced
    <3>2. IsRequest(r)
      BY RequestsAssumption
    <3>3. Len(r.elements) \in Nat
      BY <3>2, RequestLength, TransportAssumption
    <3>4. QED
      BY <3>1, <3>2, <3>3 DEF PostPlaced, Taken, IsRequest
  <2>3. CASE Refuse(p)
    <3>1. /\ request'[p] = NoRequest /\ session'[p] = None /\ where'[p] = "closed"
          /\ cursor'[p] = 1
      BY <2>1, <2>3 DEF Refuse, TypeOK, PostPlaced
    <3>2. QED
      BY <3>1, EmptySeq DEF PostPlaced, Taken, NoRequest
  <2>4. CASE Accept(p)
    <3>1. request[p] \in RequestsOf[p] /\ Refusal(p) = 0 /\ where'[p] = "map"
      BY <2>1, <2>4 DEF Accept, TypeOK, PostPlaced
    <3>2. Modern(p) => Consistent(request[p].post) /\ session[p] = None
      BY <2>1, <3>1, AcceptedPost DEF PostPlaced
    <3>3. session[p] \in sessions \cup {None}
      BY <3>1, <3>2, AcceptedPost
    <3>4. QED
      BY <2>1, <2>4, <3>1, <3>2, <3>3 DEF Accept, posted, PostPlaced, Taken
  <2>5. ASSUME Taken(p) PROVE PostPlaced(p)'
    <3>1. request' = request /\ session' = session /\ Taken(p)' /\ sessions \subseteq sessions'
      BY <2>5, PostKept, SessionsGrow
    <3>2. /\ cursor'[p] = cursor[p] \/ cursor'[p] = 1
             \/ (cursor[p] <= Size(p) /\ cursor'[p] = cursor[p] + 1)
          /\ where'[p] \in {"stream", "polled", "write", "write_timeout"} => Streamed(p)
          /\ where'[p] # "closed" => where[p] \notin {"idle", "closed"} \/ where'[p] = where[p]
      <4> USE <2>5 DEF Taken, TypeOK
      <4>1. CASE Map(p)
        BY <2>1, <4>1
        DEF Map, Mapping, MapInvalid, MapCancel, MapSubmit, Acknowledge, EndMap, PostPlaced
      <4>2. CASE Gather(p)
        BY <2>1, <4>2
        DEF Gather, Gathering, GatherStored, GatherResult, GatherTimeout, EndGather, Deliver,
            PostPlaced
      <4>3. CASE Stream(p) \/ Leave(p)
        BY <2>1, <4>3
        DEF Stream, Poll, Abandon, StreamTimeout, PollAgain, WriteEvent, Writing, WriteFails, ProviderThrows, Leave,
            PostPlaced
      <4>4. QED
        BY <4>1, <4>2, <4>3 DEF Act, Serve, Refuse, Accept
    <3>3. Size(p) \in Nat
      BY <2>1, RequestShape, NothingPosted, TransportAssumption DEF PostPlaced
    <3>4. QED
      BY <2>1, <2>5, <3>1, <3>2, <3>3
      DEF PostPlaced, Taken, Streamed, Element, HasResponse, TypeOK
  <2>6. QED
    BY <2>2, <2>3, <2>4, <2>5
    DEF Act, Serve, Taken, Map, Mapping, MapInvalid, MapCancel, MapSubmit, Acknowledge, EndMap,
        Gather, Gathering, GatherStored, GatherResult, GatherTimeout, EndGather, Deliver,
        Stream, Poll, Abandon, StreamTimeout, PollAgain, WriteEvent, Writing, WriteFails, ProviderThrows, Leave
<1>3. QED
  BY <1>1, <1>2 DEF PostsPlaced

-------------------------------------------------------------------------------
(* Types *)

\* The elements of a POST that a thread works on.
LEMMA ElementAtCursor ==
    ASSUME TypeOK, PostsPlaced, NEW p \in Posts, where[p] \notin {"idle", "closed"}
    PROVE  /\ Size(p) \in 1..MaxElements /\ cursor[p] \in 1..(Size(p) + 1)
           /\ \A i \in 1..Size(p) : <<p, i>> \in Tasks /\ <<i, "invalid">> \in (0..MaxElements) \X AnswerVerdicts
           /\ \A i \in 1..Size(p) : Element(p, i).kind \in ElementKinds
           /\ Call(p) \in Tasks
<1>1. request[p] \in RequestsOf[p] /\ cursor[p] <= Size(p) + 1
  BY DEF PostsPlaced, PostPlaced
<1>2. Size(p) \in 1..MaxElements /\ \A i \in 1..Size(p) : Element(p, i).kind \in ElementKinds
  BY <1>1, RequestShape
<1>3. MaxElements \in Nat \ {0}
  BY TransportAssumption
<1>4. cursor[p] \in 1..(Size(p) + 1)
  BY <1>1, <1>2, <1>3 DEF TypeOK
<1>5. \A i \in 1..Size(p) : <<p, i>> \in Tasks /\ <<i, "invalid">> \in (0..MaxElements) \X AnswerVerdicts
  BY <1>2, <1>3 DEF Tasks, AnswerVerdicts
<1>6. Call(p) \in Tasks
  BY <1>3 DEF Tasks, Call
<1>7. QED
  BY <1>2, <1>4, <1>5, <1>6

\* The key of an element with an id, once a thread has taken the POST.
LEMMA KeyType ==
    ASSUME TypeOK, PostsPlaced, NEW p \in Posts, Taken(p), NEW i \in 1..Size(p),
           HasResponse(Element(p, i)) \/ Element(p, i).kind = "cancel"
    PROVE  Key(p, i) \in Keys /\ ClientOf(p) \in Posts
<1>1. request[p] # NoRequest
  BY NothingPosted, TransportAssumption DEF TypeOK
<1>2. Element(p, i).id \in Ids
  BY <1>1, RequestShape DEF PostsPlaced, PostPlaced
<1>3. ClientOf(p) \in Posts
  BY DEF PostsPlaced, PostPlaced, ClientOf, LegacyClientId, TypeOK
<1>4. QED
  BY <1>2, <1>3 DEF Key, Keys

LEMMA AnswerType ==
    ASSUME TypeOK, NEW p \in Posts, NEW i \in 0..MaxElements, NEW v \in AnswerVerdicts
    PROVE  /\ [answer EXCEPT ![p] = Append(@, <<i, v>>)]
                  \in [Posts -> Seq((0..MaxElements) \X AnswerVerdicts)]
           /\ [answer EXCEPT ![p] = <<<<i, v>>>>]
                  \in [Posts -> Seq((0..MaxElements) \X AnswerVerdicts)]
<1> DEFINE A == (0..MaxElements) \X AnswerVerdicts
<1>1. <<i, v>> \in A
  OBVIOUS
<1>2. answer \in [Posts -> Seq(A)]
  BY DEF TypeOK
<1> HIDE DEF A
<1>3. Append(answer[p], <<i, v>>) \in Seq(A) /\ <<<<i, v>>>> \in Seq(A)
  BY <1>1, <1>2, AppendProperties
<1>4. QED
  BY <1>2, <1>3 DEF A

LEMMA TokenSetType == ASSUME TypeOK, NEW t \in Tasks PROVE TokenSet(t) \subseteq Tasks
  BY DEF TokenSet, TypeOK

LEMMA TypesKept ==
    ASSUME TypeOK, PostsPlaced, ResultsKnown, NEW p \in Posts, Act(p)
    PROVE  TypeOK'
<1>1. \A q \in Posts : Size(q)' <= MaxElements
  <2>1. \A q \in Posts : PostPlaced(q)'
    BY PostStaysPlaced DEF PostsPlaced
  <2>2. ASSUME NEW q \in Posts PROVE Size(q)' <= MaxElements
    <3>1. CASE request'[q] = NoRequest
      BY <3>1, EmptySeq, TransportAssumption DEF Size, NoRequest
    <3>2. CASE request'[q] \in RequestsOf[q]
      BY <3>2, RequestLength, RequestsAssumption, TransportAssumption DEF Size
    <3>3. QED
      BY <2>1, <3>1, <3>2 DEF PostPlaced
  <2>3. QED
    BY <2>2
<1> USE <1>1 DEF Goto, Close, Advance, At, posted, runtime, history, Places
<1>2. ASSUME NEW u \in SenderOf[p], NEW r \in RequestsOf[p], NEW s \in Posts \cup {None, Unknown},
             Send(p, u, r, s)
      PROVE  TypeOK'
  BY <1>2, RequestsAssumption DEF Send, TypeOK
<1>3. CASE Refuse(p)
  BY <1>3, RefusalType DEF Refuse, TypeOK
<1>4. CASE Accept(p)
  BY <1>4 DEF Accept, TypeOK
<1>5. ASSUME where[p] \notin {"idle", "closed"}, cursor[p] <= Size(p)
      PROVE  [cursor EXCEPT ![p] = @ + 1] \in [Posts -> 1..MaxElements + 1]
  <2>1. cursor[p] \in 1..Size(p) /\ Size(p) \in 1..MaxElements
    BY <1>5, ElementAtCursor
  <2>2. cursor[p] + 1 \in 1..MaxElements + 1
    BY <2>1, TransportAssumption
  <2>3. QED
    BY <2>2 DEF TypeOK
<1>6. CASE Map(p)
  <2>0. where[p] = "map"
    BY <1>6 DEF Map, Mapping, MapInvalid, MapCancel, MapSubmit, Acknowledge, EndMap
  <2>1. CASE MapInvalid(p)
    BY <1>5, <2>0, <2>1 DEF MapInvalid, Mapping, TypeOK
  <2>2. CASE MapCancel(p)
    <3>1. registry[Key(p, cursor[p])] \in Tasks \cup {NoTask}
      <4>1. cursor[p] \in 1..Size(p) /\ Taken(p)
        BY <2>0, <2>2, ElementAtCursor DEF MapCancel, Mapping, Taken
      <4>2. QED
        BY <2>2, <4>1, KeyType DEF MapCancel, TypeOK
    <3>2. token' \subseteq Tasks /\ cancelled' \subseteq Posts \X Tasks
      BY <2>2, <3>1 DEF MapCancel, TypeOK
    <3>3. QED
      BY <1>5, <2>0, <2>2, <3>2 DEF MapCancel, Mapping, TypeOK
  <2>3. CASE MapSubmit(p)
    <3>1. cursor[p] \in 1..Size(p)
      BY <2>0, <2>3, ElementAtCursor DEF MapSubmit, Mapping
    <3>2. <<p, cursor[p]>> \in Tasks
      BY <2>0, <3>1, ElementAtCursor
    <3> DEFINE i == cursor[p]
    <3>a. PICK outcome \in {"live", "busy"} :
             /\ task' = [task EXCEPT ![<<p, i>>] = outcome]
             /\ registry' = IF HasResponse(Element(p, i))
                            THEN [registry EXCEPT ![Key(p, i)] =
                                     IF outcome = "live" THEN <<p, i>> ELSE NoTask]
                            ELSE registry
      BY <2>3 DEF MapSubmit
    <3> HIDE DEF i
    <3>b. outcome \in Resolved \cup {"none", "live"}
      BY DEF Resolved
    <3>3. task' \in [Tasks -> Resolved \cup {"none", "live"}]
      BY <3>a, <3>b DEF TypeOK
    <3>4. registry' \in [Keys -> Tasks \cup {NoTask}]
      BY <3>a, <3>2 DEF TypeOK, i
    <3>5. QED
      BY <1>5, <2>0, <2>3, <3>3, <3>4 DEF MapSubmit, Mapping, TypeOK
  <2>4. CASE Acknowledge(p)
    BY <2>4 DEF Acknowledge, TypeOK
  <2>5. CASE EndMap(p)
    BY <2>5, TransportAssumption DEF EndMap, TypeOK
  <2>6. QED
    BY <1>6, <2>1, <2>2, <2>3, <2>4, <2>5 DEF Map
<1>7. CASE Gather(p)
  <2>0. where[p] \in {"gather", "respond"}
    BY <1>7 DEF Gather, Gathering, GatherStored, GatherResult, GatherTimeout, EndGather, Deliver
  <2>1. ASSUME where[p] = "gather", cursor[p] <= Size(p)
        PROVE  cursor[p] \in 0..MaxElements /\ <<p, cursor[p]>> \in Tasks
    <3>1. cursor[p] \in 1..Size(p) /\ Size(p) \in 1..MaxElements
      BY <2>1, ElementAtCursor
    <3>2. QED
      BY <2>1, <3>1, ElementAtCursor, TransportAssumption
  <2>2. CASE GatherStored(p)
    <3>1. answer' \in [Posts -> Seq((0..MaxElements) \X AnswerVerdicts)]
      BY <2>1, <2>2, AnswerType DEF GatherStored, Gathering, TypeOK, AnswerVerdicts
    <3>2. QED
      BY <1>5, <2>0, <2>2, <3>1 DEF GatherStored, Gathering, TypeOK
  <2>3. CASE GatherResult(p)
    <3>1. answer' \in [Posts -> Seq((0..MaxElements) \X AnswerVerdicts)]
      BY <2>1, <2>3, AnswerType DEF GatherResult, Gathering, Respond, TypeOK, AnswerVerdicts
    <3>2. QED
      BY <1>5, <2>0, <2>3, <3>1 DEF GatherResult, Gathering, TypeOK
  <2>4. CASE GatherTimeout(p)
    <3>1. answer' \in [Posts -> Seq((0..MaxElements) \X AnswerVerdicts)]
      BY <2>1, <2>4, AnswerType DEF GatherTimeout, Gathering, Respond, TypeOK, AnswerVerdicts, Resolved
    <3>2. token' \subseteq Tasks
      <4>1. <<p, cursor[p]>> \in Tasks
        BY <2>1, <2>4 DEF GatherTimeout, Gathering
      <4>2. TokenSet(<<p, cursor[p]>>) \subseteq Tasks
        BY <4>1, TokenSetType
      <4>3. QED
        BY <2>4, <4>2 DEF GatherTimeout
    <3>3. QED
      BY <1>5, <2>0, <2>4, <3>1, <3>2 DEF GatherTimeout, Gathering, TypeOK
  <2>5. CASE EndGather(p)
    <3>1. answer' \in [Posts -> Seq((0..MaxElements) \X AnswerVerdicts)]
      BY <2>5, AnswerType, TransportAssumption DEF EndGather, TypeOK, AnswerVerdicts
    <3>2. HttpStatus(p) \in {200, 404, 500}
      BY DEF HttpStatus
    <3>3. QED
      BY <2>5, <3>1, <3>2 DEF EndGather, TypeOK
  <2>6. CASE Deliver(p)
    BY <2>6 DEF Deliver, TypeOK
  <2>7. QED
    BY <1>7, <2>2, <2>3, <2>4, <2>5, <2>6 DEF Gather
<1>8. CASE Stream(p)
  <2>0. where[p] \in {"stream", "polled", "write", "write_timeout"}
    BY <1>8 DEF Stream, Poll, Abandon, StreamTimeout, PollAgain, WriteEvent, Writing, WriteFails, ProviderThrows
  <2>0a. where \in [Posts -> Places]
    BY DEF TypeOK
  <2>1. Call(p) \in Tasks
    BY <2>0, ElementAtCursor
  <2>2. TokenSet(Call(p)) \subseteq Tasks
    BY <2>1, TokenSetType
  <2>3. CASE Poll(p) \/ PollAgain(p)
    <3>1. where' \in [Posts -> Places]
      BY <2>3, <2>0a DEF Poll, PollAgain
    <3>2. QED
      BY <2>3, <3>1 DEF Poll, PollAgain, TypeOK
  <2>4. CASE Abandon(p) \/ StreamTimeout(p) \/ WriteFails(p)
    <3>1. where' \in [Posts -> Places]
      BY <2>4, <2>0a DEF Abandon, StreamTimeout, WriteFails
    <3>2. token' \subseteq Tasks
      BY <2>2, <2>4 DEF Abandon, StreamTimeout, WriteFails
    <3>3. status' \in [Posts -> {0, 200, 202, 204, 400, 403, 404, 405, 406, 415, 500, 503}]
      BY <2>4 DEF Abandon, StreamTimeout, WriteFails, TypeOK
    <3>4. UNCHANGED <<request, sender, session, cursor, client, answer, task, expired, registry, sessions, granted, cancelled>>
      BY <2>4 DEF Abandon, StreamTimeout, WriteFails
    <3>5. QED
      BY <3>1, <3>2, <3>3, <3>4 DEF TypeOK
  <2>4a. CASE ProviderThrows(p)
    <3>1. where' \in [Posts -> Places]
      BY <2>4a, <2>0a DEF ProviderThrows
    <3>2. QED
      BY <2>4a, <3>1 DEF ProviderThrows, TypeOK
  <2>5. CASE WriteEvent(p)
    <3>1. Verdict(p) \in AnswerVerdicts
      BY <2>5 DEF WriteEvent, Writing, Verdict, ResultsKnown, AnswerVerdicts, Resolved
    <3>2. answer' \in [Posts -> Seq((0..MaxElements) \X AnswerVerdicts)]
      BY <2>5, <3>1, AnswerType, TransportAssumption DEF WriteEvent
    <3>3. QED
      BY <2>5, <3>2 DEF WriteEvent, TypeOK
  <2>6. QED
    BY <1>8, <2>3, <2>4, <2>4a, <2>5 DEF Stream
<1>9. CASE Leave(p)
  BY <1>9 DEF Leave, TypeOK
<1>10. QED
  BY <1>2, <1>3, <1>4, <1>6, <1>7, <1>8, <1>9 DEF Act, Serve

\* A step is on behalf of one POST, or of the runtime, which leaves the POSTs alone.
RuntimeMoves == (\E t \in Tasks : Resolve(t)) \/ Clock

LEMMA SpecWorks == Spec => [][Work]_vars
<1>1. [Next]_vars => [Work]_vars
  BY DEF Next
<1>2. QED
  BY <1>1, PTL DEF Spec

LEMMA Steps ==
    ASSUME [Work]_vars
    PROVE  (\E p \in Posts : Act(p)) \/ RuntimeMoves \/ UNCHANGED vars
  BY DEF Work, Act, RuntimeMoves

\* What a step does to the tasks: one may be submitted, one may be resolved.
LEMMA TaskStep ==
    ASSUME TypeOK, [Work]_vars, NEW t \in Tasks
    PROVE  \/ task'[t] = task[t]
           \/ task[t] = "live" /\ task'[t] \in Resolved
           \/ /\ MapSubmit(t[1]) /\ t[2] = cursor[t[1]]
              /\ task'[t] \in {"live", "busy"}
<1> USE DEF runtime, TypeOK
<1>1. ASSUME NEW p \in Posts, MapSubmit(p)
      PROVE  task'[t] = task[t]
                \/ (t[1] = p /\ t[2] = cursor[p] /\ task'[t] \in {"live", "busy"})
  BY <1>1 DEF MapSubmit
<1>2. ASSUME NEW u \in Tasks, Resolve(u)
      PROVE  task'[t] = task[t] \/ (task[t] = "live" /\ task'[t] \in Resolved)
  <2>1. Verdicts(u) \subseteq Resolved
    BY DEF Verdicts, Results, Resolved
  <2>2. QED
    BY <1>2, <2>1 DEF Resolve
<1>3. CASE \E p \in Posts : MapSubmit(p)
  BY <1>1, <1>3
<1>4. CASE \E u \in Tasks : Resolve(u)
  BY <1>2, <1>4
<1>5. CASE task' = task
  BY <1>5
<1>6. ASSUME NEW p \in Posts, Act(p), ~MapSubmit(p) PROVE task' = task
  <2>1. CASE Map(p)
    BY <1>6, <2>1 DEF Map, MapInvalid, MapCancel, Acknowledge, EndMap
  <2>2. CASE Gather(p)
    BY <2>2 DEF Gather, GatherStored, GatherResult, GatherTimeout, EndGather, Deliver
  <2>3. CASE Stream(p)
    BY <2>3 DEF Stream, Poll, Abandon, StreamTimeout, PollAgain, WriteEvent, WriteFails, ProviderThrows
  <2>4. QED
    BY <1>6, <2>1, <2>2, <2>3 DEF Act, Serve, Send, Refuse, Accept, Leave
<1>7. QED
  BY <1>3, <1>4, <1>5, <1>6, Steps DEF RuntimeMoves, Clock, Expire, vars

LEMMA RuntimeLeavesPosts ==
    ASSUME RuntimeMoves \/ UNCHANGED vars
    PROVE  UNCHANGED <<where, posted, cursor, client, status, answer, sessions, history>>
  BY DEF RuntimeMoves, Clock, Resolve, Expire, vars, posted, history

LEMMA RuntimeTypes ==
    ASSUME TypeOK, PostsPlaced, RuntimeMoves \/ UNCHANGED vars
    PROVE  TypeOK' /\ PostsPlaced'
<1>1. UNCHANGED <<where, request, sender, session, cursor, client, status, answer, sessions, granted,
                  cancelled>>
  BY RuntimeLeavesPosts DEF posted, history
<1>2. PostsPlaced'
  BY <1>1 DEF PostsPlaced, PostPlaced, Taken, Size, Streamed, Modern, Element, HasResponse
<1>3. task' \in [Tasks -> Resolved \cup {"none", "live"}] /\ token' \subseteq Tasks
        /\ expired' \subseteq Tasks /\ registry' \in [Keys -> Tasks \cup {NoTask}]
  <2>1. ASSUME NEW t \in Tasks, Resolve(t)
        PROVE  task' \in [Tasks -> Resolved \cup {"none", "live"}] /\ token' \subseteq Tasks
                 /\ expired' \subseteq Tasks /\ registry' \in [Keys -> Tasks \cup {NoTask}]
    <3>1. Verdicts(t) \subseteq Resolved
      BY DEF Verdicts, Results, Resolved
    <3>2. PICK v \in Resolved : task' = [task EXCEPT ![t] = v]
      BY <2>1, <3>1 DEF Resolve
    <3>3. task' \in [Tasks -> Resolved \cup {"none", "live"}]
      BY <3>2 DEF TypeOK
    <3>4. token' \subseteq Tasks /\ expired' \subseteq Tasks
      BY <2>1 DEF Resolve, TypeOK
    <3>5. registry' \in [Keys -> Tasks \cup {NoTask}]
      BY <2>1 DEF Resolve, TypeOK
    <3>6. QED
      BY <3>3, <3>4, <3>5
  <2>2. CASE Clock \/ UNCHANGED vars
    BY <2>2 DEF Clock, Expire, vars, TypeOK
  <2>3. QED
    BY <2>1, <2>2 DEF RuntimeMoves
<1>4. QED
  BY <1>1, <1>2, <1>3 DEF TypeOK, Size

\* A result that is known stays known.
LEMMA ResultsStayKnown ==
    ASSUME TypeOK, PostsPlaced, ResultsKnown, [Work]_vars
    PROVE  ResultsKnown'
<1> SUFFICES ASSUME NEW p \in Posts, where'[p] = "write" PROVE task'[Call(p)] \in Resolved
  BY DEF ResultsKnown, Call
<1>1. Call(p) \in Tasks
  BY TransportAssumption DEF Call, Tasks
<1>2. task[Call(p)] \in Resolved
  <2>1. CASE where[p] = "write"
    BY <2>1 DEF ResultsKnown
  <2>2. CASE where[p] # "write"
    <3>1. Act(p)
      BY <2>2, Steps, OtherPosts, RuntimeLeavesPosts
    <3>2. Poll(p)
      BY <2>2, <3>1 DEF Act, Send, Serve, Refuse, Accept, Map, MapInvalid, MapCancel, MapSubmit,
         Acknowledge, EndMap, Gather, GatherStored, GatherResult, GatherTimeout, EndGather, Deliver,
         Stream, Abandon, StreamTimeout, PollAgain, WriteEvent, WriteFails, ProviderThrows, Leave, Goto, Close, TypeOK
    <3>3. QED
      BY <2>2, <3>2 DEF Poll, Goto, TypeOK
  <2>3. QED
    BY <2>1, <2>2
<1>3. Call(p)[1] = p /\ "live" \notin Resolved
  BY DEF Call, Resolved, Results
<1>4. CASE MapSubmit(p)
  BY <1>4 DEF MapSubmit, Mapping, At
<1>5. QED
  BY <1>1, <1>2, <1>3, <1>4, TaskStep

\* The variables keep their types.
PlacedInv == TypeOK /\ PostsPlaced /\ ResultsKnown

LEMMA PlacesInvariant == Spec => []PlacedInv
<1>1. Init => PlacedInv
  <2> SUFFICES ASSUME Init PROVE PlacedInv
    OBVIOUS
  <2>1. \A p \in Posts : Size(p) = 0 /\ ~Modern(p) /\ request[p] = NoRequest
    BY EmptySeq DEF Init, Size, Modern, NoRequest
  <2>2. TypeOK
    BY <2>1, TransportAssumption, EmptySeq DEF Init, TypeOK, Places, Resolved
  <2>3. PostsPlaced
    BY <2>1 DEF Init, PostsPlaced, PostPlaced, Taken
  <2>4. QED
    BY <2>2, <2>3 DEF Init, PlacedInv, ResultsKnown
<1>2. ASSUME PlacedInv, [Work]_vars PROVE PlacedInv'
  BY <1>2, Steps, TypesKept, PostStaysPlaced, RuntimeTypes, ResultsStayKnown DEF PlacedInv
<1>3. QED
  BY <1>1, <1>2, SpecWorks, PTL DEF Spec

THEOREM TypeCorrect == Spec => []TypeOK
<1>1. PlacedInv => TypeOK
  BY DEF PlacedInv
<1>2. QED
  BY <1>1, PlacesInvariant, PTL

-------------------------------------------------------------------------------
(* Tasks *)

LEMMA TakenStays ==
    ASSUME TypeOK, [Work]_vars, NEW p \in Posts, Taken(p)
    PROVE  /\ request'[p] = request[p] /\ session'[p] = session[p] /\ sender'[p] = sender[p]
           /\ Taken(p)'
<1>1. CASE Act(p)
  BY <1>1, PostKept
<1>2. ASSUME NEW q \in Posts, Act(q), q # p
      PROVE  request'[p] = request[p] /\ session'[p] = session[p] /\ sender'[p] = sender[p] /\ Taken(p)'
  BY <1>2, OtherPosts DEF Taken
<1>3. CASE RuntimeMoves \/ UNCHANGED vars
  BY <1>3, RuntimeLeavesPosts DEF posted, Taken
<1>4. QED
  BY <1>1, <1>2, <1>3, Steps

\* The map phase goes on from element to element.
LEMMA MapGoesOn ==
    ASSUME TypeOK, [Work]_vars, NEW p \in Posts, Taken(p), where'[p] = "map"
    PROVE  where[p] = "map" /\ cursor'[p] >= cursor[p]
<1> USE DEF TypeOK, Goto, Close, At, Taken
<1>1. CASE Map(p)
  BY <1>1 DEF Map, Mapping, MapInvalid, MapCancel, MapSubmit, Acknowledge, EndMap, Advance
<1>2. CASE Gather(p)
  BY <1>2 DEF Gather, Gathering, GatherStored, GatherResult, GatherTimeout, EndGather, Deliver
<1>3. CASE Stream(p) \/ Leave(p)
  BY <1>3 DEF Stream, Poll, Abandon, StreamTimeout, PollAgain, WriteEvent, Writing, WriteFails, ProviderThrows, Leave
<1>4. ASSUME NEW q \in Posts, Act(q), q # p PROVE where'[p] = where[p] /\ cursor'[p] = cursor[p]
  BY <1>4, OtherPosts
<1>5. CASE RuntimeMoves \/ UNCHANGED vars
  BY <1>5, RuntimeLeavesPosts
<1>6. QED
  BY <1>1, <1>2, <1>3, <1>4, <1>5, Steps DEF Act, Serve, Refuse, Accept

\* A task belongs to an element its POST has submitted.
TaskPlaced(t) ==
    task[t] # "none" =>
        /\ Taken(t[1]) /\ t[2] <= Size(t[1]) /\ HasTask(Element(t[1], t[2]))
        /\ where[t[1]] = "map" => t[2] < cursor[t[1]]
TasksPlaced == \A t \in Tasks : TaskPlaced(t)

LEMMA TasksStayPlaced ==
    ASSUME PlacedInv, TasksPlaced, [Work]_vars
    PROVE  TasksPlaced'
<1> USE DEF PlacedInv
<1> SUFFICES ASSUME NEW t \in Tasks, task'[t] # "none"
             PROVE  /\ Taken(t[1])' /\ t[2] <= Size(t[1])' /\ HasTask(Element(t[1], t[2]))'
                    /\ where'[t[1]] = "map" => t[2] < cursor'[t[1]]
  BY DEF TasksPlaced, TaskPlaced, Tasks
<1> DEFINE p == t[1]
<1>1. p \in Posts /\ t[2] \in 1..MaxElements /\ t[2] \in Int
  BY TransportAssumption DEF Tasks
<1>2. CASE task[t] # "none"
  <2>1. /\ Taken(p) /\ t[2] <= Size(p) /\ HasTask(Element(p, t[2]))
        /\ where[p] = "map" => t[2] < cursor[p]
    BY <1>2 DEF TasksPlaced, TaskPlaced
  <2> HIDE DEF p
  <2>2. request'[p] = request[p] /\ Taken(p)'
    BY <1>1, <2>1, TakenStays
  <2>3. where'[p] = "map" => where[p] = "map" /\ cursor'[p] >= cursor[p]
    BY <1>1, <2>1, MapGoesOn
  <2>4. cursor[p] \in Int /\ cursor'[p] \in Int
    <3>1. TypeOK'
      BY Steps, TypesKept, RuntimeTypes
    <3>2. QED
      BY <1>1, <3>1, TransportAssumption DEF TypeOK
  <2>5. QED
    BY <1>1, <2>1, <2>2, <2>3, <2>4 DEF Size, Element, p
<1>3. CASE task[t] = "none"
  <2>1. MapSubmit(p) /\ t[2] = cursor[p]
    BY <1>3, TaskStep
  <2> HIDE DEF p
  <2>2. /\ where[p] = "map" /\ cursor[p] <= Size(p) /\ HasTask(Element(p, cursor[p]))
        /\ UNCHANGED <<where, request>> /\ cursor'[p] = cursor[p] + 1
    BY <1>1, <2>1 DEF MapSubmit, Mapping, At, posted, Advance, TypeOK
  <2>3. QED
    BY <1>1, <2>1, <2>2 DEF Size, Element, Taken, p
<1>4. QED
  BY <1>2, <1>3

LEMMA TasksInvariant == Spec => []TasksPlaced
<1>1. Init => TasksPlaced
  BY DEF Init, TasksPlaced, TaskPlaced
<1>2. QED
  BY <1>1, TasksStayPlaced, PlacesInvariant, SpecWorks, PTL DEF Spec

\* What /mcp submits to the runtime passed every check of
\* ValidateModernHttpRequest, so that its headers agree with its body (an empty
\* name may go without Mcp-Name, which then reads as empty) and a browser's
\* preflight for it would have been granted.
THEOREM SubmittedIsConsistent == Spec => []AdmittedAreConsistent
<1>1. PlacedInv /\ TasksPlaced => AdmittedAreConsistent
  <2> SUFFICES ASSUME PlacedInv, TasksPlaced, NEW p \in Posts, Modern(p), task[<<p, 1>>] # "none"
               PROVE  Consistent(request[p].post)
    BY DEF AdmittedAreConsistent
  <2>1. <<p, 1>> \in Tasks
    BY TransportAssumption DEF Tasks
  <2>2. Taken(p)
    BY <2>1 DEF TasksPlaced, TaskPlaced
  <2>3. QED
    BY <2>2 DEF PlacedInv, PostsPlaced, PostPlaced
<1>2. QED
  BY <1>1, PlacesInvariant, TasksInvariant, PTL

-------------------------------------------------------------------------------
(* Sessions and cancellation *)

\* A session is used by the user who opened it.
SessionsOwned ==
    /\ \A p \in Posts : session[p] \in Posts =>
           Taken(session[p]) /\ sender[session[p]] = sender[p]
    /\ granted \subseteq sessions /\ \A s \in sessions : Taken(s)

\* The registry holds a task under the client id and the request id it was
\* submitted with.
RegistryAgrees ==
    \A k \in Keys : registry[k] # NoTask =>
        LET t == registry[k] IN
        /\ task[t] # "none" /\ HasResponse(Element(t[1], t[2]))
        /\ k = Key(t[1], t[2])

CancelsOwned ==
    \A c \in cancelled : Taken(c[1]) /\ Taken(c[2][1]) /\ sender[c[1]] = sender[c[2][1]]

\* What a POST is changes when it is sent or refused.
LEMMA PostChanges ==
    ASSUME TypeOK, [Work]_vars, NEW p \in Posts
    PROVE  \/ request'[p] = request[p] /\ session'[p] = session[p] /\ sender'[p] = sender[p]
           \/ session'[p] = None
           \/ \E s \in granted : /\ session'[p] = s /\ sender'[p] = sender[s] /\ ~Taken(p)
           \/ session'[p] = Unknown
<1>1. CASE Act(p)
  <2>1. ASSUME NEW u \in SenderOf[p], NEW r \in RequestsOf[p], NEW s \in Posts \cup {None, Unknown},
               At(p, "idle"), Send(p, u, r, s)
        PROVE  /\ s = None \/ s = Unknown \/ (s \in granted /\ sender[s] = u)
               /\ session'[p] = s /\ sender'[p] = u /\ ~Taken(p)
    BY <2>1 DEF Send, TypeOK, Taken, At
  <2>2. CASE Refuse(p)
    BY <2>2 DEF Refuse, TypeOK
  <2>3. CASE Accept(p)
    BY <2>3 DEF Accept, posted
  <2>4. CASE Taken(p)
    BY <1>1, <2>4, PostKept
  <2>5. QED
    BY <1>1, <2>1, <2>2, <2>3, <2>4
    DEF Act, Serve, Taken, Map, Mapping, MapInvalid, MapCancel, MapSubmit, Acknowledge, EndMap,
        Gather, Gathering, GatherStored, GatherResult, GatherTimeout, EndGather, Deliver,
        Stream, Poll, Abandon, StreamTimeout, PollAgain, WriteEvent, Writing, WriteFails, ProviderThrows, Leave, At
<1>2. ASSUME NEW q \in Posts, Act(q), q # p
      PROVE  request'[p] = request[p] /\ session'[p] = session[p] /\ sender'[p] = sender[p]
  BY <1>2, OtherPosts
<1>3. CASE RuntimeMoves \/ UNCHANGED vars
  BY <1>3, RuntimeLeavesPosts DEF posted
<1>4. QED
  BY <1>1, <1>2, <1>3, Steps

LEMMA SessionsStayOwned ==
    ASSUME PlacedInv, SessionsOwned, [Work]_vars
    PROVE  SessionsOwned'
<1> USE DEF PlacedInv
<1>1. \A s \in Posts : Taken(s) => Taken(s)' /\ sender'[s] = sender[s]
  BY TakenStays
<1>2. sessions \subseteq Posts /\ granted \subseteq sessions
  BY DEF TypeOK, SessionsOwned
<1>3. ASSUME NEW p \in Posts, NEW s \in Posts, session'[p] = s
      PROVE  Taken(s)' /\ sender'[s] = sender'[p]
  <2>1. CASE session'[p] = session[p] /\ sender'[p] = sender[p]
    BY <1>1, <1>3, <2>1 DEF SessionsOwned
  <2>2. CASE s \in granted /\ sender'[p] = sender[s]
    BY <1>1, <1>2, <2>2 DEF SessionsOwned
  <2>3. QED
    BY <1>3, <2>1, <2>2, PostChanges, TransportAssumption
<1>4. (granted \subseteq sessions)' /\ \A s \in sessions' : Taken(s)'
  <2>1. ASSUME NEW p \in Posts, EndGather(p) PROVE granted' = granted /\ sessions' \subseteq sessions \cup {p} /\ sessions \subseteq sessions' /\ Taken(p)'
    BY <2>1 DEF EndGather, history, Goto, Taken, TypeOK
  <2>2. ASSUME NEW p \in Posts, Deliver(p) PROVE granted' \subseteq granted \cup sessions /\ sessions' = sessions
    BY <2>2 DEF Deliver
  <2>3. ASSUME NEW p \in Posts, Act(p), ~EndGather(p), ~Deliver(p)
        PROVE  granted' = granted /\ sessions' = sessions
    <3>1. CASE Map(p)
      BY <3>1 DEF Map, MapInvalid, MapCancel, MapSubmit, Acknowledge, EndMap, history
    <3>2. CASE Gather(p)
      BY <2>3, <3>2 DEF Gather, GatherStored, GatherResult, GatherTimeout, history
    <3>3. CASE Stream(p)
      BY <3>3 DEF Stream, Poll, Abandon, StreamTimeout, PollAgain, WriteEvent, WriteFails, ProviderThrows, history
    <3>4. QED
      BY <2>3, <3>1, <3>2, <3>3 DEF Act, Serve, Send, Refuse, Accept, Leave, history
  <2>4. CASE RuntimeMoves \/ UNCHANGED vars
    BY <1>1, <1>2, <2>4, RuntimeLeavesPosts DEF history, SessionsOwned
  <2>5. CASE \E p \in Posts : Act(p)
    BY <1>1, <1>2, <2>1, <2>2, <2>3, <2>5 DEF SessionsOwned
  <2>6. QED
    BY <2>4, <2>5, Steps
<1>5. QED
  BY <1>3, <1>4 DEF SessionsOwned, Taken

\* An element keeps its key once its POST was taken.
LEMMA KeyStays ==
    ASSUME TypeOK, [Work]_vars, NEW p \in Posts, Taken(p), NEW i
    PROVE  Element(p, i)' = Element(p, i) /\ Key(p, i)' = Key(p, i)
  BY TakenStays DEF Element, Key, ClientOf, LegacyClientId

LEMMA RegistryStaysRight ==
    ASSUME PlacedInv, TasksPlaced, RegistryAgrees, [Work]_vars
    PROVE  RegistryAgrees'
<1> USE DEF PlacedInv
<1> SUFFICES ASSUME NEW k \in Keys, NEW t, registry'[k] = t, t # NoTask
             PROVE  /\ task'[t] # "none" /\ HasResponse(Element(t[1], t[2]))'
                    /\ k = Key(t[1], t[2])'
  BY DEF RegistryAgrees, Key, ClientOf, LegacyClientId, Element, HasResponse
<1>1. CASE registry[k] = t
  <2>1. t \in Tasks
    BY <1>1 DEF TypeOK
  <2>2. task[t] # "none" /\ HasResponse(Element(t[1], t[2])) /\ k = Key(t[1], t[2])
    BY <1>1 DEF RegistryAgrees
  <2>3. Taken(t[1]) /\ t[1] \in Posts
    BY <2>1, <2>2 DEF TasksPlaced, TaskPlaced, Tasks
  <2>4. task'[t] # "none"
    BY <2>1, <2>2, TaskStep DEF Resolved, Results
  <2>5. Element(t[1], t[2])' = Element(t[1], t[2]) /\ Key(t[1], t[2])' = Key(t[1], t[2])
    BY <2>3, KeyStays
  <2>6. QED
    BY <2>2, <2>4, <2>5 DEF HasResponse
<1>2. ASSUME NEW p \in Posts, MapSubmit(p), registry[k] # t
      PROVE  /\ task'[t] # "none" /\ HasResponse(Element(t[1], t[2]))'
             /\ k = Key(t[1], t[2])'
  <2>1. PICK i \in 1..MaxElements : i = cursor[p]
    <3>1. cursor[p] \in 1..Size(p) /\ Size(p) \in 1..MaxElements
      BY <1>2, ElementAtCursor DEF MapSubmit, Mapping, At
    <3>2. QED
      BY <3>1, TransportAssumption
  <2>2. <<p, i>> \in Tasks /\ Taken(p)
    BY <1>2 DEF Tasks, MapSubmit, Mapping, At, Taken
  <2>3. PICK outcome \in {"live", "busy"} :
           /\ task' = [task EXCEPT ![<<p, i>>] = outcome]
           /\ registry' = IF HasResponse(Element(p, i))
                          THEN [registry EXCEPT ![Key(p, i)] =
                                   IF outcome = "live" THEN <<p, i>> ELSE NoTask]
                          ELSE registry
    BY <1>2, <2>1 DEF MapSubmit
  <2>4. /\ HasResponse(Element(p, i)) /\ k = Key(p, i) /\ t = <<p, i>>
        /\ task'[<<p, i>>] # "none"
    BY <1>2, <2>2, <2>3 DEF TypeOK
  <2>5. Element(p, i)' = Element(p, i) /\ Key(p, i)' = Key(p, i)
    BY <2>2, KeyStays
  <2>6. t[1] = p /\ t[2] = i
    BY <2>4
  <2>7. QED
    BY <2>4, <2>5, <2>6 DEF HasResponse, Element, Key, ClientOf, LegacyClientId
<1>3. ASSUME NEW u \in Tasks, Resolve(u) PROVE registry'[k] \in {registry[k], NoTask}
  BY <1>3 DEF Resolve, TypeOK
<1>4. ASSUME NEW p \in Posts, Act(p), ~MapSubmit(p) PROVE registry' = registry
  <2> USE DEF runtime
  <2>1. CASE Map(p)
    BY <1>4, <2>1 DEF Map, MapInvalid, MapCancel, Acknowledge, EndMap
  <2>2. CASE Gather(p)
    BY <2>2 DEF Gather, GatherStored, GatherResult, GatherTimeout, EndGather, Deliver
  <2>3. CASE Stream(p)
    BY <2>3 DEF Stream, Poll, Abandon, StreamTimeout, PollAgain, WriteEvent, WriteFails, ProviderThrows
  <2>4. QED
    BY <1>4, <2>1, <2>2, <2>3 DEF Act, Serve, Send, Refuse, Accept, Leave
<1>5. CASE Clock \/ UNCHANGED vars
  BY <1>1, <1>5 DEF Clock, Expire, vars
<1>6. QED
  BY <1>1, <1>2, <1>3, <1>4, <1>5, Steps DEF RuntimeMoves

\* POSTs that share a client id come from one user.
LEMMA ClientsOwned ==
    ASSUME PlacedInv, SessionsOwned, NEW p \in Posts, NEW q \in Posts, Taken(p), Taken(q),
           ClientOf(p) = ClientOf(q)
    PROVE  sender[p] = sender[q]
<1>1. \A r \in {p, q} : sender[ClientOf(r)] = sender[r]
  <2>1. \A r \in {p, q} : session[r] = None \/ session[r] \in Posts
    BY DEF PlacedInv, PostsPlaced, PostPlaced, TypeOK
  <2>2. QED
    BY <2>1 DEF ClientOf, LegacyClientId, SessionsOwned
<1>2. QED
  BY <1>1

LEMMA CancelsStayOwned ==
    ASSUME PlacedInv, TasksPlaced, SessionsOwned, RegistryAgrees, CancelsOwned, [Work]_vars
    PROVE  CancelsOwned'
<1> USE DEF PlacedInv
<1>1. ASSUME NEW c \in Posts \X Tasks, Taken(c[1]), Taken(c[2][1]), sender[c[1]] = sender[c[2][1]]
      PROVE  Taken(c[1])' /\ Taken(c[2][1])' /\ sender'[c[1]] = sender'[c[2][1]]
  <2>1. c[1] \in Posts /\ c[2][1] \in Posts
    BY DEF Tasks
  <2>2. QED
    BY <1>1, <2>1, TakenStays
<1>2. \A c \in cancelled : Taken(c[1])' /\ Taken(c[2][1])' /\ sender'[c[1]] = sender'[c[2][1]]
  BY <1>1 DEF CancelsOwned, TypeOK
<1>3. ASSUME NEW p \in Posts, MapCancel(p) PROVE CancelsOwned'
  <2>1. cursor[p] \in 1..Size(p) /\ Taken(p) /\ Element(p, cursor[p]).kind = "cancel"
    BY <1>3, ElementAtCursor DEF MapCancel, Mapping, At, Taken
  <2>2. Key(p, cursor[p]) \in Keys
    BY <2>1, KeyType
  <2>3. CASE registry[Key(p, cursor[p])] = NoTask
    BY <1>2, <1>3, <2>3 DEF MapCancel, CancelsOwned
  <2>4. CASE registry[Key(p, cursor[p])] # NoTask
    <3>1. PICK t \in Tasks : t = registry[Key(p, cursor[p])]
      BY <2>2, <2>4 DEF TypeOK
    <3>2. task[t] # "none" /\ Key(p, cursor[p]) = Key(t[1], t[2])
      BY <2>2, <2>4, <3>1 DEF RegistryAgrees
    <3>3. t[1] \in Posts /\ Taken(t[1])
      BY <3>2 DEF TasksPlaced, TaskPlaced, Tasks
    <3>4. sender[p] = sender[t[1]]
      BY <2>1, <3>2, <3>3, ClientsOwned DEF Key
    <3>5. cancelled' = cancelled \cup {<<p, t>>}
      BY <1>3, <2>4, <3>1 DEF MapCancel
    <3>6. Taken(p)' /\ Taken(t[1])' /\ sender'[p] = sender'[t[1]]
      BY <2>1, <3>3, <3>4, TakenStays
    <3>7. QED
      BY <1>2, <3>5, <3>6 DEF CancelsOwned
  <2>5. QED
    BY <2>3, <2>4
<1>4. ASSUME NEW p \in Posts, Act(p), ~MapCancel(p) PROVE cancelled' = cancelled
  <2> USE DEF history
  <2>1. CASE Map(p)
    BY <1>4, <2>1 DEF Map, MapInvalid, MapSubmit, Acknowledge, EndMap
  <2>2. CASE Gather(p)
    BY <2>2 DEF Gather, GatherStored, GatherResult, GatherTimeout, EndGather, Deliver
  <2>3. CASE Stream(p)
    BY <2>3 DEF Stream, Poll, Abandon, StreamTimeout, PollAgain, WriteEvent, WriteFails, ProviderThrows
  <2>4. QED
    BY <1>4, <2>1, <2>2, <2>3 DEF Act, Serve, Send, Refuse, Accept, Leave
<1>5. CASE RuntimeMoves \/ UNCHANGED vars
  BY <1>2, <1>5, RuntimeLeavesPosts DEF history, CancelsOwned
<1>6. QED
  BY <1>2, <1>3, <1>4, <1>5, Steps DEF CancelsOwned

\* No notification of one user cancels a request of another, whatever ids the
\* clients choose: a client id belongs to one POST or to one session, and a
\* session to the user who opened it (LegacyClientId and SessionClientId).
THEOREM NobodyCancelsForOthers == Spec => []CancelStaysWithUser
<1> DEFINE Inv == SessionsOwned /\ RegistryAgrees /\ CancelsOwned
<1>1. Init => Inv
  <2>1. Init => SessionsOwned
    <3>1. ASSUME Init, NEW p \in Posts PROVE session[p] \notin Posts
      BY <3>1, TransportAssumption DEF Init
    <3>2. Init => sessions = {} /\ granted = {}
      BY DEF Init
    <3>3. QED
      BY <3>1, <3>2 DEF SessionsOwned
  <2>2. Init => RegistryAgrees
    BY DEF Init, RegistryAgrees
  <2>3. Init => CancelsOwned
    BY DEF Init, CancelsOwned
  <2>4. QED
    BY <2>1, <2>2, <2>3
<1>2. ASSUME PlacedInv, TasksPlaced, Inv, [Work]_vars PROVE Inv'
  BY <1>2, SessionsStayOwned, RegistryStaysRight, CancelsStayOwned
<1>3. Inv => CancelStaysWithUser
  BY DEF CancelsOwned, CancelStaysWithUser
<1>4. QED
  BY <1>1, <1>2, <1>3, PlacesInvariant, TasksInvariant, SpecWorks, PTL DEF Spec

-------------------------------------------------------------------------------
(* Work that is given up *)

\* A token stays set as long as its task is unresolved.
LEMMA TokensStay ==
    ASSUME TypeOK, [Work]_vars, NEW t \in token, task'[t] = "live"
    PROVE  t \in token'
<1> USE DEF runtime, TokenSet
<1>1. ASSUME NEW p \in Posts, Map(p) PROVE token \subseteq token'
  BY <1>1 DEF Map, MapInvalid, MapCancel, MapSubmit, Acknowledge, EndMap
<1>2. ASSUME NEW p \in Posts, Gather(p) PROVE token \subseteq token'
  BY <1>2 DEF Gather, GatherStored, GatherResult, GatherTimeout, EndGather, Deliver
<1>3. ASSUME NEW p \in Posts, Stream(p) PROVE token \subseteq token'
  BY <1>3 DEF Stream, Poll, Abandon, StreamTimeout, PollAgain, WriteEvent, WriteFails, ProviderThrows
<1>4. ASSUME NEW p \in Posts, Act(p) PROVE token \subseteq token'
  BY <1>1, <1>2, <1>3, <1>4 DEF Act, Serve, Send, Refuse, Accept, Leave
<1>5. ASSUME NEW u \in Tasks, Resolve(u), u # t PROVE t \in token'
  BY <1>5 DEF Resolve
<1>6. ASSUME t \in Tasks, Resolve(t) PROVE FALSE
  <2>1. Verdicts(t) \subseteq Resolved /\ "live" \notin Resolved
    BY DEF Verdicts, Results, Resolved
  <2>2. QED
    BY <1>6, <2>1 DEF Resolve, TypeOK
<1>7. CASE Clock \/ UNCHANGED vars
  BY <1>7 DEF Clock, Expire, vars
<1>8. QED
  BY <1>4, <1>5, <1>6, <1>7, Steps DEF RuntimeMoves

\* The tasks that go on, with somebody who waits for them or did.
Wanted == {t \in Tasks : task[t] = "live" /\ Awaited(t[1], t[2]) /\ t \notin token}

\* Whoever stopped waiting for a task has set its token.
LeftAt(p) ==
    /\ where[p] = "gather" => \A i \in 1..(cursor[p] - 1) : <<p, i>> \notin Wanted
    /\ where[p] = "write_timeout" => <<p, 1>> \notin Wanted
    /\ where[p] \in {"respond", "closed"} => \A i \in 1..Size(p) : <<p, i>> \notin Wanted
GivenUp == \A p \in Posts : LeftAt(p)

LEMMA LeftStays ==
    ASSUME PlacedInv, [Work]_vars, NEW p \in Posts, Taken(p), where[p] # "map",
           NEW i \in 1..MaxElements, <<p, i>> \notin Wanted
    PROVE  <<p, i>> \notin Wanted'
<1> USE DEF PlacedInv
<1>1. PICK t \in Tasks : t = <<p, i>> /\ t[1] = p /\ t[2] = i
  BY DEF Tasks
<1>2. Awaited(p, i)' = Awaited(p, i)
  BY TakenStays DEF Awaited, AwaitedBySingle, HasTask, HasResponse, Element, Modern
<1>3. task'[t] = "live" => task[t] = "live"
  BY <1>1, TaskStep DEF MapSubmit, Mapping, At, Resolved, Results
<1>4. t \in Wanted' <=> task'[t] = "live" /\ Awaited(p, i)' /\ t \notin token'
  BY <1>1 DEF Wanted, Tasks, Awaited, AwaitedBySingle, HasTask, HasResponse, Element, Modern
<1>5. t \in Wanted <=> task[t] = "live" /\ Awaited(p, i) /\ t \notin token
  BY <1>1 DEF Wanted
<1>6. QED
  BY <1>1, <1>2, <1>3, <1>4, <1>5, TokensStay

LEMMA GivenUpByOthers ==
    ASSUME PlacedInv, GivenUp, [Work]_vars, NEW p \in Posts, ~Act(p)
    PROVE  LeftAt(p)'
<1> USE DEF PlacedInv
<1>1. where'[p] = where[p] /\ cursor'[p] = cursor[p] /\ request'[p] = request[p]
  BY Steps, OtherPosts, RuntimeLeavesPosts DEF posted
<1>2. LeftAt(p)
  BY DEF GivenUp
<1>3. Size(p) <= MaxElements /\ cursor[p] - 1 <= MaxElements /\ cursor[p] \in Int /\ MaxElements \in Nat
  BY TransportAssumption DEF TypeOK
<1>4. Size(p) \in Nat
  BY RequestShape, NothingPosted, TransportAssumption DEF PostsPlaced, PostPlaced
<1>5. \A i \in 1..MaxElements :
         Taken(p) /\ where[p] # "map" /\ <<p, i>> \notin Wanted => <<p, i>> \notin Wanted'
  BY LeftStays
<1>6. /\ 1 \in 1..MaxElements
      /\ \A i \in 1..(cursor[p] - 1) : i \in 1..MaxElements
      /\ \A i \in 1..Size(p) : i \in 1..MaxElements
  BY <1>3, <1>4, TransportAssumption
<1>7. Size(p)' = Size(p)
  BY <1>1 DEF Size
<1>8. where[p] = "gather" => \A i \in 1..(cursor[p] - 1) : <<p, i>> \notin Wanted'
  BY <1>2, <1>5, <1>6 DEF LeftAt, Taken
<1>9. where[p] = "write_timeout" => <<p, 1>> \notin Wanted'
  BY <1>2, <1>5, <1>6 DEF LeftAt, Taken
<1>10. where[p] \in {"respond", "closed"} => \A i \in 1..Size(p) : <<p, i>> \notin Wanted'
  BY <1>2, <1>5, <1>6 DEF LeftAt, Taken
<1>11. QED
  BY <1>1, <1>7, <1>8, <1>9, <1>10 DEF LeftAt

LEMMA GivenUpByItself ==
    ASSUME PlacedInv, GivenUp, NEW p \in Posts, Act(p)
    PROVE  LeftAt(p)'
<1> USE DEF PlacedInv, Goto, Close, Advance, At, posted, runtime, history
<1>1. LeftAt(p)
  BY DEF GivenUp
<1>2. \A i \in 1..MaxElements :
         Taken(p) /\ where[p] # "map" /\ <<p, i>> \notin Wanted => <<p, i>> \notin Wanted'
  BY LeftStays DEF Act, Work
<1>3. CASE ~Taken(p)
  <2>1. CASE Refuse(p)
    <3>1. request'[p] = NoRequest /\ where'[p] = "closed"
      BY <2>1 DEF Refuse, TypeOK
    <3>2. Size(p)' = 0
      BY <3>1, EmptySeq DEF Size, NoRequest
    <3>3. QED
      BY <3>1, <3>2 DEF LeftAt
  <2>2. CASE ~Refuse(p)
    <3>1. where'[p] \in {"sent", "map"}
      BY <1>3, <2>2
      DEF Act, Send, Serve, Accept, Taken, TypeOK, Map, Mapping, MapInvalid, MapCancel, MapSubmit,
          Acknowledge, EndMap, Gather, Gathering, GatherStored, GatherResult, GatherTimeout,
          EndGather, Deliver, Stream, Poll, Abandon, StreamTimeout, PollAgain, WriteEvent, Writing,
          WriteFails, ProviderThrows, Leave
    <3>2. QED
      BY <3>1 DEF LeftAt
  <2>3. QED
    BY <2>1, <2>2
<1>4. CASE Taken(p) /\ where[p] # "closed"
  <2>1. request' = request /\ Size(p)' = Size(p)
    BY <1>4, PostKept DEF Size
  <2>2. /\ Size(p) \in 1..MaxElements /\ cursor[p] \in 1..(Size(p) + 1)
        /\ Modern(p) => Size(p) = 1
    BY <1>4, ElementAtCursor, RequestShape DEF Taken, PostsPlaced, PostPlaced
  <2>3. MaxElements \in Nat \ {0} /\ 1 \in 1..MaxElements
    BY TransportAssumption
  <2>4. \A i \in 1..Size(p) : i \in 1..MaxElements
    BY <2>2, <2>3
  <2>5. ASSUME NEW i \in 1..MaxElements, task' = task,
               task[<<p, i>>] # "live" \/ ~Awaited(p, i) \/ token' = TokenSet(<<p, i>>)
        PROVE  <<p, i>> \notin Wanted'
    <3>0. <<p, i>> \in Tasks
      BY DEF Tasks
    <3>1. PICK t \in Tasks : t = <<p, i>> /\ t[1] = p /\ t[2] = i
      BY <3>0
    <3>2. Awaited(p, i)' = Awaited(p, i)
      BY <2>1 DEF Awaited, AwaitedBySingle, HasTask, HasResponse, Element, Modern
    <3>3. t \in Wanted' => task'[t] = "live" /\ Awaited(p, i)' /\ t \notin token'
      BY <3>1 DEF Wanted, Tasks, Awaited, AwaitedBySingle, HasTask, HasResponse, Element, Modern
    <3>4. QED
      BY <2>5, <3>1, <3>2, <3>3 DEF TokenSet
  <2>6. CASE Map(p)
    <3>1. CASE Acknowledge(p)
      <4>1. Modern(p) /\ ~HasResponse(Element(p, 1)) /\ where'[p] = "closed" /\ task' = task
        BY <3>1 DEF Acknowledge, TypeOK
      <4>2. ~Awaited(p, 1)
        BY <4>1 DEF Awaited, AwaitedBySingle
      <4>3. <<p, 1>> \notin Wanted'
        BY <2>3, <2>5, <4>1, <4>2
      <4>4. QED
        BY <2>1, <2>2, <4>1, <4>3 DEF LeftAt
    <3>2. CASE EndMap(p)
      <4>1. where'[p] \in {"stream", "gather"} /\ cursor'[p] = 1
        BY <3>2 DEF EndMap, TypeOK
      <4>2. QED
        BY <4>1 DEF LeftAt
    <3>3. CASE MapInvalid(p) \/ MapCancel(p) \/ MapSubmit(p)
      <4>1. where'[p] = "map"
        BY <3>3 DEF MapInvalid, MapCancel, MapSubmit, Mapping
      <4>2. QED
        BY <4>1 DEF LeftAt
    <3>4. QED
      BY <2>6, <3>1, <3>2, <3>3 DEF Map
  <2>7. ASSUME NEW i \in 1..MaxElements, i = cursor[p], Gathering(p), where' = where, Advance(p),
               task' = task,
               task[<<p, i>>] # "live" \/ ~Awaited(p, i) \/ token' = TokenSet(<<p, i>>)
        PROVE  LeftAt(p)'
    <3>1. cursor'[p] = i + 1 /\ where[p] = "gather"
      BY <2>7 DEF TypeOK, Gathering
    <3>2. <<p, i>> \notin Wanted'
      BY <2>5, <2>7
    <3>3. \A j \in 1..(i - 1) : <<p, j>> \notin Wanted'
      <4>1. \A j \in 1..(i - 1) : j \in 1..MaxElements
        BY <2>3
      <4>2. \A j \in 1..(i - 1) : <<p, j>> \notin Wanted
        BY <1>1, <2>7, <3>1 DEF LeftAt
      <4>3. QED
        BY <1>2, <1>4, <3>1, <4>1, <4>2
    <3>4. \A j \in 1..(cursor'[p] - 1) : j = i \/ j \in 1..(i - 1)
      BY <2>3, <3>1
    <3>5. where'[p] = "gather"
      BY <2>7, <3>1
    <3>6. QED
      BY <3>2, <3>3, <3>4, <3>5 DEF LeftAt
  <2>8. CASE Gather(p)
    <3>1. CASE GatherStored(p) \/ GatherResult(p) \/ GatherTimeout(p)
      <4>1. PICK i \in 1..MaxElements : i = cursor[p]
        BY <2>2, <2>4, <3>1 DEF GatherStored, GatherResult, GatherTimeout, Gathering
      <4>2. /\ Gathering(p) /\ where' = where /\ Advance(p) /\ task' = task
            /\ task[<<p, i>>] # "live" \/ ~Awaited(p, i) \/ token' = TokenSet(<<p, i>>)
        BY <3>1, <4>1 DEF GatherStored, GatherResult, GatherTimeout, Resolved, Results
      <4>3. QED
        BY <2>7, <4>1, <4>2
    <3>2. CASE EndGather(p)
      <4>1. where[p] = "gather" /\ cursor[p] > Size(p) /\ where'[p] = "respond"
        BY <3>2 DEF EndGather, TypeOK
      <4>2. \A i \in 1..Size(p) : i \in 1..(cursor[p] - 1)
        BY <2>2, <2>3, <4>1
      <4>3. \A i \in 1..Size(p) : <<p, i>> \notin Wanted'
        BY <1>1, <1>2, <1>4, <2>4, <4>1, <4>2 DEF LeftAt
      <4>4. QED
        BY <2>1, <4>1, <4>3 DEF LeftAt
    <3>3. CASE Deliver(p)
      <4>1. where[p] = "respond" /\ where'[p] = "closed"
        BY <3>3 DEF Deliver, TypeOK
      <4>2. \A i \in 1..Size(p) : <<p, i>> \notin Wanted'
        BY <1>1, <1>2, <1>4, <2>4, <4>1 DEF LeftAt
      <4>3. QED
        BY <2>1, <4>1, <4>2 DEF LeftAt
    <3>4. QED
      BY <2>8, <3>1, <3>2, <3>3 DEF Gather
  <2>9. CASE Stream(p)
    <3>1. where[p] \in {"stream", "polled", "write", "write_timeout"} /\ Size(p) = 1 /\ Call(p) = <<p, 1>>
      <4>1. where[p] \in {"stream", "polled", "write", "write_timeout"}
        BY <2>9 DEF Stream, Poll, Abandon, StreamTimeout, PollAgain, WriteEvent, Writing, WriteFails, ProviderThrows
      <4>2. Modern(p)
        BY <4>1 DEF PostsPlaced, PostPlaced, Streamed
      <4>3. QED
        BY <2>2, <4>1, <4>2 DEF Call
    <3>2. CASE Poll(p) \/ PollAgain(p)
      <4>1. where'[p] \in {"write", "polled", "stream"}
        BY <3>2 DEF Poll, PollAgain, TypeOK
      <4>2. QED
        BY <4>1 DEF LeftAt
    <3>3. CASE Abandon(p) \/ StreamTimeout(p) \/ WriteFails(p)
      <4>1. where'[p] \in {"closed", "write_timeout"} /\ token' = TokenSet(<<p, 1>>) /\ task' = task
        BY <3>1, <3>3 DEF Abandon, StreamTimeout, WriteFails, TypeOK
      <4>2. <<p, 1>> \notin Wanted'
        BY <2>3, <2>5, <4>1
      <4>3. QED
        BY <2>1, <3>1, <4>1, <4>2 DEF LeftAt
    <3>4. CASE WriteEvent(p)
      <4>1. where'[p] = "closed" /\ task' = task /\ where[p] \in {"write", "write_timeout"}
        BY <3>4 DEF WriteEvent, Writing, TypeOK
      <4>2. <<p, 1>> \notin Wanted'
        <5>1. CASE where[p] = "write"
          <6>1. task[<<p, 1>>] # "live"
            BY <3>1, <5>1 DEF ResultsKnown, Resolved, Results
          <6>2. QED
            BY <2>3, <2>5, <4>1, <6>1
        <5>2. CASE where[p] = "write_timeout"
          BY <1>1, <1>2, <1>4, <2>3, <5>2 DEF LeftAt
        <5>3. QED
          BY <4>1, <5>1, <5>2
      <4>3. QED
        BY <2>1, <3>1, <4>1, <4>2 DEF LeftAt
    <3>5. CASE ProviderThrows(p)
      <4>1. where'[p] = "thrown"
        BY <3>5 DEF ProviderThrows, TypeOK
      <4>2. QED
        BY <4>1 DEF LeftAt
    <3>6. QED
      BY <2>9, <3>2, <3>3, <3>4, <3>5 DEF Stream
  <2>10. CASE Leave(p)
    <3>1. where'[p] = where[p] /\ where[p] \in {"stream", "polled", "write", "write_timeout"}
      BY <2>10 DEF Leave
    <3>2. QED
      BY <1>1, <1>2, <1>4, <2>3, <3>1 DEF LeftAt
  <2>11. QED
    BY <1>4, <2>6, <2>8, <2>9, <2>10 DEF Act, Serve, Refuse, Accept, Taken
<1>5. CASE where[p] = "closed"
  BY <1>5
  DEF Act, Send, Serve, Refuse, Accept, Map, Mapping, MapInvalid, MapCancel, MapSubmit,
      Acknowledge, EndMap, Gather, Gathering, GatherStored, GatherResult, GatherTimeout,
      EndGather, Deliver, Stream, Poll, Abandon, StreamTimeout, PollAgain, WriteEvent, Writing,
      WriteFails, ProviderThrows, Leave
<1>6. QED
  BY <1>3, <1>4, <1>5

\* When a POST is over, each task whose result its client does not get was told
\* to stop or is resolved: by the waiter that timed out, by the stream at its
\* deadline, and by the stream's releaser (wait_for_result, the chunked provider
\* of /mcp and its resource releaser).
THEOREM AbandonedIsCancelled == Spec => []GivenUpIsCancelled
<1>1. Init => GivenUp
  BY DEF Init, GivenUp, LeftAt
<1>2. ASSUME PlacedInv, GivenUp, [Work]_vars PROVE GivenUp'
  BY <1>2, GivenUpByOthers, GivenUpByItself DEF GivenUp
<1>3. PlacedInv /\ GivenUp => GivenUpIsCancelled
  <2> SUFFICES ASSUME PlacedInv, GivenUp, NEW p \in Posts, where[p] \in {"respond", "closed"},
                      NEW i \in 1..Size(p), task[<<p, i>>] = "live", Awaited(p, i)
               PROVE  <<p, i>> \in token
    BY DEF GivenUpIsCancelled
  <2>1. request[p] \in RequestsOf[p]
    BY NothingPosted DEF PlacedInv, PostsPlaced, PostPlaced
  <2>2. i \in 1..MaxElements
    BY <2>1, RequestShape, TransportAssumption
  <2>3. PICK t \in Tasks : t = <<p, i>> /\ t[1] = p /\ t[2] = i
    BY <2>2 DEF Tasks
  <2>4. t \notin Wanted
    BY <2>3 DEF GivenUp, LeftAt
  <2>5. QED
    BY <2>3, <2>4 DEF Wanted
<1>4. QED
  BY <1>1, <1>2, <1>3, PlacesInvariant, SpecWorks, PTL DEF Spec

-------------------------------------------------------------------------------
(* Answers *)

\* A sequence of responses to exactly these elements, in their order.
InOrder(s, S) ==
    /\ {s[k][1] : k \in DOMAIN s} = S
    /\ \A j, k \in DOMAIN s : j < k => s[j][1] < s[k][1]

LEMMA InOrderAppend ==
    ASSUME NEW V, NEW s \in Seq((0..MaxElements) \X V), NEW S, InOrder(s, S),
           NEW i \in 0..MaxElements, NEW v \in V, \A e \in S : e < i
    PROVE  InOrder(Append(s, <<i, v>>), S \cup {i})
<1> DEFINE t == Append(s, <<i, v>>)
           n == Len(s)
           R == (0..MaxElements) \X V
<1>0. <<i, v>> \in R /\ s \in Seq(R)
  OBVIOUS
<1> HIDE DEF R
<1>1. /\ n \in Nat /\ DOMAIN s = 1..n /\ DOMAIN t = 1..(n + 1)
      /\ \A k \in 1..n : t[k] = s[k]
      /\ t[n + 1] = <<i, v>>
  BY <1>0, AppendProperties, LenProperties
<1> HIDE DEF t, n
<1>2. \A k \in 1..n : s[k][1] \in S
  BY <1>1 DEF InOrder
<1>3. {t[k][1] : k \in DOMAIN t} = S \cup {i}
  <2>1. ASSUME NEW k \in 1..(n + 1) PROVE t[k][1] \in S \cup {i}
    BY <1>1, <1>2
  <2>2. ASSUME NEW e \in S PROVE \E k \in 1..(n + 1) : t[k][1] = e
    <3>1. PICK k \in 1..n : s[k][1] = e
      BY <1>1 DEF InOrder
    <3>2. k \in 1..(n + 1)
      BY <1>1
    <3>3. QED
      BY <1>1, <3>1, <3>2
  <2>3. n + 1 \in 1..(n + 1) /\ t[n + 1][1] = i
    BY <1>1
  <2>4. ASSUME NEW e \in S \cup {i} PROVE \E k \in DOMAIN t : t[k][1] = e
    BY <1>1, <2>2, <2>3
  <2>5. ASSUME NEW k \in DOMAIN t PROVE t[k][1] \in S \cup {i}
    BY <1>1, <2>1
  <2>6. QED
    BY <2>4, <2>5
<1>4. ASSUME NEW j \in 1..(n + 1), NEW k \in 1..(n + 1), j < k PROVE t[j][1] < t[k][1]
  <2>1. j \in 1..n
    BY <1>1, <1>4
  <2>2. CASE k \in 1..n
    BY <1>1, <1>4, <2>1, <2>2 DEF InOrder
  <2>3. CASE k = n + 1
    BY <1>1, <1>2, <2>1, <2>3
  <2>4. QED
    BY <1>1, <2>2, <2>3
<1>5. QED
  BY <1>1, <1>3, <1>4 DEF InOrder, t

\* The responses that say what became of their element.
RightAnswers ==
    {a \in Posts \X (1..MaxElements) \X AnswerVerdicts :
        \/ Element(a[1], a[2]).kind = "invalid" /\ a[3] = "invalid"
        \/ a[3] = task[<<a[1], a[2]>>]
        \/ a[3] = "timeout" /\ (task[<<a[1], a[2]>>] = "live" => <<a[1], a[2]>> \in expired)}

OwedUpTo(p, n) == {i \in Owed(p) : i <= n}

AllRight(p) == \A k \in DOMAIN answer[p] : <<p, answer[p][k][1], answer[p][k][2]>> \in RightAnswers

OneError(p) ==
    answer[p] = <<<<0, "internal">>>> /\ \E i \in Owed(p) : task[<<p, i>>] = "unserialisable"

\* Answers come in the order of the elements.
AnswersAt(p) ==
    /\ where[p] \in {"idle", "sent", "map"} => answer[p] = <<>>
    /\ where[p] = "gather" => InOrder(answer[p], OwedUpTo(p, cursor[p] - 1)) /\ AllRight(p)
    /\ where[p] = "respond" \/ (where[p] = "closed" /\ request[p].endpoint = "/jsonrpc") =>
           OneError(p) \/ (InOrder(answer[p], Owed(p)) /\ AllRight(p))
AnswersGrow == \A p \in Posts : AnswersAt(p)

\* A deadline that has passed is remembered as long as the task is unresolved.
LEMMA ExpiredStays ==
    ASSUME TypeOK, [Work]_vars, NEW t \in expired, task'[t] = "live"
    PROVE  t \in expired'
<1> USE DEF runtime
<1>1. ASSUME NEW p \in Posts, Map(p) PROVE expired' = expired
  BY <1>1 DEF Map, MapInvalid, MapCancel, MapSubmit, Acknowledge, EndMap
<1>2. ASSUME NEW p \in Posts, Gather(p) PROVE expired' = expired
  BY <1>2 DEF Gather, GatherStored, GatherResult, GatherTimeout, EndGather, Deliver
<1>3. ASSUME NEW p \in Posts, Stream(p) PROVE expired' = expired
  BY <1>3 DEF Stream, Poll, Abandon, StreamTimeout, PollAgain, WriteEvent, WriteFails, ProviderThrows
<1>4. ASSUME NEW p \in Posts, Act(p) PROVE expired' = expired
  BY <1>1, <1>2, <1>3, <1>4 DEF Act, Serve, Send, Refuse, Accept, Leave
<1>5. ASSUME NEW u \in Tasks, Resolve(u), u # t PROVE t \in expired'
  BY <1>5 DEF Resolve
<1>6. ASSUME t \in Tasks, Resolve(t) PROVE FALSE
  <2>1. Verdicts(t) \subseteq Resolved /\ "live" \notin Resolved
    BY DEF Verdicts, Results, Resolved
  <2>2. QED
    BY <1>6, <2>1 DEF Resolve, TypeOK
<1>7. CASE Clock \/ UNCHANGED vars
  BY <1>7 DEF Clock, Expire, vars
<1>8. QED
  BY <1>4, <1>5, <1>6, <1>7, Steps DEF RuntimeMoves

\* What is right stays right.
LEMMA RightStays ==
    ASSUME TypeOK, [Work]_vars, NEW p \in Posts, Taken(p), where[p] # "map",
           NEW i \in 1..MaxElements, NEW v \in AnswerVerdicts, <<p, i, v>> \in RightAnswers
    PROVE  <<p, i, v>> \in RightAnswers'
<1>0. <<p, i>> \in Tasks
  BY DEF Tasks
<1>1. PICK t \in Tasks : t = <<p, i>> /\ t[1] = p /\ t[2] = i
  BY <1>0
<1>2. Element(p, i)' = Element(p, i)
  BY KeyStays
<1>3. task'[t] = task[t] \/ (task[t] = "live" /\ task'[t] \in Resolved)
  BY <1>1, TaskStep DEF MapSubmit, Mapping, At
<1>4. "live" \notin AnswerVerdicts /\ "live" \notin Resolved
  BY DEF AnswerVerdicts, Resolved, Results
<1>5. \/ Element(p, i).kind = "invalid" /\ v = "invalid"
      \/ v = task[t]
      \/ v = "timeout" /\ (task[t] = "live" => t \in expired)
  BY <1>1 DEF RightAnswers
<1>6. \/ Element(p, i)'.kind = "invalid" /\ v = "invalid"
      \/ v = task'[t]
      \/ v = "timeout" /\ (task'[t] = "live" => t \in expired')
  BY <1>2, <1>3, <1>4, <1>5, ExpiredStays
<1>7. <<p, i, v>> \in Posts \X (1..MaxElements) \X AnswerVerdicts
  OBVIOUS
<1>8. QED
  BY <1>1, <1>6, <1>7 DEF RightAnswers, Element

LEMMA OwedStays ==
    ASSUME TypeOK, [Work]_vars, NEW p \in Posts, Taken(p)
    PROVE  Owed(p)' = Owed(p)
  BY TakenStays DEF Owed, Size, Element, HasResponse

LEMMA ErrorStays ==
    ASSUME PlacedInv, [Work]_vars, NEW p \in Posts, Taken(p), where[p] \in {"respond", "closed"},
           NEW i \in Owed(p), task[<<p, i>>] = "unserialisable"
    PROVE  task'[<<p, i>>] = "unserialisable"
<1>1. request[p] \in RequestsOf[p]
  BY NothingPosted DEF PlacedInv, PostsPlaced, PostPlaced, Owed
<1>2. <<p, i>> \in Tasks
  BY <1>1, RequestShape, TransportAssumption DEF Owed, Tasks
<1>3. PICK t \in Tasks : t = <<p, i>> /\ t[1] = p
  BY <1>2
<1>4. QED
  BY <1>3, TaskStep DEF PlacedInv, MapSubmit, Mapping, At

LEMMA AnswersByOthers ==
    ASSUME PlacedInv, AnswersGrow, [Work]_vars, NEW p \in Posts, ~Act(p)
    PROVE  AnswersAt(p)'
<1> USE DEF PlacedInv
<1>1. where'[p] = where[p] /\ cursor'[p] = cursor[p] /\ request'[p] = request[p] /\ answer'[p] = answer[p]
  BY Steps, OtherPosts, RuntimeLeavesPosts DEF posted
<1>2. AnswersAt(p)
  BY DEF AnswersGrow
<1>3. CASE ~Taken(p) \/ where[p] = "map"
  BY <1>1, <1>2, <1>3 DEF AnswersAt, Taken
<1>4. CASE Taken(p) /\ where[p] # "map"
  <2>1. Owed(p)' = Owed(p)
    BY <1>4, OwedStays
  <2>2. OwedUpTo(p, cursor[p] - 1)' = OwedUpTo(p, cursor[p] - 1)
    BY <1>1, <2>1 DEF OwedUpTo
  <2>3. AllRight(p) => AllRight(p)'
    <3>1. ASSUME NEW i, NEW v, <<p, i, v>> \in RightAnswers PROVE <<p, i, v>> \in RightAnswers'
      BY <1>4, <3>1, RightStays DEF RightAnswers
    <3>2. QED
      BY <1>1, <3>1 DEF AllRight
  <2>4. where[p] \in {"respond", "closed"} /\ OneError(p) => OneError(p)'
    BY <1>1, <1>4, <2>1, ErrorStays DEF OneError
  <2>5. QED
    BY <1>1, <1>2, <1>4, <2>1, <2>2, <2>3, <2>4 DEF AnswersAt, Taken
<1>5. QED
  BY <1>3, <1>4

\* The waiter is done with one element.
LEMMA AnswerAdvances ==
    ASSUME PlacedInv, AnswersGrow, NEW p \in Posts, Act(p), Gathering(p), where' = where, Advance(p),
           NEW i \in 1..Size(p), i = cursor[p],
           \/ i \notin Owed(p) /\ answer' = answer
           \/ /\ i \in Owed(p)
              /\ \E v \in AnswerVerdicts : /\ answer' = [answer EXCEPT ![p] = Append(@, <<i, v>>)]
                                           /\ <<p, i, v>> \in RightAnswers'
    PROVE  AnswersAt(p)'
<1> USE DEF PlacedInv
<1>1. where[p] = "gather" /\ where'[p] = "gather" /\ Taken(p) /\ cursor'[p] = i + 1 /\ i \in Nat
  BY DEF Gathering, At, Advance, TypeOK, Taken
<1>2. InOrder(answer[p], OwedUpTo(p, i - 1)) /\ AllRight(p)
  BY <1>1 DEF AnswersGrow, AnswersAt
<1>3. Owed(p)' = Owed(p) /\ OwedUpTo(p, cursor[p] - 1)' = OwedUpTo(p, i)
  <2>1. [Work]_vars
    BY DEF Act, Work
  <2>2. cursor'[p] - 1 = i
    BY <1>1
  <2>3. QED
    BY <1>1, <2>1, <2>2, OwedStays DEF OwedUpTo
<1>4. ASSUME NEW e, NEW v, <<p, e, v>> \in RightAnswers PROVE <<p, e, v>> \in RightAnswers'
  BY <1>1, <1>4, RightStays DEF RightAnswers, Act, Work
<1>5. CASE i \notin Owed(p) /\ answer' = answer
  <2>1. OwedUpTo(p, i) = OwedUpTo(p, i - 1)
    BY <1>1, <1>5 DEF OwedUpTo, Owed
  <2>2. AllRight(p)'
    BY <1>2, <1>4, <1>5 DEF AllRight
  <2>3. QED
    BY <1>1, <1>2, <1>3, <1>5, <2>1, <2>2 DEF AnswersAt
<1>6. ASSUME i \in Owed(p), NEW v \in AnswerVerdicts,
             answer' = [answer EXCEPT ![p] = Append(@, <<i, v>>)], <<p, i, v>> \in RightAnswers'
      PROVE  AnswersAt(p)'
  <2> DEFINE s == answer[p]
             t == Append(s, <<i, v>>)
             R == (0..MaxElements) \X AnswerVerdicts
  <2>1. s \in Seq(R) /\ answer'[p] = t
    BY <1>6 DEF TypeOK
  <2>2. i \in 0..MaxElements /\ <<i, v>> \in R
    BY <1>1, ElementAtCursor, TransportAssumption
  <2>3. OwedUpTo(p, i) = OwedUpTo(p, i - 1) \cup {i} /\ \A e \in OwedUpTo(p, i - 1) : e < i
    BY <1>1, <1>6 DEF OwedUpTo, Owed
  <2>4. InOrder(t, OwedUpTo(p, i))
    <3>1. s \in Seq((0..MaxElements) \X AnswerVerdicts) /\ InOrder(s, OwedUpTo(p, i - 1))
      BY <1>2, <2>1
    <3> HIDE DEF s
    <3>2. InOrder(Append(s, <<i, v>>), OwedUpTo(p, i - 1) \cup {i})
      BY <2>2, <2>3, <3>1, InOrderAppend
    <3>3. QED
      BY <2>3, <3>2
  <2> HIDE DEF R, s
  <2>5. /\ DOMAIN t = 1..(Len(s) + 1) /\ DOMAIN s = 1..Len(s) /\ Len(s) \in Nat
        /\ \A k \in 1..Len(s) : t[k] = s[k]
        /\ t[Len(s) + 1] = <<i, v>>
    BY <2>1, <2>2, AppendProperties, LenProperties
  <2> HIDE DEF t
  <2>6. ASSUME NEW k \in DOMAIN t PROVE <<p, t[k][1], t[k][2]>> \in RightAnswers'
    <3>1. CASE k \in DOMAIN s
      <4>1. <<p, s[k][1], s[k][2]>> \in RightAnswers
        BY <1>2, <3>1 DEF AllRight, s
      <4>2. QED
        BY <1>4, <2>5, <3>1, <4>1
    <3>2. CASE k \notin DOMAIN s
      <4>1. k = Len(s) + 1
        BY <2>5, <2>6, <3>2
      <4>2. QED
        BY <1>6, <2>5, <4>1
    <3>3. QED
      BY <3>1, <3>2
  <2>7. AllRight(p)'
    BY <2>1, <2>6 DEF AllRight
  <2>8. QED
    BY <1>1, <1>3, <2>1, <2>4, <2>7 DEF AnswersAt
<1>7. QED
  BY <1>5, <1>6

\* A waiter that is done has everything it owes.
LEMMA AnswersComplete ==
    ASSUME PlacedInv, NEW p \in Posts, where[p] = "gather", cursor[p] > Size(p)
    PROVE  OwedUpTo(p, cursor[p] - 1) = Owed(p)
  BY ElementAtCursor DEF PlacedInv, OwedUpTo, Owed

LEMMA GatherAnswers ==
    ASSUME PlacedInv, AnswersGrow, NEW p \in Posts, Gather(p)
    PROVE  AnswersAt(p)'
<1> USE DEF PlacedInv
<1>1. /\ Act(p) /\ [Work]_vars /\ Taken(p) /\ where[p] \notin {"idle", "closed", "map"}
      /\ request' = request
  <2>1. where[p] \in {"gather", "respond"}
    BY DEF Gather, GatherStored, GatherResult, GatherTimeout, EndGather, Deliver, Gathering, At
  <2>2. Act(p) /\ [Work]_vars
    BY DEF Act, Serve, Work
  <2>3. QED
    BY <2>1, <2>2, PostKept DEF Taken
<1>2. cursor[p] \in 1..(Size(p) + 1) /\ Size(p) \in 1..MaxElements /\ MaxElements \in Nat
  BY <1>1, ElementAtCursor, TransportAssumption
<1>3. CASE GatherStored(p) \/ GatherResult(p) \/ GatherTimeout(p)
  <2>1. PICK i \in 1..Size(p) : i = cursor[p]
    BY <1>2, <1>3 DEF GatherStored, GatherResult, GatherTimeout, Gathering
  <2>2. Gathering(p) /\ where' = where /\ Advance(p) /\ task' = task /\ expired' = expired
    BY <1>3 DEF GatherStored, GatherResult, GatherTimeout, runtime
  <2>3. i \in 1..MaxElements /\ Element(p, i)' = Element(p, i)
    BY <1>1, <1>2 DEF Element
  <2>4. ASSUME NEW v \in AnswerVerdicts,
               \/ Element(p, i).kind = "invalid" /\ v = "invalid"
               \/ v = task[<<p, i>>]
               \/ v = "timeout" /\ <<p, i>> \in expired
        PROVE  <<p, i, v>> \in RightAnswers'
    <3>1. <<p, i, v>> \in Posts \X (1..MaxElements) \X AnswerVerdicts
      BY <2>3
    <3>2. QED
      BY <2>2, <2>3, <2>4, <3>1 DEF RightAnswers, Element
  <2>5. i \in Owed(p) <=> HasResponse(Element(p, i)) \/ Element(p, i).kind = "invalid"
    BY DEF Owed
  <2>6. \/ i \notin Owed(p) /\ answer' = answer
        \/ /\ i \in Owed(p)
           /\ \E v \in AnswerVerdicts : /\ answer' = [answer EXCEPT ![p] = Append(@, <<i, v>>)]
                                        /\ <<p, i, v>> \in RightAnswers'
    <3>1. CASE GatherStored(p)
      <4>1. CASE Element(p, i).kind = "invalid"
        <5>1. "invalid" \in AnswerVerdicts
          BY DEF AnswerVerdicts
        <5>2. answer' = [answer EXCEPT ![p] = Append(@, <<i, "invalid">>)]
          BY <2>1, <3>1, <4>1 DEF GatherStored
        <5>3. QED
          BY <2>4, <2>5, <4>1, <5>1, <5>2
      <4>2. CASE Element(p, i).kind # "invalid"
        BY <2>1, <2>5, <3>1, <4>2 DEF GatherStored, Awaited
      <4>3. QED
        BY <4>1, <4>2
    <3>2. CASE GatherResult(p) \/ GatherTimeout(p)
      <4>1. PICK v \in AnswerVerdicts :
               /\ Respond(p, i, v)
               /\ v = task[<<p, i>>] \/ (v = "timeout" /\ <<p, i>> \in expired)
        BY <2>1, <3>2 DEF GatherResult, GatherTimeout, AnswerVerdicts, Resolved
      <4>2. CASE HasResponse(Element(p, i))
        BY <2>4, <2>5, <4>1, <4>2 DEF Respond
      <4>3. CASE ~HasResponse(Element(p, i))
        <5>1. Element(p, i).kind # "invalid"
          BY <2>1, <3>2, <4>3 DEF GatherResult, GatherTimeout, Awaited, AwaitedBySingle, HasTask
        <5>2. QED
          BY <2>5, <4>1, <4>3, <5>1 DEF Respond
      <4>4. QED
        BY <4>2, <4>3
    <3>3. QED
      BY <1>3, <3>1, <3>2
  <2>7. QED
    BY <1>1, <2>1, <2>2, <2>6, AnswerAdvances
<1>4. ASSUME NEW e, NEW v, <<p, e, v>> \in RightAnswers PROVE <<p, e, v>> \in RightAnswers'
  BY <1>1, <1>4, RightStays DEF RightAnswers
<1>5. Owed(p)' = Owed(p)
  BY <1>1, OwedStays
<1>6. CASE EndGather(p)
  <2>1. /\ where[p] = "gather" /\ cursor[p] > Size(p) /\ where'[p] = "respond" /\ task' = task
    BY <1>6 DEF EndGather, At, Goto, TypeOK, runtime
  <2>2. InOrder(answer[p], Owed(p)) /\ AllRight(p)
    BY <2>1, AnswersComplete DEF AnswersGrow, AnswersAt
  <2>3. CASE Unserialisable(p)
    <3>1. answer'[p] = <<<<0, "internal">>>>
      BY <1>6, <2>3 DEF EndGather, TypeOK
    <3>2. PICK k \in DOMAIN answer[p] : answer[p][k][2] = "unserialisable"
      BY <2>3 DEF Unserialisable
    <3>3. PICK i : i = answer[p][k][1]
      OBVIOUS
    <3>4. i \in Owed(p)
      BY <2>2, <3>3 DEF InOrder
    <3>5. <<p, i, "unserialisable">> \in RightAnswers
      BY <2>2, <3>2, <3>3 DEF AllRight
    <3>6. task[<<p, i>>] = "unserialisable"
      BY <3>5 DEF RightAnswers
    <3>7. OneError(p)'
      BY <1>5, <2>1, <3>1, <3>4, <3>6 DEF OneError
    <3>8. QED
      BY <2>1, <3>7 DEF AnswersAt
  <2>4. CASE ~Unserialisable(p)
    <3>1. answer' = answer
      BY <1>6, <2>4 DEF EndGather
    <3>2. AllRight(p)'
      BY <1>4, <2>2, <3>1 DEF AllRight
    <3>3. QED
      BY <1>5, <2>1, <2>2, <3>1, <3>2 DEF AnswersAt
  <2>5. QED
    BY <2>3, <2>4
<1>7. CASE Deliver(p)
  <2>1. where[p] = "respond" /\ where'[p] = "closed" /\ answer' = answer /\ task' = task
    BY <1>7 DEF Deliver, At, Goto, TypeOK, runtime
  <2>2. OneError(p) \/ (InOrder(answer[p], Owed(p)) /\ AllRight(p))
    BY <2>1 DEF AnswersGrow, AnswersAt
  <2>3. OneError(p) => OneError(p)'
    BY <1>5, <2>1 DEF OneError
  <2>4. AllRight(p) => AllRight(p)'
    BY <1>4, <2>1 DEF AllRight
  <2>5. QED
    BY <1>5, <2>1, <2>2, <2>3, <2>4 DEF AnswersAt
<1>8. QED
  BY <1>3, <1>6, <1>7 DEF Gather

LEMMA AnswersByItself ==
    ASSUME PlacedInv, AnswersGrow, NEW p \in Posts, Act(p)
    PROVE  AnswersAt(p)'
<1> USE DEF PlacedInv, Goto, Close, At, posted, runtime, history
<1>1. AnswersAt(p)
  BY DEF AnswersGrow
<1>2. CASE ~Taken(p)
  <2>1. CASE Refuse(p)
    BY <2>1 DEF Refuse, TypeOK, AnswersAt, NoRequest
  <2>2. CASE ~Refuse(p)
    <3>1. where'[p] \in {"sent", "map"} /\ answer' = answer
      BY <1>2, <2>2
      DEF Act, Send, Serve, Accept, Taken, TypeOK, Map, Mapping, MapInvalid, MapCancel, MapSubmit,
          Acknowledge, EndMap, Gather, Gathering, GatherStored, GatherResult, GatherTimeout,
          EndGather, Deliver, Stream, Poll, Abandon, StreamTimeout, PollAgain, WriteEvent, Writing,
          WriteFails, ProviderThrows, Leave
    <3>2. QED
      BY <1>1, <1>2, <3>1 DEF AnswersAt, Taken
  <2>3. QED
    BY <2>1, <2>2
<1>3. CASE Taken(p)
  <2>1. request' = request
    BY <1>3, PostKept
  <2>2. CASE Map(p)
    <3>1. where[p] = "map" /\ answer' = answer
      BY <2>2 DEF Map, Mapping, MapInvalid, MapCancel, MapSubmit, Acknowledge, EndMap
    <3>2. answer'[p] = <<>>
      BY <1>1, <3>1 DEF AnswersAt
    <3>3. CASE Acknowledge(p)
      BY <2>1, <3>2, <3>3 DEF Acknowledge, Modern, AnswersAt, TypeOK
    <3>4. CASE EndMap(p)
      <4>1. where'[p] \in {"stream", "gather"} /\ cursor'[p] = 1
        BY <3>4 DEF EndMap, TypeOK
      <4>2. OwedUpTo(p, cursor[p] - 1)' = {}
        BY <4>1 DEF OwedUpTo, Owed
      <4>3. InOrder(answer[p], {})' /\ AllRight(p)'
        BY <3>2, EmptySeq DEF InOrder, AllRight
      <4>4. QED
        BY <4>1, <4>2, <4>3 DEF AnswersAt
    <3>5. CASE MapInvalid(p) \/ MapCancel(p) \/ MapSubmit(p)
      <4>1. where'[p] = "map"
        BY <3>1, <3>5 DEF MapInvalid, MapCancel, MapSubmit
      <4>2. QED
        BY <3>2, <4>1 DEF AnswersAt
    <3>6. QED
      BY <2>2, <3>3, <3>4, <3>5 DEF Map
  <2>3. CASE Stream(p) \/ Leave(p)
    <3>1. Modern(p) /\ where'[p] \in {"stream", "polled", "write", "write_timeout", "thrown", "closed"}
      <4>1. where[p] \in {"stream", "polled", "write", "write_timeout"}
        BY <2>3 DEF Stream, Poll, Abandon, StreamTimeout, PollAgain, WriteEvent, WriteFails, Writing,
           ProviderThrows, Leave
      <4>2. Modern(p)
        BY <4>1 DEF PostsPlaced, PostPlaced, Streamed
      <4>3. QED
        BY <2>3, <4>1, <4>2
        DEF Stream, Poll, Abandon, StreamTimeout, PollAgain, WriteEvent, WriteFails, ProviderThrows, Leave, TypeOK
    <3>2. QED
      BY <2>1, <3>1 DEF AnswersAt, Modern
  <2>4. CASE Gather(p)
    BY <2>4, GatherAnswers
  <2>5. QED
    BY <1>3, <2>2, <2>3, <2>4 DEF Act, Serve, Refuse, Accept, Taken, Send
<1>4. QED
  BY <1>2, <1>3

\* A /jsonrpc client that gets an answer gets one response for each element that
\* deserves one, in the order of the elements and each with the verdict of its own
\* task, whatever order the handlers finished in; or one error, if a result cannot
\* be serialised (the gather phase of handle_request).
THEOREM AnswersMatchRequests == Spec => []BatchAnsweredInOrder
<1>1. Init => AnswersGrow
  BY DEF Init, AnswersGrow, AnswersAt
<1>2. ASSUME PlacedInv, AnswersGrow, [Work]_vars PROVE AnswersGrow'
  BY <1>2, AnswersByOthers, AnswersByItself DEF AnswersGrow
<1>3. PlacedInv /\ AnswersGrow => BatchAnsweredInOrder
  <2> SUFFICES ASSUME PlacedInv, AnswersGrow, NEW p \in Posts,
                      where[p] \in {"respond", "closed"}, request[p].endpoint = "/jsonrpc",
                      ~OneError(p)
               PROVE  /\ {answer[p][k][1] : k \in DOMAIN answer[p]} = Owed(p)
                      /\ \A j, k \in DOMAIN answer[p] : j < k => answer[p][j][1] < answer[p][k][1]
                      /\ \A k \in DOMAIN answer[p] :
                            LET t == <<p, answer[p][k][1]>> IN
                            \/ Element(p, t[2]).kind = "invalid" /\ answer[p][k][2] = "invalid"
                            \/ answer[p][k][2] = task[t]
                            \/ answer[p][k][2] = "timeout" /\ (task[t] = "live" => t \in expired)
    BY DEF BatchAnsweredInOrder, OneError
  <2>1. InOrder(answer[p], Owed(p)) /\ AllRight(p)
    BY DEF AnswersGrow, AnswersAt
  <2>2. ASSUME NEW k \in DOMAIN answer[p]
        PROVE  LET t == <<p, answer[p][k][1]>> IN
               \/ Element(p, t[2]).kind = "invalid" /\ answer[p][k][2] = "invalid"
               \/ answer[p][k][2] = task[t]
               \/ answer[p][k][2] = "timeout" /\ (task[t] = "live" => t \in expired)
    BY <2>1 DEF AllRight, RightAnswers
  <2>3. QED
    BY <2>1, <2>2 DEF InOrder
<1>4. QED
  BY <1>1, <1>2, <1>3, PlacesInvariant, SpecWorks, PTL DEF Spec
===============================================================================
