----------------------------- MODULE SseEventHub -----------------------------
(***************************************************************************)
(* One event stream: SseEventHub (sse_event_hub.cpp), the GET endpoint     *)
(* that serves it (http_sse_server.cpp with the provider callbacks of      *)
(* run_http_mode in mcp_server_main.cpp) and the clients at the other end  *)
(* of the connections.                                                     *)
(*                                                                         *)
(* An event is its id.  A step is one critical section of the hub's mutex  *)
(* or one write to the socket.  wait_and_pop waits at most a second, so a  *)
(* wakeup decides nothing and the condition variable is not modelled.      *)
(*                                                                         *)
(* httplib is external: it serves at most SseWorkers connections at a      *)
(* time, calls the content provider of a connection again whenever it      *)
(* returned true, and stops doing so when a write failed, when it finds    *)
(* the peer gone, or when the server was stopped.                          *)
(***************************************************************************)
EXTENDS Naturals, Sequences, FiniteSets

CONSTANTS
    Clients,     \* subscribers that reconnect with the id they saw last
    Connections, \* TCP connections; a closed one may be opened again
    ClientLimits,\* the limits on the number of subscribers that are tried
    MaxPending,  \* max_pending_events_per_client_
    MaxReplay,   \* max_replay_events_
    SseWorkers,  \* threads of the SSE server
    MaxEvents    \* bound on the number of published events, for TLC

\* The constructors raise each limit to at least 1.
ASSUME LimitsAssumption ==
    /\ ClientLimits \subseteq Nat \ {0}
    /\ MaxPending \in Nat \ {0}
    /\ MaxReplay \in Nat \ {0}
    /\ SseWorkers \in Nat \ {0}
    /\ MaxEvents \in Nat
ASSUME ConnectionsAssumption == IsFiniteSet(Connections) /\ Clients # {}

VARIABLES
    running,   \* g_running
    listening, \* the SSE server has not been stopped
    maxClients,\* max_clients_
    nextId,    \* next_event_id_
    replay,    \* replay_events_
    pending,   \* pending_events of each connection's subscription
    phase,     \* where the thread serving each connection is
    hand,      \* the event each connection's thread has popped and not sent
    user,      \* the client that opened each connection
    lastId,    \* its Last-Event-ID, 0 when absent
    link,      \* connections whose client is still there
    wire,      \* events written to each connection and not received
    got,       \* the events each client has received (history)
    joined     \* the newest event each client does not expect (history)

vars == <<running, listening, maxClients, nextId, replay, pending, phase, hand, user, lastId,
          link, wire, got, joined>>
server  == <<running, listening, maxClients>>
hub     == <<nextId, replay>>
network == <<user, lastId, link, wire>>
history == <<got, joined>>

\* No connection; accepted and waiting for a worker; between two calls of the
\* provider; in the provider before subscribe; refused; subscribed and about to
\* send the greeting; at the head of the send loop; in wait_and_pop; holding an
\* event to send; about to unsubscribe with a failed write.
Phases == {"closed", "queued", "between", "opening", "refused", "greeting",
           "looping", "waiting", "sending", "failed"}

Subscribed(c) == phase[c] \in {"greeting", "looping", "waiting", "sending", "failed"}
Subscribers   == {c \in Connections : Subscribed(c)}
Served        == {c \in Connections : phase[c] \notin {"closed", "queued"}}

\* Bounded deque: the oldest element makes room for the new one.
PushBounded(q, e, n) == Append(IF Len(q) >= n THEN Tail(q) ELSE q, e)

LastOf(q, n) == IF Len(q) > n THEN SubSeq(q, Len(q) - n + 1, Len(q)) ELSE q

Newest(s) == IF s = <<>> THEN 0 ELSE s[Len(s)]

\* Faulty: ids start at 0, the value of an absent Last-Event-ID.
HubInitFromZero ==
    /\ nextId = 0
    /\ replay = <<>>
    /\ pending = [c \in Connections |-> <<>>]

HubInit ==
    /\ nextId = 1
    /\ replay = <<>>
    /\ pending = [c \in Connections |-> <<>>]

Init ==
    /\ HubInit
    /\ running = TRUE
    /\ listening = TRUE
    /\ maxClients \in ClientLimits
    /\ phase = [c \in Connections |-> "closed"]
    /\ hand = [c \in Connections |-> 0]
    /\ user \in [Connections -> Clients]
    /\ lastId = [c \in Connections |-> 0]
    /\ link = {}
    /\ wire = [c \in Connections |-> <<>>]
    /\ got = [u \in Clients |-> <<>>]
    /\ joined = [u \in Clients |-> 0]

Goto(c, p) == phase' = [phase EXCEPT ![c] = p]

-------------------------------------------------------------------------------
(* publish: allocate the id, append to the history and to every subscriber. *)
Publish ==
    /\ nextId <= MaxEvents
    /\ nextId' = nextId + 1
    /\ replay' = PushBounded(replay, nextId, MaxReplay)
    /\ pending' = [c \in Connections |->
                     IF Subscribed(c) THEN PushBounded(pending[c], nextId, MaxPending)
                                      ELSE pending[c]]
    /\ UNCHANGED <<server, phase, hand, network, history>>

-------------------------------------------------------------------------------
(* The client side of a connection. *)

\* A client without a connection opens one; EventSource sends the last id.
Connect(c, u) ==
    /\ listening
    /\ phase[c] = "closed"
    /\ \A d \in link : user[d] # u
    /\ Goto(c, "queued")
    /\ user' = [user EXCEPT ![c] = u]
    /\ lastId' = [lastId EXCEPT ![c] = Newest(got[u])]
    /\ link' = link \cup {c}
    /\ wire' = [wire EXCEPT ![c] = <<>>]
    /\ UNCHANGED <<server, hub, pending, hand, history>>

Receive(c) ==
    /\ c \in link
    /\ wire[c] # <<>>
    /\ got' = [got EXCEPT ![user[c]] = Append(@, Head(wire[c]))]
    /\ wire' = [wire EXCEPT ![c] = Tail(@)]
    /\ UNCHANGED <<server, hub, pending, phase, hand, user, lastId, link, joined>>

\* The connection breaks; what is on the wire is lost.
Disconnect(c) ==
    /\ c \in link
    /\ link' = link \ {c}
    /\ wire' = [wire EXCEPT ![c] = <<>>]
    /\ UNCHANGED <<server, hub, pending, phase, hand, user, lastId, history>>

-------------------------------------------------------------------------------
(* The server side: the content provider and its loop. *)

\* A worker of the SSE server takes the connection.
Accept(c) ==
    /\ phase[c] = "queued"
    /\ Cardinality(Served) < SseWorkers
    /\ Goto(c, "between")
    /\ UNCHANGED <<server, hub, pending, hand, network, history>>

\* httplib calls the provider, unless the server was stopped.
CallProvider(c) ==
    /\ phase[c] = "between"
    /\ listening
    /\ Goto(c, "opening")
    /\ UNCHANGED <<server, hub, pending, hand, network, history>>

\* httplib ends a connection instead, or one that no worker has taken yet.
Close(c) ==
    /\ \/ phase[c] = "between" /\ (c \notin link \/ ~listening)
       \/ phase[c] = "queued" /\ ~listening
    /\ Goto(c, "closed")
    /\ link' = link \ {c}
    /\ UNCHANGED <<server, hub, pending, hand, user, lastId, wire, history>>

(* subscribe refuses a connection beyond the limit. *)
Refuse(c) ==
    /\ phase[c] = "opening"
    /\ Cardinality(Subscribers) >= maxClients
    /\ Goto(c, "refused")
    /\ UNCHANGED <<server, hub, pending, hand, network, history>>

\* What a client with this Last-Event-ID missed, as far as it is retained: the
\* ids of the history increase, so that its newer events are the end of it;
\* faulty: nothing is replayed, or the event it saw last is replayed again.
HistoryFrom(newer) ==
    IF newer = {} THEN <<>>
    ELSE LastOf(SubSeq(replay, CHOOSE i \in newer : \A j \in newer : i <= j, Len(replay)), MaxPending)
ReplayNothing(id) == <<>>
ReplayFrom(id) == IF id = 0 THEN <<>> ELSE HistoryFrom({i \in DOMAIN replay : replay[i] >= id})
ReplayAfter(id) == IF id = 0 THEN <<>> ELSE HistoryFrom({i \in DOMAIN replay : replay[i] > id})

(* subscribe: a reconnecting client is given the newer part of the history. *)
Subscribe(c) ==
    /\ phase[c] = "opening"
    /\ Cardinality(Subscribers) < maxClients
    /\ Goto(c, "greeting")
    /\ pending' = [pending EXCEPT ![c] = ReplayAfter(lastId[c])]
    /\ joined' = IF lastId[c] = 0 THEN [joined EXCEPT ![user[c]] = nextId - 1] ELSE joined
    /\ UNCHANGED <<server, hub, hand, network, got>>

\* The error message is written; the provider returns true and is called again.
SendRefusal(c) ==
    /\ phase[c] = "refused"
    /\ \/ Goto(c, "between")
       \/ c \notin link /\ Goto(c, "closed")
    /\ UNCHANGED <<server, hub, pending, hand, network, history>>

SendGreeting(c) ==
    /\ phase[c] = "greeting"
    /\ \/ Goto(c, "looping")
       \/ c \notin link /\ Goto(c, "failed")
    /\ UNCHANGED <<server, hub, pending, hand, network, history>>

\* Faulty: the send loop does not look at g_running.
EnterWaitAlways(c) ==
    /\ phase[c] = "looping"
    /\ Goto(c, "waiting")
    /\ UNCHANGED <<server, hub, pending, hand, network, history>>

\* while (g_running)
EnterWait(c) ==
    /\ phase[c] = "looping"
    /\ running
    /\ Goto(c, "waiting")
    /\ UNCHANGED <<server, hub, pending, hand, network, history>>

(* wait_and_pop returns the oldest pending event. *)
WaitAndPop(c) ==
    /\ phase[c] = "waiting"
    /\ pending[c] # <<>>
    /\ Goto(c, "sending")
    /\ hand' = [hand EXCEPT ![c] = Head(pending[c])]
    /\ pending' = [pending EXCEPT ![c] = Tail(@)]
    /\ UNCHANGED <<server, hub, network, history>>

(* wait_and_pop times out. *)
WaitTimesOut(c) ==
    /\ phase[c] = "waiting"
    /\ pending[c] = <<>>
    /\ Goto(c, "looping")
    /\ UNCHANGED <<server, hub, pending, hand, network, history>>

\* A write to a broken connection may fail or vanish.
SendEvent(c) ==
    /\ phase[c] = "sending"
    /\ hand' = [hand EXCEPT ![c] = 0]
    /\ \/ /\ c \in link
          /\ wire' = [wire EXCEPT ![c] = Append(@, hand[c])]
          /\ Goto(c, "looping")
       \/ /\ c \notin link
          /\ Goto(c, "looping") \/ Goto(c, "failed")
          /\ UNCHANGED wire
    /\ UNCHANGED <<server, hub, pending, user, lastId, link, history>>

\* unsubscribe by the destructor of the guard.  After a failed write the
\* connection ends; after the end of the loop httplib calls the provider again.
Unsubscribe(c) ==
    /\ \/ phase[c] = "failed" /\ Goto(c, "closed")
       \/ phase[c] = "looping" /\ ~running /\ Goto(c, "between")
    /\ pending' = [pending EXCEPT ![c] = <<>>]
    /\ UNCHANGED <<server, hub, hand, network, history>>

-------------------------------------------------------------------------------
(* signal_handler, and stop_and_join_sse once the HTTP server has returned. *)
Signal ==
    /\ running
    /\ running' = FALSE
    /\ UNCHANGED <<listening, maxClients, hub, pending, phase, hand, network, history>>

StopServer ==
    /\ ~running /\ listening
    /\ listening' = FALSE
    /\ UNCHANGED <<running, maxClients, hub, pending, phase, hand, network, history>>

Serve(c) ==
    \/ Accept(c) \/ CallProvider(c) \/ Close(c) \/ Refuse(c) \/ Subscribe(c)
    \/ SendRefusal(c) \/ SendGreeting(c) \/ EnterWait(c) \/ WaitAndPop(c)
    \/ WaitTimesOut(c) \/ SendEvent(c) \/ Unsubscribe(c)

Next ==
    \/ Publish
    \/ \E c \in Connections :
          \/ \E u \in Clients : Connect(c, u)
          \/ Receive(c) \/ Disconnect(c) \/ Serve(c)
    \/ Signal \/ StopServer

\* Threads that serve a connection run, and the signal stops the SSE server.
Fairness ==
    /\ \A c \in Connections : WF_vars(Serve(c))
    /\ WF_vars(StopServer)

Spec == Init /\ [][Next]_vars /\ Fairness

-------------------------------------------------------------------------------
Ids == 0..MaxEvents

TypeOK ==
    /\ running \in BOOLEAN /\ listening \in BOOLEAN
    /\ nextId \in 1..(MaxEvents + 1)
    /\ replay \in Seq(Ids)
    /\ pending \in [Connections -> Seq(Ids)]
    /\ phase \in [Connections -> Phases]
    /\ hand \in [Connections -> Ids]
    /\ user \in [Connections -> Clients]
    /\ lastId \in [Connections -> Ids]
    /\ link \subseteq Connections
    /\ wire \in [Connections -> Seq(Ids)]
    /\ got \in [Clients -> Seq(Ids)]
    /\ joined \in [Clients -> Ids]
    /\ maxClients \in ClientLimits

Increasing(s) == \A i, j \in DOMAIN s : i < j => s[i] < s[j]

InHand(c) == IF phase[c] = "sending" THEN <<hand[c]>> ELSE <<>>

\* A client sees ids that increase for ever, also across lost connections,
\* replays, refusals and providers that httplib calls again with the header of
\* the original request: nothing is delivered twice or late.
DeliveredInOrder ==
    \A c \in link :
        LET delivery == got[user[c]] \o wire[c] \o InHand(c) IN
        Increasing(IF phase[c] \in {"waiting", "sending"} THEN delivery \o pending[c]
                                                          ELSE delivery)

Retained == IF MaxPending < MaxReplay THEN MaxPending ELSE MaxReplay

Contains(s, e) == \E i \in DOMAIN s : s[i] = e

\* A connected client loses an event only by falling behind by more than the
\* smaller of the two buffers: every one of the latest Retained events it expects
\* has been received, is under way or waits in its queue.  Lost connections and
\* dropped writes are made up for by the replay.
RecentEventsReachClient ==
    \A c \in link : Subscribed(c) =>
        \A e \in 1..(nextId - 1) : e > joined[user[c]] /\ e >= nextId - Retained =>
            Contains(got[user[c]] \o wire[c] \o InHand(c) \o pending[c], e)

\* Once the process is told to stop, every connection thread gives its
\* subscription back and ends, refused and dead connections included.
ConnectionsEnd == ~running ~> \A c \in Connections : phase[c] = "closed"
==============================================================================
