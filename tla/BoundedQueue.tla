---------------------------- MODULE BoundedQueue ----------------------------
(***************************************************************************)
(* What BoundedJsonRpcTaskQueue promises to its callers, without the mutex *)
(* and the condition variable: a bounded FIFO that refuses instead of      *)
(* blocking, hands every accepted item to exactly one consumer, and after  *)
(* close() refuses new items, hands out the ones it still holds and then   *)
(* tells every consumer to stop.                                           *)
(***************************************************************************)
EXTENDS Naturals, Sequences

CONSTANTS Items,      \* task envelopes, each offered once
          NoItem,
          Consumers,  \* worker threads looping on wait_pop()
          Capacity    \* capacity_

Statuses == {"unsent", "Accepted", "QueueFull", "QueueClosed"}

\* What a consumer is doing: inside wait_pop(), busy with an item, or told to stop.
ConsumerStates == {"calling", "busy", "stopped"}

VARIABLES queue,     \* the accepted items nobody has taken, oldest first
          closed,    \* no further item is accepted
          status,    \* what try_push returned for each item
          consumer,  \* state of each consumer
          held       \* the item each busy consumer was handed

vars == <<queue, closed, status, consumer, held>>

Init ==
    /\ queue = <<>>
    /\ closed = FALSE
    /\ status = [i \in Items |-> "unsent"]
    /\ consumer = [c \in Consumers |-> "calling"]
    /\ held = [c \in Consumers |-> NoItem]

Offer(i) ==
    /\ status[i] = "unsent"
    /\ \/ /\ ~closed /\ Len(queue) < Capacity
          /\ queue' = Append(queue, i)
          /\ status' = [status EXCEPT ![i] = "Accepted"]
       \/ /\ ~closed /\ Len(queue) >= Capacity
          /\ status' = [status EXCEPT ![i] = "QueueFull"]
          /\ UNCHANGED queue
       \/ /\ closed
          /\ status' = [status EXCEPT ![i] = "QueueClosed"]
          /\ UNCHANGED queue
    /\ UNCHANGED <<closed, consumer, held>>

Take(c) ==
    /\ consumer[c] = "calling"
    /\ queue # <<>>
    /\ held' = [held EXCEPT ![c] = Head(queue)]
    /\ queue' = Tail(queue)
    /\ consumer' = [consumer EXCEPT ![c] = "busy"]
    /\ UNCHANGED <<closed, status>>

Stop(c) ==
    /\ consumer[c] = "calling"
    /\ closed /\ queue = <<>>
    /\ consumer' = [consumer EXCEPT ![c] = "stopped"]
    /\ UNCHANGED <<queue, closed, status, held>>

Call(c) ==
    /\ consumer[c] = "busy"
    /\ consumer' = [consumer EXCEPT ![c] = "calling"]
    /\ held' = [held EXCEPT ![c] = NoItem]
    /\ UNCHANGED <<queue, closed, status>>

Close ==
    /\ ~closed
    /\ closed' = TRUE
    /\ UNCHANGED <<queue, status, consumer, held>>

Next ==
    \/ \E i \in Items : Offer(i)
    \/ \E c \in Consumers : Take(c) \/ Stop(c) \/ Call(c)
    \/ Close

\* A waiting item is handed out and, after the close, every caller is released.
Fairness ==
    /\ WF_vars(\E c \in Consumers : Take(c))
    /\ \A c \in Consumers : WF_vars(Stop(c))

Spec == Init /\ [][Next]_vars /\ Fairness
=============================================================================
