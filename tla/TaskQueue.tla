------------------------------ MODULE TaskQueue ------------------------------
(***************************************************************************)
(* BoundedJsonRpcTaskQueue with its condition variable not_empty_          *)
(* (jsonrpc_task_queue.cpp).  Every critical section of mutex_ is one      *)
(* action; what the code does after it has released the mutex, the calls   *)
(* to notify_one and notify_all, are actions of their own, so that a       *)
(* consumer can run between an unlock and the wakeup that follows it.      *)
(*                                                                         *)
(* Producers are the threads inside submit(), one per item; consumers are  *)
(* the threads of one worker pool; closers are callers of close().         *)
(***************************************************************************)
EXTENDS Naturals, Sequences, FiniteSets

CONSTANTS Items, NoItem, Consumers, Closers, Capacity

\* The constructor throws std::invalid_argument for capacity 0, start() for 0 workers.
ASSUME CapacityAssumption == Capacity \in Nat \ {0}
ASSUME FinitenessAssumption ==
    /\ IsFiniteSet(Items)
    /\ IsFiniteSet(Consumers) /\ Consumers # {}
    /\ IsFiniteSet(Closers)

\* A producer: before try_push, holding a pushed item it has not notified yet,
\* or returned with a TaskSubmitStatus.
ProducerStates == {"unsent", "pushed", "Accepted", "QueueFull", "QueueClosed"}

\* A consumer: about to evaluate the wait predicate under the lock, asleep in
\* not_empty_.wait, running the popped task, or out of worker_loop.
ConsumerStates == {"ready", "waiting", "busy", "stopped"}

\* A closer: before close(), between its unlock and notify_all, or returned.
CloserStates == {"idle", "notifying", "returned"}

VARIABLES queue, closed, producer, consumer, closer, held

vars == <<queue, closed, producer, consumer, closer, held>>

ProducersIn(s) == {i \in Items : producer[i] = s}
ConsumersIn(s) == {c \in Consumers : consumer[c] = s}
ClosersIn(s)   == {k \in Closers : closer[k] = s}

Init ==
    /\ queue = <<>>
    /\ closed = FALSE
    /\ producer = [i \in Items |-> "unsent"]
    /\ consumer = [c \in Consumers |-> "ready"]
    /\ closer = [k \in Closers |-> "idle"]
    /\ held = [c \in Consumers |-> NoItem]

------------------------------------------------------------------------------
\* Faulty: the envelope is pushed after it was moved from.
PushMovedFrom(i) ==
    /\ producer[i] = "unsent" /\ ~closed /\ Len(queue) < Capacity
    /\ queue' = Append(queue, NoItem)
    /\ producer' = [producer EXCEPT ![i] = "pushed"]
    /\ UNCHANGED <<closed, consumer, closer, held>>

\* try_push: closed_ is tested before the size.
PushAccepted(i) ==
    /\ producer[i] = "unsent"
    /\ ~closed
    /\ Len(queue) < Capacity
    /\ queue' = Append(queue, i)
    /\ producer' = [producer EXCEPT ![i] = "pushed"]
    /\ UNCHANGED <<closed, consumer, closer, held>>

PushRefused(i) ==
    /\ producer[i] = "unsent"
    /\ \/ /\ closed
          /\ producer' = [producer EXCEPT ![i] = "QueueClosed"]
       \/ /\ ~closed
          /\ Len(queue) >= Capacity
          /\ producer' = [producer EXCEPT ![i] = "QueueFull"]
    /\ UNCHANGED <<queue, closed, consumer, closer, held>>

\* Faulty: only the push into an empty queue notifies.
NotifyFirstOnly(i) ==
    /\ producer[i] = "pushed"
    /\ producer' = [producer EXCEPT ![i] = "Accepted"]
    /\ IF ConsumersIn("waiting") = {} \/ Len(queue) > 1
       THEN UNCHANGED consumer
       ELSE \E c \in ConsumersIn("waiting") :
                consumer' = [consumer EXCEPT ![c] = "ready"]
    /\ UNCHANGED <<queue, closed, closer, held>>

\* notify_one wakes one sleeper, if there is one.
NotifyOne(i) ==
    /\ producer[i] = "pushed"
    /\ producer' = [producer EXCEPT ![i] = "Accepted"]
    /\ IF ConsumersIn("waiting") = {}
       THEN UNCHANGED consumer
       ELSE \E c \in ConsumersIn("waiting") :
                consumer' = [consumer EXCEPT ![c] = "ready"]
    /\ UNCHANGED <<queue, closed, closer, held>>

------------------------------------------------------------------------------
\* wait_pop: the predicate closed_ || !queue_.empty() fails, the thread sleeps.
Sleep(c) ==
    /\ consumer[c] = "ready"
    /\ ~closed /\ queue = <<>>
    /\ consumer' = [consumer EXCEPT ![c] = "waiting"]
    /\ UNCHANGED <<queue, closed, producer, closer, held>>

\* Faulty: the newest envelope is popped.
PopNewest(c) ==
    /\ consumer[c] = "ready"
    /\ queue # <<>>
    /\ held' = [held EXCEPT ![c] = queue[Len(queue)]]
    /\ queue' = SubSeq(queue, 1, Len(queue) - 1)
    /\ consumer' = [consumer EXCEPT ![c] = "busy"]
    /\ UNCHANGED <<closed, producer, closer>>

\* wait_pop returns the oldest envelope, closed or not.
Pop(c) ==
    /\ consumer[c] = "ready"
    /\ queue # <<>>
    /\ held' = [held EXCEPT ![c] = Head(queue)]
    /\ queue' = Tail(queue)
    /\ consumer' = [consumer EXCEPT ![c] = "busy"]
    /\ UNCHANGED <<closed, producer, closer>>

\* Faulty: a closed queue releases its workers before it is drained.
StopUndrained(c) ==
    /\ consumer[c] = "ready"
    /\ closed
    /\ consumer' = [consumer EXCEPT ![c] = "stopped"]
    /\ UNCHANGED <<queue, closed, producer, closer, held>>

\* wait_pop returns nullptr and worker_loop breaks.
PopNothing(c) ==
    /\ consumer[c] = "ready"
    /\ closed /\ queue = <<>>
    /\ consumer' = [consumer EXCEPT ![c] = "stopped"]
    /\ UNCHANGED <<queue, closed, producer, closer, held>>

\* The worker has finished its task and calls wait_pop again.
Loop(c) ==
    /\ consumer[c] = "busy"
    /\ consumer' = [consumer EXCEPT ![c] = "ready"]
    /\ held' = [held EXCEPT ![c] = NoItem]
    /\ UNCHANGED <<queue, closed, producer, closer>>

\* std::condition_variable may wake a sleeper that nobody notified.
SpuriousWakeup(c) ==
    /\ consumer[c] = "waiting"
    /\ consumer' = [consumer EXCEPT ![c] = "ready"]
    /\ UNCHANGED <<queue, closed, producer, closer, held>>

------------------------------------------------------------------------------
\* Faulty: close does not wake anybody.
CloseSilently(k) ==
    /\ closer[k] = "idle"
    /\ closed' = TRUE
    /\ closer' = [closer EXCEPT ![k] = "returned"]
    /\ UNCHANGED <<queue, producer, consumer, held>>

\* close: the first caller sets closed_, later ones return at once.
Close(k) ==
    /\ closer[k] = "idle"
    /\ closed' = TRUE
    /\ closer' = [closer EXCEPT ![k] = IF closed THEN "returned" ELSE "notifying"]
    /\ UNCHANGED <<queue, producer, consumer, held>>

NotifyAll(k) ==
    /\ closer[k] = "notifying"
    /\ closer' = [closer EXCEPT ![k] = "returned"]
    /\ consumer' = [c \in Consumers |->
                        IF consumer[c] = "waiting" THEN "ready" ELSE consumer[c]]
    /\ UNCHANGED <<queue, closed, producer, held>>

------------------------------------------------------------------------------
Next ==
    \/ \E i \in Items : PushAccepted(i) \/ PushRefused(i) \/ NotifyOne(i)
    \/ \E c \in Consumers :
           Sleep(c) \/ Pop(c) \/ PopNothing(c) \/ Loop(c) \/ SpuriousWakeup(c)
    \/ \E k \in Closers : Close(k) \/ NotifyAll(k)

\* Every thread that is not blocked keeps running; nothing obliges a caller to
\* submit or to close, a handler to return (Loop), or a sleeper to wake unnotified.
Fairness ==
    /\ \A i \in Items : WF_vars(NotifyOne(i))
    /\ \A c \in Consumers : WF_vars(Sleep(c) \/ Pop(c) \/ PopNothing(c))
    /\ \A k \in Closers : WF_vars(NotifyAll(k))

Spec == Init /\ [][Next]_vars /\ Fairness

------------------------------------------------------------------------------
TypeOK ==
    /\ queue \in Seq(Items)
    /\ closed \in BOOLEAN
    /\ producer \in [Items -> ProducerStates]
    /\ consumer \in [Consumers -> ConsumerStates]
    /\ closer \in [Closers -> CloserStates]
    /\ held \in [Consumers -> Items \cup {NoItem}]

\* The queue never holds more than capacity_ envelopes, whatever the number of
\* threads that test the size concurrently (try_push).
WithinCapacity == Len(queue) <= Capacity

\* No lost wakeup: as long as some worker sleeps on not_empty_, every queued
\* envelope is matched by a worker that is about to test the predicate or by a
\* producer that has yet to call notify_one (try_push notifies after unlock).
NoLostWakeup ==
    ConsumersIn("waiting") # {} =>
        Len(queue) <= Cardinality(ProducersIn("pushed")) + Cardinality(ConsumersIn("ready"))

\* A worker sleeps on a closed queue only while the closer that closed it has
\* still to call notify_all: stop() cannot join a worker that nobody will wake.
NoSleeperLeftBehind ==
    closed /\ ConsumersIn("waiting") # {} => ClosersIn("notifying") # {}

\* A worker leaves worker_loop only when the queue is closed and drained, and
\* the queue stays empty afterwards: graceful shutdown loses no accepted task.
StoppedMeansDrained ==
    ConsumersIn("stopped") # {} => closed /\ queue = <<>>

\* Without wait_pop's condition variable this is the queue of BoundedQueue.
Abstract == INSTANCE BoundedQueue WITH
    status   <- [i \in Items |-> IF producer[i] = "pushed" THEN "Accepted" ELSE producer[i]],
    consumer <- [c \in Consumers |->
                    IF consumer[c] \in {"ready", "waiting"} THEN "calling" ELSE consumer[c]]

\* Every behaviour of the queue with its condition variable is one of the
\* abstract queue, its fairness included: accepted items do not stay in the
\* queue while a worker is free, and after close() every free worker is released.
ImplementsBoundedQueue == Abstract!Spec
==============================================================================
