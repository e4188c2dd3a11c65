-------------------------- MODULE TaskRuntime_proofs --------------------------
(***************************************************************************)
(* Proofs about TaskRuntime, for every set of tasks and workers and every  *)
(* capacity of the lanes.                                                  *)
(***************************************************************************)
EXTENDS TaskRuntime, SequenceTheorems, FiniteSetTheorems, TLAPS

\* Every method belongs to one of the four lanes (classify_task_lane).
LEMMA LaneType == ASSUME NEW t PROVE Lane(t) \in Lanes
  BY DEF Lane, LaneOfMethod, Lanes

\* A reply is a result.
LEMMA ReplyType == ASSUME NEW t, NEW r \in Results PROVE Reply(t, r) \in Results
  BY DEF Reply, Results

\* The counters stay integers, whichever of them a step changes.
LEMMA MetricsType ==
    ASSUME NEW m \in Metrics
    PROVE  /\ [m EXCEPT !.total = @ + 1] \in Metrics
           /\ [m EXCEPT !.in_flight = @ + 1] \in Metrics
           /\ [m EXCEPT !.in_flight = @ - 1] \in Metrics
           /\ [m EXCEPT !.completed = @ + 1] \in Metrics
           /\ [m EXCEPT !.failed = @ + 1] \in Metrics
           /\ [m EXCEPT !.timeout = @ + 1] \in Metrics
           /\ [m EXCEPT !.failed = @ + 1, !.timeout = @ + 1] \in Metrics
           /\ [m EXCEPT !.failed = @ + 1, !.busy = @ + 1] \in Metrics
           /\ [m EXCEPT !.failed = @ + 1, !.closed = @ + 1] \in Metrics
<1>1. [m EXCEPT !.total = @ + 1] \in Metrics
  BY DEF Metrics
<1>2. [m EXCEPT !.in_flight = @ + 1] \in Metrics
  BY DEF Metrics
<1>3. [m EXCEPT !.in_flight = @ - 1] \in Metrics
  BY DEF Metrics
<1>4. [m EXCEPT !.completed = @ + 1] \in Metrics
  BY DEF Metrics
<1>5. [m EXCEPT !.failed = @ + 1] \in Metrics
  BY DEF Metrics
<1>6. [m EXCEPT !.timeout = @ + 1] \in Metrics
  BY DEF Metrics
<1>7. [m EXCEPT !.failed = @ + 1, !.timeout = @ + 1] \in Metrics
  <2> DEFINE k == [m EXCEPT !.failed = @ + 1, !.timeout = @ + 1]
  <2>1. m.failed + 1 \in Int /\ m.timeout + 1 \in Int
    BY DEF Metrics
  <2>2. k \in Metrics
    BY <2>1 DEF Metrics
  <2>3. QED
    BY <2>2
<1>8. [m EXCEPT !.failed = @ + 1, !.busy = @ + 1] \in Metrics
  <2> DEFINE k == [m EXCEPT !.failed = @ + 1, !.busy = @ + 1]
  <2>1. m.failed + 1 \in Int /\ m.busy + 1 \in Int
    BY DEF Metrics
  <2>2. k \in Metrics
    BY <2>1 DEF Metrics
  <2>3. QED
    BY <2>2
<1>9. [m EXCEPT !.failed = @ + 1, !.closed = @ + 1] \in Metrics
  <2> DEFINE k == [m EXCEPT !.failed = @ + 1, !.closed = @ + 1]
  <2>1. m.failed + 1 \in Int /\ m.closed + 1 \in Int
    BY DEF Metrics
  <2>2. k \in Metrics
    BY <2>1 DEF Metrics
  <2>3. QED
    BY <2>2
<1>10. QED
  BY <1>1, <1>2, <1>3, <1>4, <1>5, <1>6, <1>7, <1>8, <1>9

LEMMA LaneMetricsType ==
    ASSUME NEW g \in LaneMetrics
    PROVE  /\ [g EXCEPT !.accepted = @ + 1] \in LaneMetrics
           /\ [g EXCEPT !.active = @ + 1] \in LaneMetrics
           /\ [g EXCEPT !.active = @ - 1] \in LaneMetrics
  BY DEF LaneMetrics

LEMMA NotifiedType ==
    ASSUME NEW n \in [Tasks -> Nat], NEW t
    PROVE  [n EXCEPT ![t] = @ + 1] \in [Tasks -> Nat]
<1>1. CASE t \in Tasks
  <2>1. n[t] + 1 \in Nat
    BY <1>1
  <2>2. QED
    BY <2>1
<1>2. CASE t \notin Tasks
  BY <1>2
<1>3. QED
  BY <1>1, <1>2

\* The variables keep their types.
THEOREM TypeCorrect == Spec => []TypeOK
<1>1. Init => TypeOK
  <2> SUFFICES ASSUME Init PROVE TypeOK
    OBVIOUS
  <2>1. metrics \in Metrics /\ lanes \in [Lanes -> LaneMetrics]
    BY DEF Init, Metrics, LaneMetrics
  <2>2. queue \in [Lanes -> Seq(Tasks)] /\ closed \in [Lanes -> BOOLEAN]
    BY DEF Init
  <2>3. joined \in 0..Len(ShutdownOrder)
    BY DEF Init, ShutdownOrder
  <2>4. QED
    BY <2>1, <2>2, <2>3 DEF Init, TypeOK, SubmitterStates, Statuses, WorkerStates
<1>2. TypeOK /\ [Next]_vars => TypeOK'
  <2> SUFFICES ASSUME TypeOK, [Next]_vars PROVE TypeOK'
    OBVIOUS
  <2>0. /\ metrics \in Metrics /\ lanes \in [Lanes -> LaneMetrics]
        /\ notified \in [Tasks -> Nat] /\ joined \in 0..Len(ShutdownOrder)
        /\ queue \in [Lanes -> Seq(Tasks)] /\ closed \in [Lanes -> BOOLEAN]
        /\ registry \in [Keys -> Tasks \cup {NoTask}]
    BY DEF TypeOK
  <2>1. ASSUME NEW t \in Tasks, Submit(t) PROVE TypeOK'
    <3>1. registry' \in [Keys -> Tasks \cup {NoTask}]
      BY <2>0, <2>1 DEF Submit, RegisterToken
    <3>2. metrics' \in Metrics
      BY <2>0, <2>1, MetricsType DEF Submit
    <3>3. QED
      BY <2>1, <3>1, <3>2 DEF TypeOK, Submit, clients, pools, SubmitterStates
  <2>2. ASSUME NEW t \in Tasks, TryPush(t) PROVE TypeOK'
    <3> DEFINE l == QueueFor(t)
    <3>1. l \in Lanes
      BY LaneType DEF QueueFor
    <3>2. PushOutcome(l) \in Statuses
      <4> HIDE DEF l
      <4>1. Len(queue[l]) \in Nat /\ Capacity[l] \in Nat /\ closed[l] \in BOOLEAN
        BY <2>0, <3>1, LenProperties, PoolsAssumption
      <4>2. QED
        BY <4>1 DEF PushOutcome, Statuses
    <3>3. Append(queue[l], t) \in Seq(Tasks)
      BY <2>0, <3>1, AppendProperties
    <3>4. queue' \in [Lanes -> Seq(Tasks)]
      BY <2>0, <2>2, <3>1, <3>3 DEF TryPush
    <3>5. QED
      BY <2>2, <3>2, <3>4 DEF TypeOK, TryPush, clients, pools, counters, SubmitterStates
  <2>3. ASSUME NEW t \in Tasks, RecordAccepted(t) PROVE TypeOK'
    <3>1. [lanes[Lane(t)] EXCEPT !.accepted = @ + 1] \in LaneMetrics
      BY <2>0, LaneType, LaneMetricsType
    <3>2. lanes' \in [Lanes -> LaneMetrics]
      BY <2>0, <2>3, <3>1, LaneType DEF RecordAccepted
    <3>3. QED
      BY <2>3, <3>2 DEF TypeOK, RecordAccepted, clients, pools, SubmitterStates
  <2>4. ASSUME NEW t \in Tasks, RecordRejected(t) PROVE TypeOK'
    <3>1. registry' \in [Keys -> Tasks \cup {NoTask}]
      BY <2>0, <2>4 DEF RecordRejected, UnregisterToken
    <3>2. metrics' \in Metrics
      BY <2>0, <2>4, MetricsType DEF RecordRejected, RejectionCounted
    <3>3. QED
      BY <2>4, <3>1, <3>2 DEF TypeOK, RecordRejected, clients, pools, SubmitterStates
  <2>5. ASSUME NEW t \in Tasks, ResolveRejected(t) PROVE TypeOK'
    <3>1. Reply(t, Rejection(status[t])) \in Results
      BY ReplyType DEF Rejection, Results, Errors
    <3>2. QED
      BY <2>5, <3>1 DEF TypeOK, ResolveRejected, clients, pools, counters, SubmitterStates
  <2>6. ASSUME NEW t \in Tasks, NotifyRejected(t) \/ WaitReady(t) PROVE TypeOK'
    <3>1. [notified EXCEPT ![t] = @ + 1] \in [Tasks -> Nat]
      BY <2>0, NotifiedType
    <3>2. notified' = notified \/ notified' = [notified EXCEPT ![t] = @ + 1]
      BY <2>6 DEF NotifyRejected, WaitReady
    <3>3. notified' \in [Tasks -> Nat]
      BY <2>0, <3>1, <3>2
    <3>4. QED
      BY <2>6, <3>3 DEF TypeOK, NotifyRejected, WaitReady, clients, pools, counters, SubmitterStates
  <2>7. ASSUME NEW t \in Tasks, WaitTimesOut(t) PROVE TypeOK'
    <3>1. metrics' \in Metrics
      BY <2>0, <2>7, MetricsType DEF WaitTimesOut
    <3>2. QED
      BY <2>7, <3>1 DEF TypeOK, WaitTimesOut, clients, pools, SubmitterStates
  <2>8. ASSUME NEW t \in Tasks, AbandonWait(t) PROVE TypeOK'
    <3>1. Reply(t, "timeout") \in Results
      BY ReplyType DEF Results, Errors
    <3>2. QED
      BY <2>8, <3>1 DEF TypeOK, AbandonWait, pools, counters, SubmitterStates
  <2>9. ASSUME NEW t \in Tasks, DeadlinePasses(t) PROVE TypeOK'
    BY <2>9 DEF TypeOK, DeadlinePasses, submission, pools, counters
  <2>10. ASSUME NEW w \in Workers, Pop(w) PROVE TypeOK'
    <3> DEFINE t == Head(queue[PoolOf[w]])
    <3>1. t \in Tasks /\ Tail(queue[PoolOf[w]]) \in Seq(Tasks)
      BY <2>0, <2>10, HeadTailProperties, PoolsAssumption DEF Pop
    <3>2. queue' \in [Lanes -> Seq(Tasks)]
      BY <2>0, <2>10, <3>1, PoolsAssumption DEF Pop
    <3>3. metrics' \in Metrics
      BY <2>0, <2>10, MetricsType DEF Pop
    <3>4. [lanes[Lane(t)] EXCEPT !.active = @ + 1] \in LaneMetrics
      BY <2>0, LaneType, LaneMetricsType
    <3>5. lanes' \in [Lanes -> LaneMetrics]
      BY <2>0, <2>10, <3>4, LaneType DEF Pop
    <3>6. QED
      BY <2>10, <3>1, <3>2, <3>3, <3>5 DEF TypeOK, Pop, MoveWorker, WorkerStates, submission, clients
  <2>11. ASSUME NEW w \in Workers, Exit(w) PROVE TypeOK'
    BY <2>11 DEF TypeOK, Exit, MoveWorker, WorkerStates, submission, clients, counters
  <2>12. ASSUME NEW w \in Workers, CheckRequest(w) \/ CheckDeadline(w) \/ HandlerReturns(w)
         PROVE  TypeOK'
    <3>1. /\ \/ outcome' = outcome
             \/ \E r \in Results : outcome' = [outcome EXCEPT ![w] = Reply(current[w], r)]
          /\ \E s \in WorkerStates : worker' = [worker EXCEPT ![w] = s]
      <4> USE DEF Finish, MoveWorker, WorkerStates, Results, Errors
      <4>1. CASE CheckRequest(w)
        BY <4>1 DEF CheckRequest
      <4>2. CASE CheckDeadline(w)
        BY <4>2 DEF CheckDeadline
      <4>3. CASE HandlerReturns(w)
        BY <4>3 DEF HandlerReturns
      <4>4. QED
        BY <2>12, <4>1, <4>2, <4>3
    <3>2. outcome' \in [Workers -> Results \cup {Pending}]
            /\ worker' \in [Workers -> WorkerStates]
      <4>1. outcome \in [Workers -> Results \cup {Pending}] /\ worker \in [Workers -> WorkerStates]
        BY DEF TypeOK
      <4>2. QED
        BY <3>1, <4>1, ReplyType
    <3>3. QED
      BY <2>12, <3>2
      DEF TypeOK, CheckRequest, CheckDeadline, HandlerReturns, submission, clients, counters
  <2>13. ASSUME NEW w \in Workers, RecordFinished(w) PROVE TypeOK'
    <3>1. [lanes[Lane(current[w])] EXCEPT !.active = @ - 1] \in LaneMetrics
      BY <2>0, LaneType, LaneMetricsType
    <3>2. lanes' \in [Lanes -> LaneMetrics]
      BY <2>0, <2>13, <3>1, LaneType DEF RecordFinished, LaneGaugeDown
    <3>3. metrics' \in Metrics
      <4> DEFINE m == [metrics EXCEPT !.in_flight = @ - 1]
      <4>1. \/ metrics' = [m EXCEPT !.failed = @ + 1, !.timeout = @ + 1]
            \/ metrics' = [m EXCEPT !.failed = @ + 1]
            \/ metrics' = [m EXCEPT !.completed = @ + 1]
        BY <2>13 DEF RecordFinished
      <4>2. m \in Metrics
        BY <2>0, MetricsType
      <4> HIDE DEF m
      <4>3. QED
        BY <4>1, <4>2, MetricsType
    <3>4. QED
      BY <2>13, <3>2, <3>3 DEF TypeOK, RecordFinished, MoveWorker, WorkerStates, submission, clients
  <2>14. ASSUME NEW w \in Workers, Publish(w) PROVE TypeOK'
    BY <2>14 DEF TypeOK, Publish, MoveWorker, WorkerStates, submission, clients, counters
  <2>15. ASSUME NEW w \in Workers, Notify(w) PROVE TypeOK'
    <3>1. notified' \in [Tasks -> Nat]
      BY <2>0, <2>15, NotifiedType DEF Notify
    <3>2. QED
      BY <2>15, <3>1 DEF TypeOK, Notify, MoveWorker, WorkerStates, submission, clients, counters
  <2>16. ASSUME NEW w \in Workers, UnregisterRequest(w) PROVE TypeOK'
    <3>1. registry' \in [Keys -> Tasks \cup {NoTask}]
      BY <2>0, <2>16 DEF UnregisterRequest, UnregisterToken
    <3>2. QED
      BY <2>16, <3>1
      DEF TypeOK, UnregisterRequest, MoveWorker, WorkerStates, submission, clients, counters
  <2>17. ASSUME NEW k \in Keys, CancelRequest(k) PROVE TypeOK'
    BY <2>17 DEF TypeOK, CancelRequest, submission, pools, counters
  <2>18. CASE ClosePool
    <3>1. closed' \in [Lanes -> BOOLEAN]
      BY <2>0, <2>18 DEF ClosePool
    <3>2. QED
      BY <2>18, <3>1 DEF TypeOK, ClosePool, submission, clients, pools, counters
  <2>19. CASE JoinPool
    <3>1. joined' \in 0..Len(ShutdownOrder)
      <4>1. Len(ShutdownOrder) = 4
        BY DEF ShutdownOrder
      <4>2. QED
        BY <2>0, <2>19, <4>1 DEF JoinPool
    <3>2. QED
      BY <2>19, <3>1 DEF TypeOK, JoinPool, submission, clients, pools, counters
  <2>20. CASE UNCHANGED vars
    BY <2>20 DEF TypeOK, vars
  <2>21. QED
    BY <2>1, <2>2, <2>3, <2>4, <2>5, <2>6, <2>7, <2>8, <2>9, <2>10, <2>11, <2>12, <2>13,
       <2>14, <2>15, <2>16, <2>17, <2>18, <2>19, <2>20
    DEF Next, SubmitterStep, WorkerStep
<1>3. QED
  BY <1>1, <1>2, PTL DEF Spec

-------------------------------------------------------------------------------
\* Until its worker has set its future, an accepted task is in work.
InWork == Executing \cup {"recorded"}

\* Where an envelope can be, given how far its submitter is, and what a worker
\* holds, given where it is in worker_loop.
Placement ==
    /\ \A w \in Workers : current[w] = NoTask <=> worker[w] \in {"idle", "exited"}
    /\ \A w \in Workers : current[w] # NoTask => status[current[w]] = "Accepted"
    /\ \A w \in Workers : worker[w] \in {"finished", "recorded"} => outcome[w] # Pending
    /\ \A t \in Tasks : status[t] = "none" <=> submitter[t] \in {"new", "registered"}
    /\ \A t \in Tasks : status[t] = "none" => promise[t] = Pending
    /\ \A t \in Tasks : submitter[t] \in {"resolving", "notifying"} => status[t] # "Accepted"

\* Before on_completed has run, no thread has run it, and the thread that is
\* about to run it has set the future.
NotYetNotified ==
    /\ \A w \in Workers : worker[w] \in InWork \cup {"published"} => notified[current[w]] = 0
    /\ \A w \in Workers : worker[w] = "published" => promise[current[w]] # Pending
    /\ \A t \in Tasks : Queued(t) \/ status[t] = "none" => notified[t] = 0
    /\ \A t \in Tasks : status[t] # "Accepted" /\ submitter[t] \in {"pushed", "resolving", "notifying"}
                            => notified[t] = 0
    /\ \A t \in Tasks : submitter[t] = "notifying" => promise[t] # Pending

\* No accepted envelope is dropped: it is queued, in work or answered.
NothingDropped ==
    /\ \A t \in Tasks : status[t] = "Accepted" =>
           Queued(t) \/ HeldIn(t, InWork) \/ promise[t] # Pending
    /\ \A t \in Tasks : status[t] = "Accepted" /\ Entry[t] = "callback" =>
           Queued(t) \/ HeldIn(t, InWork \cup {"published"}) \/ notified[t] # 0

\* A worker left only an empty queue that is closed, and so stays empty.
ExitedDrained ==
    /\ \A w \in Workers : worker[w] = "exited" => MayExit(PoolOf[w])
    /\ \A i \in 1..joined : closed[ShutdownOrder[i]] /\ PoolExited(ShutdownOrder[i])

-------------------------------------------------------------------------------
Occurs(x, s) == \E i \in DOMAIN s : s[i] = x
Distinct(s) == \A i, j \in DOMAIN s : s[i] = s[j] => i = j

\* try_push at the end of a deque without repetitions.
LEMMA AppendDistinct ==
    ASSUME NEW S, NEW s \in Seq(S), NEW e \in S, Distinct(s), ~Occurs(e, s)
    PROVE  /\ \A x : Occurs(x, Append(s, e)) <=> Occurs(x, s) \/ x = e
           /\ Distinct(Append(s, e))
<1> DEFINE r == Append(s, e)
<1>1. /\ DOMAIN s = 1..Len(s) /\ DOMAIN r = 1..(Len(s) + 1) /\ Len(s) \in Nat
      /\ r[Len(s) + 1] = e
      /\ \A i \in 1..Len(s) : r[i] = s[i]
  BY AppendProperties, LenProperties
<1> HIDE DEF r
<1>2. ASSUME NEW x PROVE Occurs(x, r) <=> Occurs(x, s) \/ x = e
  BY <1>1 DEF Occurs
<1>3. Distinct(r)
  BY <1>1 DEF Occurs, Distinct
<1>4. QED
  BY <1>2, <1>3 DEF r

\* wait_pop at the front of a deque without repetitions.
LEMMA TailDistinct ==
    ASSUME NEW S, NEW s \in Seq(S), s # <<>>, Distinct(s)
    PROVE  /\ Occurs(Head(s), s)
           /\ \A x : Occurs(x, Tail(s)) <=> Occurs(x, s) /\ x # Head(s)
           /\ Distinct(Tail(s))
<1> DEFINE r == Tail(s)
<1>1. /\ DOMAIN s = 1..Len(s) /\ DOMAIN r = 1..(Len(s) - 1) /\ Len(s) \in Nat \ {0}
      /\ Head(s) = s[1]
      /\ \A i \in 1..(Len(s) - 1) : r[i] = s[i + 1]
  BY HeadTailProperties, LenProperties, EmptySeq
<1> HIDE DEF r
<1>2. Occurs(s[1], s)
  BY <1>1 DEF Occurs
<1>3. ASSUME NEW x PROVE Occurs(x, r) <=> Occurs(x, s) /\ x # s[1]
  <2>1. ASSUME Occurs(x, r) PROVE Occurs(x, s) /\ x # s[1]
    BY <1>1, <2>1 DEF Occurs, Distinct
  <2>2. ASSUME Occurs(x, s), x # s[1] PROVE Occurs(x, r)
    <3>1. PICK i \in 1..Len(s) : s[i] = x
      BY <1>1, <2>2 DEF Occurs
    <3>2. i - 1 \in 1..(Len(s) - 1) /\ r[i - 1] = x
      BY <1>1, <2>2, <3>1
    <3>3. QED
      BY <1>1, <3>2 DEF Occurs
  <2>3. QED
    BY <2>1, <2>2
<1>4. Distinct(r)
  BY <1>1 DEF Distinct
<1>5. QED
  BY <1>1, <1>2, <1>3, <1>4 DEF r

-------------------------------------------------------------------------------
\* Each queue holds tasks of its lane, none of them twice.
QueuesSound ==
    \A l \in Lanes : /\ Distinct(queue[l])
                     /\ \A i \in DOMAIN queue[l] : Lane(queue[l][i]) = l

\* The parts of OnePlacePerTask.
LEMMA OnePlaceParts ==
    OnePlacePerTask <=>
        /\ \A t \in Tasks : Queued(t) \/ HeldIn(t, InWork) => status[t] = "Accepted" /\ promise[t] = Pending
        /\ QueuesSound
        /\ \A v, w \in Workers : current[v] = current[w] /\ current[v] # NoTask => v = w
        /\ \A w \in Workers : current[w] # NoTask =>
               Lane(current[w]) = PoolOf[w] /\ ~Queued(current[w])
  BY Zenon DEF OnePlacePerTask, QueuesSound, Distinct, InWork

\* What try_push does to the queues.
LEMMA PushPlaces ==
    ASSUME TypeOK, QueuesSound, NEW t \in Tasks, TryPush(t), ~Queued(t)
    PROVE  /\ \A u \in Tasks : Queued(u)' <=> Queued(u) \/ (u = t /\ status'[t] = "Accepted")
           /\ QueuesSound'
<1> DEFINE l == Lane(t)
           q == queue[l]
<1>1. l \in Lanes /\ q \in Seq(Tasks)
  BY LaneType DEF TypeOK
<1>2. status'[t] = PushOutcome(l)
  BY DEF TryPush, QueueFor, TypeOK
<1>3. CASE PushOutcome(l) # "Accepted"
  <2>1. queue' = queue
    BY <1>3 DEF TryPush, QueueFor
  <2>2. QED
    BY <2>1, <1>2, <1>3 DEF QueuesSound, Queued
<1>4. CASE PushOutcome(l) = "Accepted"
  <2>1. queue' = [queue EXCEPT ![l] = Append(q, t)]
    BY <1>4 DEF TryPush, QueueFor
  <2>2. queue'[l] = Append(q, t) /\ \A k \in Lanes : k # l => queue'[k] = queue[k]
    BY <1>1, <2>1 DEF TypeOK
  <2>3. Distinct(q) /\ ~Occurs(t, q)
    BY <1>1 DEF QueuesSound, Queued, Occurs
  <2>4. /\ \A x : Occurs(x, Append(q, t)) <=> Occurs(x, q) \/ x = t
        /\ Distinct(Append(q, t))
    BY <1>1, <2>3, AppendDistinct
  <2> HIDE DEF l, q
  <2>5. ASSUME NEW u \in Tasks
        PROVE  Queued(u)' <=> Queued(u) \/ (u = t /\ status'[t] = "Accepted")
    <3>1. Queued(u)' <=> Occurs(u, queue'[Lane(u)])
      BY DEF Queued, Occurs
    <3>2. Queued(u) <=> Occurs(u, queue[Lane(u)])
      BY DEF Queued, Occurs
    <3>3. CASE Lane(u) = l
      BY <1>2, <1>4, <2>2, <2>4, <3>1, <3>2, <3>3 DEF q
    <3>4. CASE Lane(u) # l
      BY <2>2, <3>1, <3>2, <3>4, LaneType DEF l
    <3>5. QED
      BY <3>3, <3>4
  <2>6. QueuesSound'
    <3> SUFFICES ASSUME NEW k \in Lanes
                 PROVE  /\ Distinct(queue'[k])
                        /\ \A i \in DOMAIN queue'[k] : Lane(queue'[k][i]) = k
      BY DEF QueuesSound, Distinct
    <3>1. CASE k = l
      <4>1. \A i \in DOMAIN queue'[k] : Occurs(queue'[k][i], q) \/ queue'[k][i] = t
        BY <2>2, <2>4, <3>1 DEF Occurs
      <4>2. \A x : Occurs(x, q) => Lane(x) = l
        BY <1>1 DEF QueuesSound, Occurs, q
      <4>3. QED
        BY <2>2, <2>4, <3>1, <4>1, <4>2 DEF l
    <3>2. CASE k # l
      BY <2>2, <3>2 DEF QueuesSound
    <3>3. QED
      BY <3>1, <3>2
  <2>7. QED
    BY <2>5, <2>6
<1>5. QED
  BY <1>3, <1>4

\* What wait_pop does to the queues.
LEMMA PopPlaces ==
    ASSUME TypeOK, QueuesSound, NEW w \in Workers, Pop(w)
    PROVE  LET t == Head(queue[PoolOf[w]]) IN
           /\ t \in Tasks /\ Queued(t) /\ Lane(t) = PoolOf[w]
           /\ \A u \in Tasks : Queued(u)' <=> Queued(u) /\ u # t
           /\ QueuesSound'
<1> DEFINE l == PoolOf[w]
           q == queue[l]
           t == Head(q)
<1>1. l \in Lanes /\ q \in Seq(Tasks) /\ q # <<>>
  BY PoolsAssumption DEF TypeOK, Pop
<1>2. queue' = [queue EXCEPT ![l] = Tail(q)]
  BY DEF Pop
<1>3. queue'[l] = Tail(q) /\ \A k \in Lanes : k # l => queue'[k] = queue[k]
  BY <1>1, <1>2 DEF TypeOK
<1>4. Distinct(q)
  BY <1>1 DEF QueuesSound
<1>5. /\ Occurs(t, q)
      /\ \A x : Occurs(x, Tail(q)) <=> Occurs(x, q) /\ x # t
      /\ Distinct(Tail(q))
  BY <1>1, <1>4, TailDistinct
<1>6. t \in Tasks
  BY <1>1, HeadTailProperties
<1>7. \A x : Occurs(x, q) => Lane(x) = l
  BY <1>1 DEF QueuesSound, Occurs
<1> HIDE DEF t, q, l
<1>8. Queued(t) /\ Lane(t) = l
  BY <1>5, <1>7 DEF Queued, Occurs, q
<1>9. ASSUME NEW u \in Tasks PROVE Queued(u)' <=> Queued(u) /\ u # t
  <2>1. Queued(u)' <=> Occurs(u, queue'[Lane(u)])
    BY DEF Queued, Occurs
  <2>2. Queued(u) <=> Occurs(u, queue[Lane(u)])
    BY DEF Queued, Occurs
  <2>3. CASE Lane(u) = l
    BY <1>3, <1>5, <2>1, <2>2, <2>3 DEF q
  <2>4. CASE Lane(u) # l
    BY <1>3, <1>8, <2>1, <2>2, <2>4, LaneType
  <2>5. QED
    BY <2>3, <2>4
<1>10. QueuesSound'
  <2> SUFFICES ASSUME NEW k \in Lanes
               PROVE  /\ Distinct(queue'[k])
                      /\ \A i \in DOMAIN queue'[k] : Lane(queue'[k][i]) = k
    BY DEF QueuesSound, Distinct
  <2>1. CASE k = l
    <3>1. \A i \in DOMAIN queue'[k] : Occurs(queue'[k][i], q)
      BY <1>3, <1>5, <2>1 DEF Occurs
    <3>2. QED
      BY <1>3, <1>5, <1>7, <2>1, <3>1
  <2>2. CASE k # l
    BY <1>3, <2>2 DEF QueuesSound
  <2>3. QED
    BY <2>1, <2>2
<1>11. QED
  BY <1>6, <1>8, <1>9, <1>10 DEF t, q, l

-------------------------------------------------------------------------------
\* A step that moves no envelope and sets no future.
LEMMA PlacesUnchanged ==
    ASSUME TypeOK, OnePlacePerTask, UNCHANGED <<status, queue, promise, current>>,
           \A w \in Workers : worker'[w] \in InWork => worker[w] \in InWork
    PROVE  OnePlacePerTask'
<1>1. \A t \in Tasks : Queued(t)' <=> Queued(t)
  BY DEF Queued
<1>2. \A t \in Tasks : HeldIn(t, InWork)' => HeldIn(t, InWork)
  BY DEF HeldIn
<1>3. \A w \in Workers : current[w] \in Tasks \cup {NoTask}
  BY DEF TypeOK
<1>4. \A t \in Tasks : Queued(t)' \/ HeldIn(t, InWork)' => status'[t] = "Accepted" /\ promise'[t] = Pending
  BY <1>1, <1>2 DEF OnePlacePerTask, InWork
<1>5. \A w \in Workers : current'[w] # NoTask => Lane(current'[w]) = PoolOf[w] /\ ~Queued(current[w])'
  BY <1>1, <1>3 DEF OnePlacePerTask
<1>6. QED
  BY <1>4, <1>5 DEF OnePlacePerTask, InWork

\* Envelopes are moved from submit to a queue to a worker, and a future is set
\* when nobody else holds the envelope.
LEMMA PlacementStep ==
    ASSUME TypeOK, Placement, OnePlacePerTask, [Next]_vars
    PROVE  Placement' /\ OnePlacePerTask'
<1> USE DEF InWork, Executing
<1>1. ASSUME NEW t \in Tasks,
             Submit(t) \/ RecordAccepted(t) \/ RecordRejected(t) \/ NotifyRejected(t)
               \/ WaitReady(t) \/ WaitTimesOut(t) \/ AbandonWait(t) \/ DeadlinePasses(t)
      PROVE  Placement' /\ OnePlacePerTask'
  <2>1. UNCHANGED <<status, queue, promise, current, worker, outcome>>
    BY <1>1
    DEF Submit, RecordAccepted, RecordRejected, NotifyRejected, WaitReady, WaitTimesOut,
        AbandonWait, DeadlinePasses, pools, submission
  <2>2. Placement'
    <3>1. \A u \in Tasks : /\ status[u] = "none" <=> submitter'[u] \in {"new", "registered"}
                           /\ submitter'[u] \in {"resolving", "notifying"} => status[u] # "Accepted"
      BY <1>1
      DEF Submit, RecordAccepted, RecordRejected, NotifyRejected, WaitReady, WaitTimesOut,
          AbandonWait, DeadlinePasses, submission, Placement, TypeOK
    <3>2. QED
      BY <2>1, <3>1 DEF Placement
  <2>3. QED
    BY <2>1, <2>2, PlacesUnchanged
<1>2. ASSUME NEW t \in Tasks, TryPush(t) PROVE Placement' /\ OnePlacePerTask'
  <2>1. status[t] = "none" /\ promise[t] = Pending
    BY <1>2 DEF TryPush, Placement
  <2>2. ~Queued(t) /\ \A w \in Workers : current[w] # t
    <3>1. ~Queued(t)
      BY <2>1 DEF OnePlacePerTask
    <3>2. \A w \in Workers : current[w] # NoTask => status[current[w]] = "Accepted"
      BY DEF Placement
    <3>3. t # NoTask
      BY TasksAssumption
    <3>4. QED
      BY <2>1, <3>1, <3>2, <3>3
  <2>3. /\ QueuesSound'
        /\ \A u \in Tasks : Queued(u)' <=> Queued(u) \/ (u = t /\ status'[t] = "Accepted")
    BY <1>2, <2>2, OnePlaceParts, PushPlaces
  <2>4. /\ UNCHANGED <<promise, current, worker, outcome>>
        /\ submitter' = [submitter EXCEPT ![t] = "pushed"]
        /\ \A u \in Tasks : u # t => status'[u] = status[u]
        /\ status'[t] # "none"
    <3>1. PushOutcome(QueueFor(t)) # "none"
      BY <1>2, LaneType, LenProperties, PoolsAssumption DEF PushOutcome, QueueFor, TypeOK
    <3>2. QED
      BY <1>2, <3>1 DEF TryPush, pools, TypeOK
  <2>5. Placement'
    BY <2>2, <2>4 DEF Placement, TypeOK
  <2>6. \A u \in Tasks : Queued(u)' \/ HeldIn(u, InWork)'
                            => status'[u] = "Accepted" /\ promise'[u] = Pending
    BY <2>1, <2>2, <2>3, <2>4 DEF OnePlacePerTask, HeldIn
  <2>7. \A w \in Workers : current'[w] # NoTask =>
           Lane(current'[w]) = PoolOf[w] /\ ~Queued(current[w])'
    BY <2>2, <2>3, <2>4 DEF OnePlacePerTask, TypeOK
  <2>8. QED
    BY <2>3, <2>4, <2>5, <2>6, <2>7 DEF OnePlacePerTask, QueuesSound, Distinct
<1>3. ASSUME NEW t \in Tasks, ResolveRejected(t) PROVE Placement' /\ OnePlacePerTask'
  <2>1. status[t] # "Accepted" /\ status[t] # "none"
    BY <1>3 DEF ResolveRejected, Placement
  <2>2. /\ UNCHANGED <<status, queue, current, worker, outcome>>
        /\ \A u \in Tasks : u # t => promise'[u] = promise[u] /\ submitter'[u] = submitter[u]
        /\ submitter'[t] \in {"notifying", "submitted"}
    BY <1>3 DEF ResolveRejected, pools, TypeOK
  <2>3. Placement'
    BY <2>1, <2>2 DEF Placement
  <2>4. \A u \in Tasks : Queued(u)' <=> Queued(u)
    BY <2>2 DEF Queued
  <2>5. \A u \in Tasks : HeldIn(u, InWork)' <=> HeldIn(u, InWork)
    BY <2>2 DEF HeldIn
  <2>6. \A v \in Workers : current'[v] # NoTask =>
           Lane(current'[v]) = PoolOf[v] /\ ~Queued(current[v])'
    BY <2>2, <2>4 DEF OnePlacePerTask, TypeOK
  <2>7. \A u \in Tasks : Queued(u)' \/ HeldIn(u, InWork)'
                            => status'[u] = "Accepted" /\ promise'[u] = Pending
    BY <2>1, <2>2, <2>4, <2>5 DEF OnePlacePerTask
  <2>8. QED
    BY <2>2, <2>3, <2>6, <2>7 DEF OnePlacePerTask
<1>4. ASSUME NEW w \in Workers, Pop(w) PROVE Placement' /\ OnePlacePerTask'
  <2> DEFINE t == Head(queue[PoolOf[w]])
  <2>1. /\ t \in Tasks /\ Queued(t) /\ Lane(t) = PoolOf[w]
        /\ \A u \in Tasks : Queued(u)' <=> Queued(u) /\ u # t
        /\ QueuesSound'
    BY <1>4, OnePlaceParts, PopPlaces
  <2>2. /\ UNCHANGED <<status, promise, submitter, outcome>>
        /\ current' = [current EXCEPT ![w] = t]
        /\ worker' = [worker EXCEPT ![w] = "started"]
        /\ worker[w] = "idle"
    BY <1>4 DEF Pop, MoveWorker, submission
  <2> HIDE DEF t
  <2>3. status[t] = "Accepted" /\ promise[t] = Pending /\ \A v \in Workers : current[v] # t
    BY <2>1, TasksAssumption DEF OnePlacePerTask
  <2>4. /\ current'[w] = t /\ worker'[w] = "started"
        /\ \A v \in Workers : v # w => current'[v] = current[v] /\ worker'[v] = worker[v]
    BY <2>2 DEF TypeOK
  <2>5. Placement'
    <3>1. t # NoTask
      BY <2>1, TasksAssumption
    <3>2. \A v \in Workers : current'[v] = NoTask <=> worker'[v] \in {"idle", "exited"}
      BY <2>4, <3>1 DEF Placement
    <3>3. \A v \in Workers : current'[v] # NoTask => status'[current'[v]] = "Accepted"
      BY <2>2, <2>3, <2>4 DEF Placement
    <3>4. \A v \in Workers : worker'[v] \in {"finished", "recorded"} => outcome'[v] # Pending
      BY <2>2, <2>4 DEF Placement
    <3>5. QED
      BY <2>2, <3>2, <3>3, <3>4 DEF Placement
  <2>6. \A u \in Tasks : Queued(u)' \/ HeldIn(u, InWork)'
                            => status'[u] = "Accepted" /\ promise'[u] = Pending
    BY <2>1, <2>2, <2>3, <2>4 DEF OnePlacePerTask, HeldIn
  <2>7. \A u, v \in Workers : current'[u] = current'[v] /\ current'[u] # NoTask => u = v
    BY <2>3, <2>4 DEF OnePlacePerTask
  <2>8. \A v \in Workers : current'[v] # NoTask =>
           Lane(current'[v]) = PoolOf[v] /\ ~Queued(current[v])'
    <3> SUFFICES ASSUME NEW v \in Workers, current'[v] # NoTask
                 PROVE  Lane(current'[v]) = PoolOf[v] /\ ~Queued(current[v])'
      OBVIOUS
    <3>1. current'[v] \in Tasks
      BY <2>1, <2>4 DEF TypeOK
    <3>2. CASE v = w
      BY <2>1, <2>4, <3>2
    <3>3. CASE v # w
      BY <2>1, <2>4, <3>1, <3>3 DEF OnePlacePerTask
    <3>4. QED
      BY <3>2, <3>3
  <2>9. QED
    BY <2>1, <2>5, <2>6, <2>7, <2>8 DEF OnePlacePerTask, QueuesSound, Distinct
<1>5. ASSUME NEW w \in Workers, Exit(w) \/ CheckRequest(w) \/ CheckDeadline(w)
                                 \/ HandlerReturns(w) \/ RecordFinished(w) \/ Notify(w)
      PROVE  Placement' /\ OnePlacePerTask'
  <2>1. UNCHANGED <<status, queue, promise, current, submitter>>
    BY <1>5 DEF Exit, CheckRequest, CheckDeadline, HandlerReturns, RecordFinished, Notify,
       submission
  <2>2. /\ \A v \in Workers : v # w => worker'[v] = worker[v] /\ outcome'[v] = outcome[v]
        /\ \/ worker[w] = "idle" /\ worker'[w] = "exited"
           \/ worker[w] \in Executing /\ worker'[w] \in {"checked", "handling"}
           \/ worker[w] \in Executing /\ worker'[w] = "finished" /\ outcome'[w] # Pending
           \/ worker[w] = "finished" /\ worker'[w] = "recorded" /\ outcome' = outcome
           \/ worker[w] = "published" /\ worker'[w] = "notified"
    <3> USE DEF MoveWorker, Finish, TypeOK
    <3>1. \A r \in Results : Reply(current[w], r) # Pending
      BY ReplyType DEF Results, Errors, Pending
    <3>2. CASE Exit(w) \/ RecordFinished(w) \/ Notify(w)
      BY <3>2 DEF Exit, RecordFinished, Notify
    <3>3. CASE CheckRequest(w) \/ CheckDeadline(w) \/ HandlerReturns(w)
      <4>1. {"invalid", "cancelled", "timeout", "not_found", "ok", "failed", "unhandled"}
               \subseteq Results
        BY DEF Results, Errors
      <4>2. QED
        BY <3>1, <3>3, <4>1 DEF CheckRequest, CheckDeadline, HandlerReturns
    <3>4. QED
      BY <1>5, <3>2, <3>3
  <2>3. Placement'
    BY <2>1, <2>2 DEF Placement
  <2>4. \A v \in Workers : worker'[v] \in InWork => worker[v] \in InWork
    BY <2>2
  <2>5. QED
    BY <2>1, <2>3, <2>4, PlacesUnchanged
<1>6. ASSUME NEW w \in Workers, Publish(w) PROVE Placement' /\ OnePlacePerTask'
  <2> DEFINE t == current[w]
  <2>1. t \in Tasks /\ status[t] = "Accepted"
    <3>1. worker[w] = "recorded"
      BY <1>6 DEF Publish, MoveWorker
    <3>2. current[w] \in Tasks \cup {NoTask}
      BY DEF TypeOK
    <3>3. QED
      BY <3>1, <3>2 DEF Placement
  <2>2. ~Queued(t) /\ \A v \in Workers : v # w => current[v] # t
    BY <2>1, TasksAssumption DEF OnePlacePerTask
  <2>3. /\ UNCHANGED <<status, queue, current, submitter, outcome>>
        /\ \A u \in Tasks : u # t => promise'[u] = promise[u]
        /\ \A v \in Workers : v # w => worker'[v] = worker[v]
        /\ worker[w] = "recorded" /\ worker'[w] \in {"published", "notified"}
    BY <1>6 DEF Publish, MoveWorker, submission, TypeOK
  <2>4. Placement'
    BY <2>1, <2>3 DEF Placement
  <2>5. \A u \in Tasks : Queued(u)' <=> Queued(u)
    BY <2>3 DEF Queued
  <2>6. \A u \in Tasks : HeldIn(u, InWork)' => HeldIn(u, InWork) /\ u # t
    BY <2>2, <2>3 DEF HeldIn
  <2>7. \A v \in Workers : current'[v] # NoTask =>
           Lane(current'[v]) = PoolOf[v] /\ ~Queued(current[v])'
    BY <2>3, <2>5 DEF OnePlacePerTask, TypeOK
  <2>8. \A u \in Tasks : Queued(u)' \/ HeldIn(u, InWork)'
                            => status'[u] = "Accepted" /\ promise'[u] = Pending
    BY <2>2, <2>3, <2>5, <2>6 DEF OnePlacePerTask
  <2>9. QED
    BY <2>3, <2>4, <2>7, <2>8 DEF OnePlacePerTask
<1>7. ASSUME NEW w \in Workers, UnregisterRequest(w) PROVE Placement' /\ OnePlacePerTask'
  <2>1. /\ UNCHANGED <<status, queue, promise, submitter>>
        /\ \A v \in Workers : v # w => /\ worker'[v] = worker[v] /\ current'[v] = current[v]
                                        /\ outcome'[v] = outcome[v]
        /\ worker'[w] = "idle" /\ current'[w] = NoTask
    BY <1>7 DEF UnregisterRequest, MoveWorker, submission, TypeOK
  <2>2. Placement'
    BY <2>1 DEF Placement
  <2>3. \A u \in Tasks : Queued(u)' <=> Queued(u)
    BY <2>1 DEF Queued
  <2>4. \A u \in Tasks : HeldIn(u, InWork)' => HeldIn(u, InWork)
    BY <2>1 DEF HeldIn
  <2>5. \A v \in Workers : current'[v] # NoTask =>
           Lane(current'[v]) = PoolOf[v] /\ ~Queued(current[v])'
    <3>1. \A v \in Workers : current[v] \in Tasks \cup {NoTask}
      BY DEF TypeOK
    <3>2. \A v \in Workers : current'[v] # NoTask => current'[v] = current[v]
      BY <2>1
    <3>3. \A v \in Workers : current[v] # NoTask =>
             Lane(current[v]) = PoolOf[v] /\ ~Queued(current[v])
      BY DEF OnePlacePerTask
    <3>4. QED
      BY <2>3, <3>1, <3>2, <3>3
  <2>6. \A u \in Tasks : Queued(u)' \/ HeldIn(u, InWork)'
                            => status'[u] = "Accepted" /\ promise'[u] = Pending
    BY <2>1, <2>3, <2>4 DEF OnePlacePerTask
  <2>7. QED
    BY <2>1, <2>2, <2>5, <2>6 DEF OnePlacePerTask
<1>8. ASSUME NEW k \in Keys, CancelRequest(k) PROVE Placement' /\ OnePlacePerTask'
  <2>1. UNCHANGED <<status, queue, promise, current, worker, outcome, submitter>>
    BY <1>8 DEF CancelRequest, pools, submission
  <2>2. QED
    BY <2>1, PlacesUnchanged DEF Placement
<1>9. CASE ClosePool \/ JoinPool \/ UNCHANGED vars
  <2>1. UNCHANGED <<status, queue, promise, current, worker, outcome, submitter>>
    BY <1>9 DEF ClosePool, JoinPool, vars, pools, submission
  <2>2. QED
    BY <2>1, PlacesUnchanged DEF Placement
<1>10. QED
  BY <1>1, <1>2, <1>3, <1>4, <1>5, <1>6, <1>7, <1>8, <1>9 DEF Next, SubmitterStep, WorkerStep

\* Before anything is submitted no envelope is anywhere.
LEMMA InitialPlaces == Init => Placement /\ OnePlacePerTask
<1> SUFFICES ASSUME Init PROVE Placement /\ OnePlacePerTask
  OBVIOUS
<1>1. Placement
  BY DEF Init, Placement
<1>2. \A l \in Lanes : DOMAIN queue[l] = {}
  BY DEF Init
<1>3. \A t \in Tasks : ~Queued(t)
  BY <1>2, LaneType DEF Queued
<1>4. QED
  BY <1>1, <1>2, <1>3 DEF Init, OnePlacePerTask, HeldIn, Executing

\* No envelope is duplicated or resolved while it is queued or executed, for any
\* number of tasks, workers and clients (ownership through std::move and
\* unique_ptr in submit, try_push, wait_pop and worker_loop).
THEOREM EnvelopesHaveOnePlace == Spec => []OnePlacePerTask
  BY InitialPlaces, TypeCorrect, PlacementStep, PTL DEF Spec

-------------------------------------------------------------------------------
\* The workers that still have to run on_completed, or are before that.
ToNotify == InWork \cup {"published"}

\* A step that runs no callback, sets no future and moves no envelope.
LEMMA NotificationUnchanged ==
    ASSUME TypeOK, NotYetNotified, NotifiedOnce,
           UNCHANGED <<status, queue, promise, current, notified>>,
           \A w \in Workers : /\ worker'[w] \in ToNotify => worker[w] \in ToNotify
                              /\ worker'[w] = "published" => worker[w] = "published",
           \A t \in Tasks :
              /\ submitter'[t] \in {"pushed", "resolving", "notifying"}
                    => submitter[t] \in {"pushed", "resolving", "notifying"}
              /\ submitter'[t] = "notifying" => submitter[t] = "notifying"
    PROVE  NotYetNotified' /\ NotifiedOnce'
<1>1. \A t \in Tasks : Queued(t)' <=> Queued(t)
  BY DEF Queued
<1>2. NotYetNotified'
  BY <1>1 DEF NotYetNotified, ToNotify
<1>3. QED
  BY <1>2 DEF NotifiedOnce

\* on_completed is run by one thread: by the submitter for a refused task, by
\* the worker that holds the envelope for an accepted one.
LEMMA NotificationStep ==
    ASSUME TypeOK, Placement, OnePlacePerTask, NotYetNotified, NotifiedOnce, [Next]_vars
    PROVE  NotYetNotified' /\ NotifiedOnce'
<1> USE DEF InWork, Executing, ToNotify
<1>1. ASSUME NEW t \in Tasks,
             Submit(t) \/ RecordAccepted(t) \/ RecordRejected(t)
               \/ WaitReady(t) \/ WaitTimesOut(t) \/ AbandonWait(t) \/ DeadlinePasses(t)
      PROVE  NotYetNotified' /\ NotifiedOnce'
  <2>1. UNCHANGED <<status, queue, promise, current, worker, notified>>
    BY <1>1
    DEF Submit, RecordAccepted, RecordRejected, WaitReady, WaitTimesOut, AbandonWait,
        DeadlinePasses, pools, submission
  <2>2. \A u \in Tasks :
              /\ submitter'[u] \in {"pushed", "resolving", "notifying"}
                    => submitter[u] \in {"pushed", "resolving", "notifying"}
              /\ submitter'[u] = "notifying" => submitter[u] = "notifying"
    BY <1>1
    DEF Submit, RecordAccepted, RecordRejected, WaitReady, WaitTimesOut, AbandonWait,
        DeadlinePasses, submission, TypeOK
  <2>3. QED
    BY <2>1, <2>2, NotificationUnchanged
<1>2. ASSUME NEW t \in Tasks, TryPush(t) PROVE NotYetNotified' /\ NotifiedOnce'
  <2>1. status[t] = "none" /\ notified[t] = 0
    BY <1>2 DEF TryPush, Placement, NotYetNotified
  <2>2. ~Queued(t)
    BY <2>1 DEF OnePlacePerTask
  <2>3. \A u \in Tasks : Queued(u)' => Queued(u) \/ u = t
    BY <1>2, <2>2, OnePlaceParts, PushPlaces
  <2>4. /\ UNCHANGED <<promise, current, worker, notified>>
        /\ \A u \in Tasks : u # t => status'[u] = status[u] /\ submitter'[u] = submitter[u]
        /\ submitter'[t] = "pushed"
    BY <1>2 DEF TryPush, pools, TypeOK
  <2>5. \A u \in Tasks : Queued(u)' \/ status'[u] = "none" => notified'[u] = 0
    BY <2>1, <2>3, <2>4 DEF NotYetNotified
  <2>6. \A u \in Tasks : status'[u] # "Accepted" /\ submitter'[u] \in {"pushed", "resolving", "notifying"}
                            => notified'[u] = 0
    BY <2>1, <2>4 DEF NotYetNotified
  <2>7. QED
    BY <2>4, <2>5, <2>6 DEF NotYetNotified, NotifiedOnce
<1>3. ASSUME NEW t \in Tasks, ResolveRejected(t) PROVE NotYetNotified' /\ NotifiedOnce'
  <2>1. /\ UNCHANGED <<status, queue, current, worker, notified>>
        /\ \A u \in Tasks : u # t => promise'[u] = promise[u] /\ submitter'[u] = submitter[u]
        /\ submitter[t] = "resolving" /\ submitter'[t] \in {"notifying", "submitted"}
        /\ promise'[t] # Pending
    <3>1. Reply(t, Rejection(status[t])) # Pending
      BY ReplyType DEF Rejection, Results, Errors, Pending
    <3>2. QED
      BY <1>3, <3>1 DEF ResolveRejected, pools, TypeOK
  <2>2. status[t] # "Accepted" /\ notified[t] = 0
    BY <2>1 DEF Placement, NotYetNotified
  <2>3. \A u \in Tasks : Queued(u)' <=> Queued(u)
    BY <2>1 DEF Queued
  <2>4. \A w \in Workers : worker[w] = "published" => current[w] \in Tasks /\ current[w] # t
    <3> SUFFICES ASSUME NEW w \in Workers, worker[w] = "published"
                 PROVE  current[w] \in Tasks /\ current[w] # t
      OBVIOUS
    <3>1. current[w] # NoTask /\ status[current[w]] = "Accepted"
      BY DEF Placement
    <3>2. QED
      BY <2>2, <3>1 DEF TypeOK
  <2>5. \A w \in Workers : worker'[w] = "published" => promise'[current'[w]] # Pending
    BY <2>1, <2>4 DEF NotYetNotified
  <2>6. \A u \in Tasks : submitter'[u] = "notifying" => promise'[u] # Pending
    BY <2>1 DEF NotYetNotified
  <2>7. NotYetNotified'
    BY <2>1, <2>2, <2>3, <2>5, <2>6 DEF NotYetNotified
  <2>8. QED
    BY <2>1, <2>2, <2>7 DEF NotifiedOnce
<1>4. ASSUME NEW t \in Tasks, NotifyRejected(t) PROVE NotYetNotified' /\ NotifiedOnce'
  <2>1. /\ UNCHANGED <<status, queue, promise, current, worker>>
        /\ \A u \in Tasks : u # t => notified'[u] = notified[u] /\ submitter'[u] = submitter[u]
        /\ submitter[t] = "notifying" /\ submitter'[t] = "submitted"
        /\ notified'[t] = notified[t] + 1
    BY <1>4 DEF NotifyRejected, pools, TypeOK
  <2>2. /\ status[t] # "Accepted" /\ status[t] # "none"
        /\ promise[t] # Pending /\ notified[t] = 0
    BY <2>1 DEF Placement, NotYetNotified
  <2>3. \A u \in Tasks : Queued(u)' <=> Queued(u)
    BY <2>1 DEF Queued
  <2>4. ~Queued(t) /\ \A w \in Workers : current[w] # NoTask => current[w] \in Tasks /\ current[w] # t
    BY <2>2 DEF OnePlacePerTask, Placement, TypeOK
  <2>5. \A w \in Workers : worker[w] \in ToNotify => notified'[current[w]] = 0
    BY <2>1, <2>4 DEF NotYetNotified, Placement
  <2>6. NotYetNotified'
    BY <2>1, <2>2, <2>3, <2>4, <2>5 DEF NotYetNotified
  <2>7. QED
    BY <2>1, <2>2, <2>6 DEF NotifiedOnce
<1>5. ASSUME NEW w \in Workers, Pop(w) PROVE NotYetNotified' /\ NotifiedOnce'
  <2> DEFINE t == Head(queue[PoolOf[w]])
  <2>1. /\ t \in Tasks /\ Queued(t)
        /\ \A u \in Tasks : Queued(u)' => Queued(u)
    BY <1>5, OnePlaceParts, PopPlaces
  <2>2. /\ UNCHANGED <<status, promise, submitter, notified>>
        /\ current' = [current EXCEPT ![w] = t]
        /\ worker' = [worker EXCEPT ![w] = "started"]
    BY <1>5 DEF Pop, MoveWorker, submission
  <2> HIDE DEF t
  <2>3. /\ current'[w] = t /\ worker'[w] = "started"
        /\ \A v \in Workers : v # w => current'[v] = current[v] /\ worker'[v] = worker[v]
    BY <2>2 DEF TypeOK
  <2>4. QED
    BY <2>1, <2>2, <2>3 DEF NotYetNotified, NotifiedOnce
<1>6. ASSUME NEW w \in Workers, Exit(w) \/ CheckRequest(w) \/ CheckDeadline(w)
                                 \/ HandlerReturns(w) \/ RecordFinished(w) \/ UnregisterRequest(w)
      PROVE  NotYetNotified' /\ NotifiedOnce'
  <2>1. UNCHANGED <<status, queue, promise, notified, submitter>>
    BY <1>6 DEF Exit, CheckRequest, CheckDeadline, HandlerReturns, RecordFinished,
       UnregisterRequest, submission
  <2>2. \A v \in Workers :
           /\ worker'[v] \in ToNotify => worker[v] \in ToNotify /\ current'[v] = current[v]
           /\ worker'[v] = "published" => worker[v] = "published" /\ current'[v] = current[v]
    BY <1>6 DEF Exit, CheckRequest, CheckDeadline, HandlerReturns, RecordFinished,
       UnregisterRequest, MoveWorker, Finish, TypeOK
  <2>3. \A u \in Tasks : Queued(u)' <=> Queued(u)
    BY <2>1 DEF Queued
  <2>4. QED
    BY <2>1, <2>2, <2>3 DEF NotYetNotified, NotifiedOnce
<1>7. ASSUME NEW w \in Workers, Publish(w) PROVE NotYetNotified' /\ NotifiedOnce'
  <2> DEFINE t == current[w]
  <2>1. worker[w] = "recorded" /\ outcome[w] # Pending /\ t \in Tasks
    <3>1. worker[w] = "recorded"
      BY <1>7 DEF Publish, MoveWorker
    <3>2. current[w] \in Tasks \cup {NoTask}
      BY DEF TypeOK
    <3>3. QED
      BY <3>1, <3>2 DEF Placement
  <2>2. /\ UNCHANGED <<status, queue, current, submitter, notified>>
        /\ \A u \in Tasks : u # t => promise'[u] = promise[u]
        /\ promise'[t] # Pending
        /\ \A v \in Workers : v # w => worker'[v] = worker[v]
        /\ worker'[w] \in {"published", "notified"}
    BY <1>7, <2>1 DEF Publish, MoveWorker, submission, TypeOK
  <2>3. \A u \in Tasks : promise[u] # Pending => promise'[u] # Pending
    BY <2>2
  <2>4. \A u \in Tasks : Queued(u)' <=> Queued(u)
    BY <2>2 DEF Queued
  <2>5. \A v \in Workers : worker'[v] = "published" => promise'[current'[v]] # Pending
    <3> SUFFICES ASSUME NEW v \in Workers, worker'[v] = "published"
                 PROVE  promise'[current[v]] # Pending
      BY <2>2
    <3>1. CASE v = w
      BY <2>2, <3>1
    <3>2. CASE v # w
      <4>1. worker[v] = "published" /\ promise[current[v]] # Pending
        BY <2>2, <3>2 DEF NotYetNotified
      <4>2. current[v] \in Tasks
        BY <4>1 DEF Placement, TypeOK
      <4>3. QED
        BY <2>3, <4>1, <4>2
    <3>3. QED
      BY <3>1, <3>2
  <2>6. NotYetNotified'
    BY <2>1, <2>2, <2>3, <2>4, <2>5 DEF NotYetNotified
  <2>7. QED
    BY <2>2, <2>3, <2>6 DEF NotifiedOnce
<1>8. ASSUME NEW w \in Workers, Notify(w) PROVE NotYetNotified' /\ NotifiedOnce'
  <2> DEFINE t == current[w]
  <2>1. worker[w] = "published" /\ t \in Tasks /\ status[t] = "Accepted"
    <3>1. worker[w] = "published"
      BY <1>8 DEF Notify, MoveWorker
    <3>2. current[w] \in Tasks \cup {NoTask}
      BY DEF TypeOK
    <3>3. QED
      BY <3>1, <3>2 DEF Placement
  <2>2. notified[t] = 0 /\ promise[t] # Pending
    BY <2>1 DEF NotYetNotified
  <2>3. ~Queued(t) /\ \A v \in Workers : v # w => current[v] # t
    BY <2>1, TasksAssumption DEF OnePlacePerTask
  <2>4. /\ UNCHANGED <<status, queue, current, submitter, promise>>
        /\ \A u \in Tasks : u # t => notified'[u] = notified[u]
        /\ notified'[t] = notified[t] + 1
        /\ \A v \in Workers : v # w => worker'[v] = worker[v]
        /\ worker'[w] = "notified"
    BY <1>8, <2>1 DEF Notify, MoveWorker, submission, TypeOK
  <2>5. \A u \in Tasks : Queued(u)' <=> Queued(u)
    BY <2>4 DEF Queued
  <2>6. \A v \in Workers : worker'[v] \in ToNotify => notified'[current'[v]] = 0
    <3> SUFFICES ASSUME NEW v \in Workers, worker'[v] \in ToNotify
                 PROVE  notified'[current[v]] = 0
      BY <2>4
    <3>1. v # w /\ worker[v] \in ToNotify
      BY <2>4
    <3>2. current[v] \in Tasks /\ current[v] # t
      BY <2>3, <3>1 DEF Placement, TypeOK
    <3>3. QED
      BY <2>4, <3>1, <3>2 DEF NotYetNotified
  <2>7. NotYetNotified'
    BY <2>1, <2>2, <2>3, <2>4, <2>5, <2>6 DEF NotYetNotified
  <2>8. QED
    BY <2>2, <2>4, <2>7 DEF NotifiedOnce
<1>9. CASE (\E k \in Keys : CancelRequest(k)) \/ ClosePool \/ JoinPool \/ UNCHANGED vars
  <2>1. UNCHANGED <<status, queue, promise, current, worker, submitter, notified>>
    BY <1>9 DEF CancelRequest, ClosePool, JoinPool, vars, pools, submission
  <2>2. QED
    BY <2>1, NotificationUnchanged
<1>10. QED
  BY <1>1, <1>2, <1>3, <1>4, <1>5, <1>6, <1>7, <1>8, <1>9 DEF Next, SubmitterStep, WorkerStep

\* The completion callback of a request runs at most once and not before the
\* future is set, whichever of submit and worker_loop ends the request.
THEOREM CallbacksRunOnce == Spec => []NotifiedOnce
<1>1. Init => Placement /\ OnePlacePerTask /\ NotYetNotified /\ NotifiedOnce
  <2>1. Init => NotYetNotified /\ NotifiedOnce
    BY DEF Init, NotYetNotified, NotifiedOnce, InWork, Executing
  <2>2. QED
    BY <2>1, InitialPlaces
<1>2. QED
  BY <1>1, TypeCorrect, PlacementStep, NotificationStep, PTL DEF Spec

-------------------------------------------------------------------------------
\* A step that moves no envelope, refuses or accepts nothing and unsets nothing.
LEMMA NothingDroppedUnchanged ==
    ASSUME TypeOK, NothingDropped, UNCHANGED <<status, queue, promise, current, notified>>,
           \A w \in Workers : /\ worker[w] \in InWork => worker'[w] \in InWork
                              /\ worker[w] \in ToNotify => worker'[w] \in ToNotify
    PROVE  NothingDropped'
<1>1. \A t \in Tasks : Queued(t)' <=> Queued(t)
  BY DEF Queued
<1>2. \A t \in Tasks : /\ HeldIn(t, InWork) => HeldIn(t, InWork)'
                       /\ HeldIn(t, ToNotify) => HeldIn(t, ToNotify)'
  BY DEF HeldIn
<1>3. QED
  BY <1>1, <1>2 DEF NothingDropped, ToNotify

\* An accepted envelope stays in its queue until a worker takes it, and with the
\* worker until its future is set and its callback has run.
LEMMA NothingDroppedStep ==
    ASSUME TypeOK, Placement, OnePlacePerTask, NothingDropped, [Next]_vars
    PROVE  NothingDropped'
<1> USE DEF InWork, Executing, ToNotify
<1>1. ASSUME NEW t \in Tasks,
             Submit(t) \/ RecordAccepted(t) \/ RecordRejected(t)
               \/ WaitReady(t) \/ WaitTimesOut(t) \/ AbandonWait(t) \/ DeadlinePasses(t)
      PROVE  NothingDropped'
  <2>1. UNCHANGED <<status, queue, promise, current, worker, notified>>
    BY <1>1
    DEF Submit, RecordAccepted, RecordRejected, WaitReady, WaitTimesOut, AbandonWait,
        DeadlinePasses, pools, submission
  <2>2. QED
    BY <2>1, NothingDroppedUnchanged
<1>2. ASSUME NEW t \in Tasks, TryPush(t) PROVE NothingDropped'
  <2>1. status[t] = "none"
    BY <1>2 DEF TryPush, Placement
  <2>2. ~Queued(t)
    BY <2>1 DEF OnePlacePerTask
  <2>3. \A u \in Tasks : Queued(u)' <=> Queued(u) \/ (u = t /\ status'[t] = "Accepted")
    BY <1>2, <2>2, OnePlaceParts, PushPlaces
  <2>4. /\ UNCHANGED <<promise, current, worker, notified>>
        /\ \A u \in Tasks : u # t => status'[u] = status[u]
    BY <1>2 DEF TryPush, pools, TypeOK
  <2>5. \A u \in Tasks : /\ HeldIn(u, InWork) <=> HeldIn(u, InWork)'
                         /\ HeldIn(u, ToNotify) <=> HeldIn(u, ToNotify)'
    BY <2>4 DEF HeldIn
  <2>6. QED
    BY <2>3, <2>4, <2>5 DEF NothingDropped
<1>3. ASSUME NEW t \in Tasks, ResolveRejected(t) \/ NotifyRejected(t) PROVE NothingDropped'
  <2>1. /\ UNCHANGED <<status, queue, current, worker>>
        /\ \A u \in Tasks : u # t => promise'[u] = promise[u] /\ notified'[u] = notified[u]
    BY <1>3 DEF ResolveRejected, NotifyRejected, pools, TypeOK
  <2>2. status[t] # "Accepted"
    BY <1>3 DEF ResolveRejected, NotifyRejected, Placement
  <2>3. \A u \in Tasks : Queued(u)' <=> Queued(u)
    BY <2>1 DEF Queued
  <2>4. \A u \in Tasks : /\ HeldIn(u, InWork) <=> HeldIn(u, InWork)'
                         /\ HeldIn(u, ToNotify) <=> HeldIn(u, ToNotify)'
    BY <2>1 DEF HeldIn
  <2>5. QED
    BY <2>1, <2>2, <2>3, <2>4 DEF NothingDropped
<1>4. ASSUME NEW w \in Workers, Pop(w) PROVE NothingDropped'
  <2> DEFINE t == Head(queue[PoolOf[w]])
  <2>1. \A u \in Tasks : Queued(u)' <=> Queued(u) /\ u # t
    BY <1>4, OnePlaceParts, PopPlaces
  <2>2. /\ UNCHANGED <<status, promise, notified>>
        /\ current'[w] = t /\ worker'[w] = "started" /\ worker[w] = "idle"
        /\ \A v \in Workers : v # w => current'[v] = current[v] /\ worker'[v] = worker[v]
    BY <1>4 DEF Pop, MoveWorker, submission, TypeOK
  <2>3. \A u \in Tasks : /\ HeldIn(u, InWork) \/ u = t => HeldIn(u, InWork)'
                         /\ HeldIn(u, ToNotify) \/ u = t => HeldIn(u, ToNotify)'
    BY <2>2 DEF HeldIn
  <2>4. QED
    BY <2>1, <2>2, <2>3 DEF NothingDropped
<1>5. ASSUME NEW w \in Workers, Exit(w) \/ CheckRequest(w) \/ CheckDeadline(w)
                                 \/ HandlerReturns(w) \/ RecordFinished(w)
      PROVE  NothingDropped'
  <2>1. UNCHANGED <<status, queue, promise, current, notified>>
    BY <1>5 DEF Exit, CheckRequest, CheckDeadline, HandlerReturns, RecordFinished, submission
  <2>2. \A v \in Workers : /\ worker[v] \in InWork => worker'[v] \in InWork
                           /\ worker[v] \in ToNotify => worker'[v] \in ToNotify
    BY <1>5 DEF Exit, CheckRequest, CheckDeadline, HandlerReturns, RecordFinished,
       MoveWorker, Finish, TypeOK
  <2>3. QED
    BY <2>1, <2>2, NothingDroppedUnchanged
<1>6. ASSUME NEW w \in Workers, Publish(w) PROVE NothingDropped'
  <2> DEFINE t == current[w]
  <2>1. worker[w] = "recorded" /\ outcome[w] # Pending /\ t \in Tasks
    <3>1. worker[w] = "recorded"
      BY <1>6 DEF Publish, MoveWorker
    <3>2. current[w] \in Tasks \cup {NoTask}
      BY DEF TypeOK
    <3>3. QED
      BY <3>1, <3>2 DEF Placement
  <2>2. /\ UNCHANGED <<status, queue, current, notified>>
        /\ \A u \in Tasks : u # t => promise'[u] = promise[u]
        /\ promise'[t] # Pending
        /\ \A v \in Workers : v # w => worker'[v] = worker[v]
        /\ Entry[t] = "callback" => worker'[w] = "published"
    BY <1>6, <2>1 DEF Publish, MoveWorker, submission, TypeOK
  <2>3. \A u \in Tasks : Queued(u)' <=> Queued(u)
    BY <2>2 DEF Queued
  <2>4. \A u \in Tasks : /\ HeldIn(u, InWork) /\ u # t => HeldIn(u, InWork)'
                         /\ HeldIn(u, ToNotify) /\ u # t => HeldIn(u, ToNotify)'
                         /\ Entry[t] = "callback" => HeldIn(t, ToNotify)'
    BY <2>2 DEF HeldIn
  <2>5. QED
    BY <2>1, <2>2, <2>3, <2>4 DEF NothingDropped
<1>7. ASSUME NEW w \in Workers, Notify(w) PROVE NothingDropped'
  <2> DEFINE t == current[w]
  <2>1. worker[w] = "published" /\ t \in Tasks
    <3>1. worker[w] = "published"
      BY <1>7 DEF Notify, MoveWorker
    <3>2. current[w] \in Tasks \cup {NoTask}
      BY DEF TypeOK
    <3>3. QED
      BY <3>1, <3>2 DEF Placement
  <2>2. /\ UNCHANGED <<status, queue, current, promise>>
        /\ \A u \in Tasks : u # t => notified'[u] = notified[u]
        /\ notified'[t] # 0
        /\ \A v \in Workers : v # w => worker'[v] = worker[v]
    BY <1>7, <2>1 DEF Notify, MoveWorker, submission, TypeOK
  <2>3. \A u \in Tasks : Queued(u)' <=> Queued(u)
    BY <2>2 DEF Queued
  <2>4. \A u \in Tasks : /\ HeldIn(u, InWork) => HeldIn(u, InWork)'
                         /\ HeldIn(u, ToNotify) /\ u # t => HeldIn(u, ToNotify)'
    BY <2>1, <2>2 DEF HeldIn
  <2>5. QED
    BY <2>1, <2>2, <2>3, <2>4 DEF NothingDropped
<1>8. ASSUME NEW w \in Workers, UnregisterRequest(w) PROVE NothingDropped'
  <2>1. /\ UNCHANGED <<status, queue, promise, notified>>
        /\ worker[w] = "notified"
        /\ \A v \in Workers : v # w => worker'[v] = worker[v] /\ current'[v] = current[v]
    BY <1>8 DEF UnregisterRequest, MoveWorker, submission, TypeOK
  <2>2. \A u \in Tasks : Queued(u)' <=> Queued(u)
    BY <2>1 DEF Queued
  <2>3. \A u \in Tasks : /\ HeldIn(u, InWork) => HeldIn(u, InWork)'
                         /\ HeldIn(u, ToNotify) => HeldIn(u, ToNotify)'
    BY <2>1 DEF HeldIn
  <2>4. QED
    BY <2>1, <2>2, <2>3 DEF NothingDropped
<1>9. CASE (\E k \in Keys : CancelRequest(k)) \/ ClosePool \/ JoinPool \/ UNCHANGED vars
  <2>1. UNCHANGED <<status, queue, promise, current, worker, notified>>
    BY <1>9 DEF CancelRequest, ClosePool, JoinPool, vars, pools, submission
  <2>2. QED
    BY <2>1, NothingDroppedUnchanged
<1>10. QED
  BY <1>1, <1>2, <1>3, <1>4, <1>5, <1>6, <1>7, <1>8, <1>9 DEF Next, SubmitterStep, WorkerStep

\* A closed and drained queue stays so, and a joined pool has left it that way.
LEMMA ExitedDrainedStep ==
    ASSUME TypeOK, ExitedDrained, [Next]_vars
    PROVE  ExitedDrained'
<1>1. \A l \in Lanes : closed[l] => closed'[l]
  <2>1. closed' = closed \/ ClosePool
    BY DEF Next, SubmitterStep, WorkerStep, Submit, TryPush, RecordAccepted, RecordRejected,
       ResolveRejected, NotifyRejected, WaitReady, WaitTimesOut, AbandonWait, DeadlinePasses,
       Pop, Exit, CheckRequest, CheckDeadline, HandlerReturns, RecordFinished, Publish,
       Notify, UnregisterRequest, CancelRequest, JoinPool, vars
  <2>2. QED
    BY <2>1 DEF ClosePool, TypeOK
<1>2. \A l \in Lanes : MayExit(l) => queue'[l] = <<>>
  <2>1. ASSUME NEW t \in Tasks, TryPush(t), NEW l \in Lanes, MayExit(l) PROVE queue'[l] = <<>>
    BY <2>1, LaneType DEF TryPush, QueueFor, PushOutcome, MayExit, TypeOK
  <2>2. ASSUME NEW w \in Workers, Pop(w), NEW l \in Lanes, MayExit(l) PROVE queue'[l] = <<>>
    BY <2>2, PoolsAssumption DEF Pop, MayExit, TypeOK
  <2>3. CASE queue' = queue
    BY <2>3 DEF MayExit
  <2>4. QED
    BY <2>1, <2>2, <2>3
    DEF Next, SubmitterStep, WorkerStep, Submit, RecordAccepted, RecordRejected,
        ResolveRejected, NotifyRejected, WaitReady, WaitTimesOut, AbandonWait, DeadlinePasses,
        Exit, CheckRequest, CheckDeadline, HandlerReturns, RecordFinished, Publish,
        Notify, UnregisterRequest, CancelRequest, ClosePool, JoinPool, vars
<1>3. \A l \in Lanes : MayExit(l) => MayExit(l)'
  BY <1>1, <1>2 DEF MayExit
<1>4. \A w \in Workers : worker[w] = "exited" => worker'[w] = "exited"
  <2>1. CASE worker' = worker
    BY <2>1
  <2>2. ASSUME NEW v \in Workers, WorkerStep(v) \/ HandlerReturns(v)
        PROVE  \A w \in Workers : worker[w] = "exited" => worker'[w] = "exited"
    BY <2>2 DEF WorkerStep, Pop, Exit, CheckRequest, CheckDeadline, HandlerReturns,
       RecordFinished, Publish, Notify, UnregisterRequest, MoveWorker, Finish, TypeOK
  <2>3. QED
    BY <2>1, <2>2
    DEF Next, SubmitterStep, Submit, TryPush, RecordAccepted, RecordRejected,
        ResolveRejected, NotifyRejected, WaitReady, WaitTimesOut, AbandonWait, DeadlinePasses,
        CancelRequest, ClosePool, JoinPool, pools, vars
<1>5. \A w \in Workers : worker'[w] = "exited" => MayExit(PoolOf[w])
  <2>1. CASE worker' = worker
    BY <2>1 DEF ExitedDrained
  <2>2. ASSUME NEW v \in Workers, WorkerStep(v) \/ HandlerReturns(v)
        PROVE  \A w \in Workers : worker'[w] = "exited" => MayExit(PoolOf[w])
    <3>1. \A w \in Workers : worker'[w] = "exited" => worker[w] = "exited" \/ Exit(w)
      BY <2>2 DEF WorkerStep, Pop, CheckRequest, CheckDeadline, HandlerReturns, Exit,
         RecordFinished, Publish, Notify, UnregisterRequest, MoveWorker, Finish, TypeOK
    <3>2. QED
      BY <3>1 DEF Exit, ExitedDrained
  <2>3. QED
    BY <2>1, <2>2
    DEF Next, SubmitterStep, Submit, TryPush, RecordAccepted, RecordRejected,
        ResolveRejected, NotifyRejected, WaitReady, WaitTimesOut, AbandonWait, DeadlinePasses,
        CancelRequest, ClosePool, JoinPool, pools, vars
<1>6. \A w \in Workers : worker'[w] = "exited" => MayExit(PoolOf[w])'
  BY <1>3, <1>5, PoolsAssumption
<1>7. Len(ShutdownOrder) = 4 /\ \A i \in 1..4 : ShutdownOrder[i] \in Lanes
  BY DEF ShutdownOrder, Lanes
<1>8. joined \in 0..4
  BY <1>7 DEF TypeOK
<1>9. \A i \in 1..joined' : closed'[ShutdownOrder[i]] /\ PoolExited(ShutdownOrder[i])'
  <2>1. \A i \in 1..joined : closed'[ShutdownOrder[i]] /\ PoolExited(ShutdownOrder[i])'
    BY <1>1, <1>4, <1>7, <1>8 DEF ExitedDrained, PoolExited
  <2>2. CASE joined' = joined
    BY <2>1, <2>2
  <2>3. CASE JoinPool
    <3>1. /\ joined' = joined + 1 /\ joined + 1 \in 1..4
          /\ closed[ShutdownOrder[joined + 1]] /\ PoolExited(ShutdownOrder[joined + 1])
      BY <1>7, <1>8, <2>3 DEF JoinPool
    <3>2. ASSUME NEW i \in 1..4, i = joined + 1
          PROVE  closed'[ShutdownOrder[i]] /\ PoolExited(ShutdownOrder[i])'
      BY <1>1, <1>4, <1>7, <3>1, <3>2 DEF PoolExited
    <3>3. \A i \in 1..joined' : i \in 1..joined \/ (i \in 1..4 /\ i = joined + 1)
      BY <1>8, <3>1
    <3>4. QED
      BY <2>1, <3>2, <3>3
  <2>4. QED
    BY <2>2, <2>3
    DEF Next, SubmitterStep, WorkerStep, Submit, TryPush, RecordAccepted, RecordRejected,
        ResolveRejected, NotifyRejected, WaitReady, WaitTimesOut, AbandonWait, DeadlinePasses,
        Pop, Exit, CheckRequest, CheckDeadline, HandlerReturns, RecordFinished, Publish,
        Notify, UnregisterRequest, CancelRequest, ClosePool, vars
<1>10. QED
  BY <1>6, <1>9 DEF ExitedDrained

\* When shutdown() returns, whatever it raced with, every task that a submit
\* accepted has its future set and its callback run: the workers that were
\* joined left empty, closed queues, and each lane has a worker.
THEOREM ShutdownLosesNothing == Spec => []ShutdownAnswersAccepted
<1>1. Init => Placement /\ OnePlacePerTask /\ NothingDropped /\ ExitedDrained
  <2>1. Init => NothingDropped /\ ExitedDrained
    BY DEF Init, NothingDropped, ExitedDrained
  <2>2. QED
    BY <2>1, InitialPlaces
<1>2. ASSUME TypeOK, Placement, OnePlacePerTask, NotifiedOnce, NothingDropped, ExitedDrained
      PROVE  ShutdownAnswersAccepted
  <2> SUFFICES ASSUME joined = Len(ShutdownOrder), NEW t \in Tasks, status[t] = "Accepted"
               PROVE  promise[t] # Pending /\ (Entry[t] = "callback" => notified[t] = 1)
    BY DEF ShutdownAnswersAccepted
  <2>1. \A l \in Lanes : \E i \in 1..joined : ShutdownOrder[i] = l
    <3>1. /\ joined = 4
          /\ ShutdownOrder[1] = "Tool" /\ ShutdownOrder[2] = "Resource"
          /\ ShutdownOrder[3] = "Prompt" /\ ShutdownOrder[4] = "Default"
      BY DEF ShutdownOrder
    <3>2. QED
      BY <3>1 DEF Lanes
  <2>2. \A w \in Workers : worker[w] = "exited"
    <3> SUFFICES ASSUME NEW w \in Workers PROVE worker[w] = "exited"
      OBVIOUS
    <3>1. PICK i \in 1..joined : ShutdownOrder[i] = PoolOf[w]
      BY <2>1, PoolsAssumption
    <3>2. PoolExited(PoolOf[w])
      BY <1>2, <3>1 DEF ExitedDrained
    <3>3. QED
      BY <3>2 DEF PoolExited
  <2>3. ~HeldIn(t, ToNotify) /\ ~HeldIn(t, InWork)
    BY <2>2 DEF HeldIn, ToNotify, InWork, Executing
  <2>4. queue[Lane(t)] = <<>>
    <3>1. PICK w \in Workers : PoolOf[w] = Lane(t)
      BY LaneType, PoolsAssumption
    <3>2. QED
      <4>1. MayExit(PoolOf[w])
        BY <1>2, <2>2 DEF ExitedDrained
      <4>2. QED
        BY <3>1, <4>1 DEF MayExit
  <2>5. ~Queued(t)
    BY <2>4 DEF Queued
  <2>6. promise[t] # Pending
    BY <1>2, <2>3, <2>5 DEF NothingDropped
  <2>7. ASSUME Entry[t] = "callback" PROVE notified[t] = 1
    <3>1. notified[t] # 0
      BY <1>2, <2>3, <2>5, <2>7 DEF NothingDropped, ToNotify
    <3>2. notified[t] \in Nat /\ notified[t] <= 1
      BY <1>2 DEF NotifiedOnce, TypeOK
    <3>3. QED
      BY <3>1, <3>2
  <2>8. QED
    BY <2>6, <2>7
<1>3. QED
  BY <1>1, <1>2, TypeCorrect, PlacementStep, CallbacksRunOnce, NothingDroppedStep,
     ExitedDrainedStep, PTL DEF Spec

-------------------------------------------------------------------------------
\* In submit, with the token registered.
InSubmit(t) ==
    \/ submitter[t] = "registered"
    \/ submitter[t] = "pushed" /\ status[t] # "Accepted"

LEMMA LiveMeans ==
    ASSUME TypeOK, NEW t \in Tasks
    PROVE  Live(t) <=> InSubmit(t) \/ Queued(t) \/ \E w \in Workers : current[w] = t
  BY DEF TypeOK, Live, InSubmit, HeldIn

LEMMA LiveMeansNext ==
    ASSUME TypeOK', NEW t \in Tasks
    PROVE  Live(t)' <=> InSubmit(t)' \/ Queued(t)' \/ \E w \in Workers : current'[w] = t
  BY DEF TypeOK, Live, InSubmit, HeldIn

LEMMA LiveUnchanged ==
    ASSUME TypeOK, TypeOK', UNCHANGED <<queue, current>>,
           \A u \in Tasks : InSubmit(u)' <=> InSubmit(u)
    PROVE  \A u \in Tasks : Live(u)' <=> Live(u)
<1>1. \A u \in Tasks : Queued(u)' <=> Queued(u)
  BY DEF Queued
<1>2. QED
  BY <1>1, LiveMeans, LiveMeansNext

\* Registration and life of a request begin together in submit and end together
\* in submit or worker_loop.
LEMMA LiveStep ==
    ASSUME TypeOK, TypeOK', Placement, OnePlacePerTask, [Next]_vars
    PROVE  \/ registry' = registry /\ \A u \in Tasks : Live(u)' <=> Live(u)
           \/ \E t \in Tasks : /\ Submit(t) /\ registry' = RegisterToken(t)
                              /\ \A u \in Tasks : Live(u)' <=> Live(u) \/ u = t
           \/ \E t \in Tasks : /\ Live(t) /\ registry' = UnregisterToken(t)
                              /\ \A u \in Tasks : Live(u)' <=> Live(u) /\ u # t
<1> DEFINE Same == registry' = registry /\ \A u \in Tasks : Live(u)' <=> Live(u)
<1>1. ASSUME NEW t \in Tasks,
             RecordAccepted(t) \/ ResolveRejected(t) \/ NotifyRejected(t)
               \/ WaitReady(t) \/ WaitTimesOut(t) \/ AbandonWait(t) \/ DeadlinePasses(t)
      PROVE  Same
  <2>1. UNCHANGED <<queue, current, registry, status>>
    BY <1>1
    DEF RecordAccepted, ResolveRejected, NotifyRejected, WaitReady, WaitTimesOut, AbandonWait,
        DeadlinePasses, pools, submission
  <2>2. \A u \in Tasks : InSubmit(u)' <=> InSubmit(u)
    BY <1>1
    DEF RecordAccepted, ResolveRejected, NotifyRejected, WaitReady, WaitTimesOut, AbandonWait,
        DeadlinePasses, submission, TypeOK, InSubmit
  <2>3. QED
    BY <2>1, <2>2, LiveUnchanged
<1>2. ASSUME NEW t \in Tasks, Submit(t)
      PROVE  registry' = RegisterToken(t) /\ \A u \in Tasks : Live(u)' <=> Live(u) \/ u = t
  <2>1. /\ UNCHANGED <<queue, current, status>> /\ registry' = RegisterToken(t)
        /\ submitter'[t] = "registered"
        /\ \A u \in Tasks : u # t => submitter'[u] = submitter[u]
    BY <1>2 DEF Submit, pools, TypeOK
  <2>2. \A u \in Tasks : Queued(u)' <=> Queued(u)
    BY <2>1 DEF Queued
  <2>3. \A u \in Tasks : InSubmit(u)' <=> InSubmit(u) \/ u = t
    BY <2>1 DEF InSubmit
  <2>4. QED
    BY <2>1, <2>2, <2>3, LiveMeans, LiveMeansNext
<1>3. ASSUME NEW t \in Tasks, TryPush(t) PROVE Same
  <2>1. submitter[t] = "registered" /\ status[t] = "none"
    BY <1>3 DEF TryPush, Placement
  <2>2. ~Queued(t)
    BY <2>1 DEF OnePlacePerTask
  <2>3. \A u \in Tasks : Queued(u)' <=> Queued(u) \/ (u = t /\ status'[t] = "Accepted")
    BY <1>3, <2>2, OnePlaceParts, PushPlaces
  <2>4. /\ UNCHANGED <<current, registry>> /\ submitter'[t] = "pushed"
        /\ \A u \in Tasks : u # t => submitter'[u] = submitter[u] /\ status'[u] = status[u]
    BY <1>3 DEF TryPush, pools, TypeOK
  <2>5. \A u \in Tasks : u # t => (InSubmit(u)' <=> InSubmit(u))
    BY <2>4 DEF InSubmit
  <2>6. InSubmit(t) /\ (InSubmit(t)' <=> status'[t] # "Accepted")
    BY <2>1, <2>4 DEF InSubmit
  <2>7. QED
    BY <2>3, <2>4, <2>5, <2>6, LiveMeans, LiveMeansNext
<1>4. ASSUME NEW t \in Tasks, RecordRejected(t)
      PROVE  /\ Live(t) /\ registry' = UnregisterToken(t)
             /\ \A u \in Tasks : Live(u)' <=> Live(u) /\ u # t
  <2>1. /\ UNCHANGED <<queue, current, status>> /\ registry' = UnregisterToken(t)
        /\ submitter[t] = "pushed" /\ submitter'[t] = "resolving" /\ status[t] # "Accepted"
        /\ \A u \in Tasks : u # t => submitter'[u] = submitter[u]
    BY <1>4 DEF RecordRejected, pools, TypeOK
  <2>2. \A u \in Tasks : Queued(u)' <=> Queued(u)
    BY <2>1 DEF Queued
  <2>3. InSubmit(t) /\ \A u \in Tasks : InSubmit(u)' <=> InSubmit(u) /\ u # t
    BY <2>1 DEF InSubmit
  <2>4. ~Queued(t)
    BY <2>1 DEF OnePlacePerTask
  <2>5. \A w \in Workers : current[w] # t
    <3>1. t # NoTask
      BY TasksAssumption
    <3>2. \A w \in Workers : current[w] # NoTask => status[current[w]] = "Accepted"
      BY DEF Placement
    <3>3. status[t] # "Accepted"
      BY <2>1
    <3>4. QED
      BY <3>1, <3>2, <3>3
  <2>6. QED
    BY <2>1, <2>2, <2>3, <2>4, <2>5, LiveMeans, LiveMeansNext
<1>5. ASSUME NEW w \in Workers, Pop(w) PROVE Same
  <2> DEFINE t == Head(queue[PoolOf[w]])
  <2>1. t \in Tasks /\ Queued(t) /\ \A u \in Tasks : Queued(u)' <=> Queued(u) /\ u # t
    BY <1>5, OnePlaceParts, PopPlaces
  <2>2. /\ UNCHANGED <<status, submitter, registry>>
        /\ worker[w] = "idle" /\ current'[w] = t
        /\ \A v \in Workers : v # w => current'[v] = current[v]
    BY <1>5 DEF Pop, MoveWorker, submission, TypeOK
  <2>3. current[w] \notin Tasks
    BY <2>2, TasksAssumption DEF Placement
  <2> HIDE DEF t
  <2>4. \A u \in Tasks : (\E v \in Workers : current'[v] = u)
                           <=> (\E v \in Workers : current[v] = u) \/ u = t
    BY <2>2, <2>3
  <2>5. \A u \in Tasks : InSubmit(u)' <=> InSubmit(u)
    BY <2>2 DEF InSubmit
  <2>6. QED
    BY <2>1, <2>2, <2>4, <2>5, LiveMeans, LiveMeansNext
<1>6. ASSUME NEW w \in Workers, Exit(w) \/ CheckRequest(w) \/ CheckDeadline(w)
                    \/ HandlerReturns(w) \/ RecordFinished(w) \/ Publish(w) \/ Notify(w)
      PROVE  Same
  <2>1. UNCHANGED <<queue, current, registry, status, submitter>>
    BY <1>6 DEF Exit, CheckRequest, CheckDeadline, HandlerReturns, RecordFinished, Publish,
       Notify, submission
  <2>2. QED
    BY <2>1, LiveUnchanged DEF InSubmit
<1>7. ASSUME NEW w \in Workers, UnregisterRequest(w)
      PROVE  \E t \in Tasks : /\ Live(t) /\ registry' = UnregisterToken(t)
                             /\ \A u \in Tasks : Live(u)' <=> Live(u) /\ u # t
  <2> DEFINE t == current[w]
  <2>1. /\ UNCHANGED <<queue, submitter, status>> /\ registry' = UnregisterToken(t)
        /\ worker[w] = "notified" /\ current'[w] = NoTask
        /\ \A v \in Workers : v # w => current'[v] = current[v]
    BY <1>7 DEF UnregisterRequest, MoveWorker, submission, TypeOK
  <2>2. t \in Tasks /\ status[t] = "Accepted"
    <3>1. t \in Tasks \cup {NoTask}
      BY DEF TypeOK
    <3>2. QED
      BY <2>1, <3>1 DEF Placement
  <2>3. /\ ~Queued(t) /\ ~InSubmit(t)
        /\ \A v \in Workers : v # w => current[v] # t
    BY <2>2, TasksAssumption DEF OnePlacePerTask, InSubmit, Placement
  <2> HIDE DEF t
  <2>4. \A u \in Tasks : (\E v \in Workers : current'[v] = u)
                           <=> (\E v \in Workers : current[v] = u) /\ u # t
    BY <2>1, <2>3, TasksAssumption DEF t
  <2>5. \A u \in Tasks : (InSubmit(u)' <=> InSubmit(u)) /\ (Queued(u)' <=> Queued(u))
    BY <2>1 DEF InSubmit, Queued
  <2>6. Live(t)
    BY <2>2, LiveMeans DEF t
  <2>7. \A u \in Tasks : Live(u)' <=> Live(u) /\ u # t
    BY <2>3, <2>4, <2>5, LiveMeans, LiveMeansNext
  <2>8. QED
    BY <2>1, <2>2, <2>6, <2>7
<1>8. CASE (\E k \in Keys : CancelRequest(k)) \/ ClosePool \/ JoinPool \/ UNCHANGED vars
  <2>1. UNCHANGED <<queue, current, registry, status, submitter>>
    BY <1>8 DEF CancelRequest, ClosePool, JoinPool, vars, pools, submission
  <2>2. QED
    BY <2>1, LiveUnchanged DEF InSubmit
<1>9. QED
  BY <1>1, <1>2, <1>3, <1>4, <1>5, <1>6, <1>7, <1>8 DEF Next, SubmitterStep, WorkerStep

\* The registry holds no token of a request that is over, whatever ids clients
\* choose (register_request and unregister_request on every path of submit and
\* worker_loop).
THEOREM RegistryHasNoLeftovers == Spec => []RegistryTracksLiveTasks
<1>1. Init => RegistryTracksLiveTasks
  BY DEF Init, RegistryTracksLiveTasks
<1>2. ASSUME TypeOK, TypeOK', Placement, OnePlacePerTask, RegistryTracksLiveTasks, [Next]_vars
      PROVE  RegistryTracksLiveTasks'
  <2> USE <1>2
  <2>1. \A k \in Keys : registry[k] # NoTask => registry[k] \in Tasks
    BY DEF TypeOK
  <2>2. CASE registry' = registry /\ \A u \in Tasks : Live(u)' <=> Live(u)
    BY <2>1, <2>2 DEF RegistryTracksLiveTasks
  <2>3. ASSUME NEW t \in Tasks, registry' = RegisterToken(t),
               \A u \in Tasks : Live(u)' <=> Live(u) \/ u = t
        PROVE  RegistryTracksLiveTasks'
    <3>1. \A k \in Keys : registry'[k] = registry[k] \/ (registry'[k] = t /\ Key[t] = k)
      BY <2>3 DEF RegisterToken, TypeOK
    <3>2. ASSUME NEW k \in Keys, registry'[k] # NoTask
          PROVE  Key[registry'[k]] = k /\ Live(registry[k])'
      <4>1. CASE registry'[k] = registry[k]
        <5>1. registry[k] \in Tasks /\ Key[registry[k]] = k /\ Live(registry[k])
          BY <2>1, <3>2, <4>1 DEF RegistryTracksLiveTasks
        <5>2. QED
          BY <2>3, <4>1, <5>1
      <4>2. CASE registry'[k] = t /\ Key[t] = k
        BY <2>3, <4>2
      <4>3. QED
        BY <3>1, <4>1, <4>2
    <3>3. QED
      BY <3>2 DEF RegistryTracksLiveTasks
  <2>4. ASSUME NEW t \in Tasks, registry' = UnregisterToken(t),
               \A u \in Tasks : Live(u)' <=> Live(u) /\ u # t
        PROVE  RegistryTracksLiveTasks'
    <3>1. \A k \in Keys : registry'[k] # NoTask => registry'[k] = registry[k] /\ registry[k] # t
      BY <2>4, TasksAssumption DEF UnregisterToken, IsNotification, TypeOK, RegistryTracksLiveTasks
    <3>2. QED
      BY <2>1, <2>4, <3>1 DEF RegistryTracksLiveTasks
  <2>5. QED
    BY <2>2, <2>3, <2>4, LiveStep
<1>3. QED
  BY <1>1, <1>2, TypeCorrect, InitialPlaces, PlacementStep, PTL DEF Spec

-------------------------------------------------------------------------------
\* No two requests in flight have the same id, and a live request is registered.
IdsDistinct ==
    \A t, u \in Tasks : t # u /\ Key[t] = Key[u] /\ ~IsNotification(t)
                           => submitter[t] = "new" \/ submitter[u] = "new"
LiveIsRegistered == \A t \in Tasks : ~IsNotification(t) /\ Live(t) => registry[Key[t]] = t

\* If clients do not reuse ids, as JSON-RPC demands, every queued or executing
\* request can be cancelled by its id, however submissions, refusals, timeouts
\* and completions of other requests interleave with it.
THEOREM UniqueIdsAreCancellable ==
    ASSUME IdReuse = "never"
    PROVE  Spec => []PendingIsCancellable
<1>1. Init => IdsDistinct /\ LiveIsRegistered
  <2> SUFFICES ASSUME Init PROVE IdsDistinct /\ LiveIsRegistered
    OBVIOUS
  <2>1. \A l \in Lanes : DOMAIN queue[l] = {}
    BY DEF Init
  <2>2. \A t \in Tasks : ~Live(t)
    BY <2>1, LaneType, TasksAssumption DEF Init, Live, Queued, HeldIn
  <2>3. QED
    BY <2>2 DEF Init, IdsDistinct, LiveIsRegistered
<1>2. ASSUME TypeOK, IdsDistinct, [Next]_vars PROVE IdsDistinct'
  <2> USE <1>2
  <2>1. ASSUME NEW t \in Tasks, Submit(t) PROVE IdsDistinct'
    <3>1. /\ IsNotification(t) \/ \A u \in Tasks \ {t} : Key[u] = Key[t] => submitter[u] = "new"
          /\ \A u \in Tasks : u # t => submitter'[u] = submitter[u]
      BY <2>1 DEF Submit, MaySubmit, TypeOK
    <3>2. QED
      BY <3>1 DEF IdsDistinct, IsNotification
  <2>2. CASE \A u \in Tasks : submitter[u] = "new" => submitter'[u] = "new"
    BY <2>2 DEF IdsDistinct
  <2>3. ASSUME NEW t \in Tasks, SubmitterStep(t)
        PROVE  \A u \in Tasks : submitter[u] = "new" => submitter'[u] = "new"
    BY <2>3 DEF SubmitterStep, TryPush, RecordAccepted, RecordRejected, ResolveRejected,
       NotifyRejected, WaitReady, WaitTimesOut, AbandonWait, TypeOK
  <2>4. ASSUME NEW w \in Workers, WorkerStep(w) \/ HandlerReturns(w) PROVE submitter' = submitter
    BY <2>4 DEF WorkerStep, Pop, Exit, CheckRequest, CheckDeadline, HandlerReturns,
       RecordFinished, Publish, Notify, UnregisterRequest, submission
  <2>5. QED
    BY <2>1, <2>2, <2>3, <2>4
    DEF Next, DeadlinePasses, CancelRequest, ClosePool, JoinPool, submission, vars
<1>3. ASSUME TypeOK, TypeOK', Placement, OnePlacePerTask, IdsDistinct, IdsDistinct',
             LiveIsRegistered, [Next]_vars
      PROVE  LiveIsRegistered'
  <2> USE <1>3
  <2>1. \A t \in Tasks : ~IsNotification(t) => Key[t] \in Keys
    BY TasksAssumption DEF IsNotification
  <2>2. \A t \in Tasks : Live(t) => submitter[t] # "new"
    BY LiveMeans, TasksAssumption DEF InSubmit, OnePlacePerTask, Placement
  <2>3. CASE registry' = registry /\ \A u \in Tasks : Live(u)' <=> Live(u)
    BY <2>3 DEF LiveIsRegistered
  <2>4. ASSUME NEW t \in Tasks, Submit(t), registry' = RegisterToken(t),
               \A u \in Tasks : Live(u)' <=> Live(u) \/ u = t
        PROVE  LiveIsRegistered'
    <3>1. \A u \in Tasks : u # t /\ Live(u) /\ ~IsNotification(u) => Key[u] # Key[t]
      BY <2>2, <2>4 DEF Submit, MaySubmit, IsNotification
    <3>2. \A u \in Tasks : ~IsNotification(u) /\ Live(u)' => registry'[Key[u]] = u
      BY <2>1, <2>4, <3>1 DEF RegisterToken, LiveIsRegistered, TypeOK
    <3>3. QED
      BY <3>2 DEF LiveIsRegistered
  <2>5. ASSUME NEW t \in Tasks, Live(t), registry' = UnregisterToken(t),
               \A u \in Tasks : Live(u)' <=> Live(u) /\ u # t
        PROVE  LiveIsRegistered'
    <3>1. \A u \in Tasks : u # t /\ Live(u) /\ ~IsNotification(u) => Key[u] # Key[t]
      BY <2>2, <2>5 DEF IdsDistinct, IsNotification
    <3>2. \A u \in Tasks : ~IsNotification(u) /\ Live(u)' => registry'[Key[u]] = u
      BY <2>1, <2>5, <3>1 DEF UnregisterToken, LiveIsRegistered, TypeOK
    <3>3. QED
      BY <3>2 DEF LiveIsRegistered
  <2>6. QED
    BY <2>3, <2>4, <2>5, LiveStep
<1>4. ASSUME TypeOK, LiveIsRegistered PROVE PendingIsCancellable
  BY <1>4, LiveMeans DEF LiveIsRegistered, PendingIsCancellable, HeldIn
<1>5. QED
  BY <1>1, <1>2, <1>3, <1>4, TypeCorrect, InitialPlaces, PlacementStep, PTL DEF Spec
-------------------------------------------------------------------------------
\* The workers between record_worker_started and record_worker_finished, in all
\* and of one lane.
Busy == {w \in Workers : worker[w] \in Executing}
BusyIn(l) == {w \in Workers : PoolOf[w] = l /\ worker[w] \in Executing}

LEMMA BusyFinite == IsFiniteSet(Busy) /\ \A l \in Lanes : IsFiniteSet(BusyIn(l))
  BY PoolsAssumption, FS_Subset DEF Busy, BusyIn

\* A step that neither touches the gauges nor takes a worker in or out.
LEMMA GaugesUnchanged ==
    ASSUME GaugesExact, metrics'.in_flight = metrics.in_flight,
           \A l \in Lanes : lanes'[l].active = lanes[l].active,
           \A w \in Workers : worker'[w] \in Executing <=> worker[w] \in Executing
    PROVE  GaugesExact'
<1>1. {w \in Workers : worker'[w] \in Executing} = {w \in Workers : worker[w] \in Executing}
  OBVIOUS
<1>2. ASSUME NEW l \in Lanes
      PROVE  {w \in Workers : PoolOf[w] = l /\ worker'[w] \in Executing}
                = {w \in Workers : PoolOf[w] = l /\ worker[w] \in Executing}
  OBVIOUS
<1>3. QED
  BY <1>1, <1>2 DEF GaugesExact, Executing

\* The gauges count the workers that execute a task, however calls end: with a
\* result, an error, a std::exception or another one (record_worker_started and
\* record_worker_finished on every path of worker_loop).
THEOREM GaugesReturnToZero == Spec => []GaugesExact
<1>1. Init => GaugesExact
  <2> SUFFICES ASSUME Init PROVE GaugesExact
    OBVIOUS
  <2>1. /\ {w \in Workers : worker[w] \in Executing} = {}
        /\ \A l \in Lanes : {w \in Workers : PoolOf[w] = l /\ worker[w] \in Executing} = {}
    BY DEF Init, Executing
  <2>2. metrics.in_flight = 0 /\ \A l \in Lanes : lanes[l].active = 0
    BY DEF Init
  <2>3. QED
    BY <2>1, <2>2, FS_EmptySet DEF GaugesExact
<1>2. ASSUME TypeOK, Placement, OnePlacePerTask, GaugesExact, [Next]_vars
      PROVE  GaugesExact'
  <2> USE <1>2
  <2>1. metrics \in Metrics /\ lanes \in [Lanes -> LaneMetrics] /\ worker \in [Workers -> WorkerStates]
    BY DEF TypeOK
  <2>2. ASSUME NEW t \in Tasks, Submit(t) \/ SubmitterStep(t) \/ DeadlinePasses(t)
        PROVE  GaugesExact'
    <3>1. worker' = worker
      BY <2>2 DEF Submit, SubmitterStep, TryPush, RecordAccepted, RecordRejected, ResolveRejected,
         NotifyRejected, WaitReady, WaitTimesOut, AbandonWait, DeadlinePasses, pools
    <3>2. metrics'.in_flight = metrics.in_flight
      BY <2>1, <2>2 DEF Submit, SubmitterStep, TryPush, RecordAccepted, RecordRejected,
         RejectionCounted, ResolveRejected, NotifyRejected, WaitReady, WaitTimesOut, AbandonWait,
         DeadlinePasses, counters, Metrics
    <3>3. \A l \in Lanes : lanes'[l].active = lanes[l].active
      BY <2>1, <2>2, LaneType
      DEF Submit, SubmitterStep, TryPush, RecordAccepted, RecordRejected,
         ResolveRejected, NotifyRejected, WaitReady, WaitTimesOut, AbandonWait,
         DeadlinePasses, counters, LaneMetrics
    <3>4. QED
      BY <3>1, <3>2, <3>3, GaugesUnchanged
  <2>3. ASSUME NEW w \in Workers,
               Exit(w) \/ CheckRequest(w) \/ CheckDeadline(w) \/ HandlerReturns(w)
                 \/ Publish(w) \/ Notify(w) \/ UnregisterRequest(w)
        PROVE  GaugesExact'
    <3>1. UNCHANGED counters
      BY <2>3 DEF Exit, CheckRequest, CheckDeadline, HandlerReturns, Publish, Notify,
         UnregisterRequest
    <3>2. \A v \in Workers : worker'[v] \in Executing <=> worker[v] \in Executing
      BY <2>1, <2>3 DEF Exit, CheckRequest, CheckDeadline, HandlerReturns, Publish, Notify,
         UnregisterRequest, MoveWorker, Finish, Executing
    <3>3. QED
      BY <3>1, <3>2, GaugesUnchanged DEF counters
  <2>4. ASSUME NEW w \in Workers, Pop(w) PROVE GaugesExact'
    <3> DEFINE L == PoolOf[w]
    <3>1. L \in Lanes /\ Lane(Head(queue[L])) = L
      <4>1. L \in Lanes
        BY PoolsAssumption
      <4>2. queue[L] \in Seq(Tasks) /\ queue[L] # <<>>
        BY <2>4, <4>1 DEF TypeOK, Pop
      <4>3. 1 \in DOMAIN queue[L] /\ Head(queue[L]) = queue[L][1]
        BY <4>2, HeadTailProperties, LenProperties, EmptySeq
      <4>4. QED
        BY <4>1, <4>3 DEF OnePlacePerTask
    <3>2. /\ metrics' = [metrics EXCEPT !.in_flight = @ + 1]
          /\ lanes' = [lanes EXCEPT ![L].active = @ + 1]
          /\ worker[w] = "idle" /\ worker' = [worker EXCEPT ![w] = "started"]
      BY <2>4, <3>1 DEF Pop, MoveWorker
    <3> HIDE DEF L
    <3>3. /\ metrics'.in_flight = metrics.in_flight + 1
          /\ \A l \in Lanes : lanes'[l].active = IF l = L THEN lanes[l].active + 1 ELSE lanes[l].active
      BY <2>1, <3>1, <3>2 DEF Metrics, LaneMetrics
    <3>4. w \notin Busy /\ \A l \in Lanes : w \notin BusyIn(l)
      BY <3>2 DEF Busy, BusyIn, Executing
    <3>5. {v \in Workers : worker'[v] \in Executing} = Busy \cup {w}
      BY <2>1, <3>2 DEF Busy, Executing
    <3>6. \A l \in Lanes : {v \in Workers : PoolOf[v] = l /\ worker'[v] \in Executing}
                             = IF l = L THEN BusyIn(l) \cup {w} ELSE BusyIn(l)
      BY <2>1, <3>2 DEF BusyIn, Executing, L
    <3>7. /\ Cardinality(Busy \cup {w}) = Cardinality(Busy) + 1
          /\ \A l \in Lanes : Cardinality(BusyIn(l) \cup {w}) = Cardinality(BusyIn(l)) + 1
      BY <3>4, BusyFinite, FS_AddElement
    <3>8. /\ metrics.in_flight = Cardinality(Busy)
          /\ \A l \in Lanes : lanes[l].active = Cardinality(BusyIn(l))
      BY DEF GaugesExact, Busy, BusyIn
    <3>9. metrics'.in_flight = Cardinality({v \in Workers : worker'[v] \in Executing})
      BY <3>3, <3>5, <3>7, <3>8
    <3>10. ASSUME NEW l \in Lanes
           PROVE  lanes'[l].active = Cardinality({v \in Workers : PoolOf[v] = l /\ worker'[v] \in Executing})
      BY <3>3, <3>6, <3>7, <3>8
    <3>11. QED
      BY <3>9, <3>10 DEF GaugesExact, Executing
  <2>5. ASSUME NEW w \in Workers, RecordFinished(w) PROVE GaugesExact'
    <3> DEFINE L == PoolOf[w]
    <3>1. L \in Lanes /\ Lane(current[w]) = L
      <4>1. worker[w] = "finished"
        BY <2>5 DEF RecordFinished, MoveWorker
      <4>2. current[w] # NoTask
        BY <4>1 DEF Placement
      <4>3. QED
        BY <4>2, PoolsAssumption DEF OnePlacePerTask
    <3>2. /\ lanes' = [lanes EXCEPT ![L].active = @ - 1]
          /\ worker[w] = "finished" /\ worker' = [worker EXCEPT ![w] = "recorded"]
      BY <2>5, <3>1 DEF RecordFinished, LaneGaugeDown, MoveWorker
    <3>3. metrics'.in_flight = metrics.in_flight - 1
      BY <2>1, <2>5 DEF RecordFinished, Metrics
    <3> HIDE DEF L
    <3>4. \A l \in Lanes : lanes'[l].active = IF l = L THEN lanes[l].active - 1 ELSE lanes[l].active
      BY <2>1, <3>1, <3>2 DEF LaneMetrics
    <3>5. w \in Busy /\ w \in BusyIn(L)
      BY <3>1, <3>2 DEF Busy, BusyIn, Executing, L
    <3>6. {v \in Workers : worker'[v] \in Executing} = Busy \ {w}
      BY <2>1, <3>2 DEF Busy, Executing
    <3>7. \A l \in Lanes : {v \in Workers : PoolOf[v] = l /\ worker'[v] \in Executing}
                             = IF l = L THEN BusyIn(l) \ {w} ELSE BusyIn(l)
      BY <2>1, <3>2 DEF BusyIn, Executing, L
    <3>8. /\ Cardinality(Busy \ {w}) = Cardinality(Busy) - 1
          /\ Cardinality(BusyIn(L) \ {w}) = Cardinality(BusyIn(L)) - 1
      BY <3>1, <3>5, BusyFinite, FS_RemoveElement
    <3>9. /\ metrics.in_flight = Cardinality(Busy)
          /\ \A l \in Lanes : lanes[l].active = Cardinality(BusyIn(l))
      BY DEF GaugesExact, Busy, BusyIn
    <3>10. metrics'.in_flight = Cardinality({v \in Workers : worker'[v] \in Executing})
      BY <3>3, <3>6, <3>8, <3>9
    <3>11. ASSUME NEW l \in Lanes
           PROVE  lanes'[l].active = Cardinality({v \in Workers : PoolOf[v] = l /\ worker'[v] \in Executing})
      BY <3>4, <3>7, <3>8, <3>9
    <3>12. QED
      BY <3>10, <3>11 DEF GaugesExact, Executing
  <2>6. CASE (\E k \in Keys : CancelRequest(k)) \/ ClosePool \/ JoinPool \/ UNCHANGED vars
    <3>1. UNCHANGED <<worker, metrics, lanes>>
      BY <2>6 DEF CancelRequest, ClosePool, JoinPool, vars, pools, counters
    <3>2. QED
      BY <3>1, GaugesUnchanged
  <2>7. QED
    BY <2>2, <2>3, <2>4, <2>5, <2>6 DEF Next, WorkerStep
<1>3. QED
  BY <1>1, <1>2, TypeCorrect, InitialPlaces, PlacementStep, PTL DEF Spec
===============================================================================
