---------------------- MODULE TaskRuntimeService_proofs ----------------------
(***************************************************************************)
(* What the users of TaskRuntime rely on: every request is counted once, a *)
(* cancelled or overdue request that waits does not run, the runtime keeps *)
(* the promises of RequestService, and each lane those of BoundedQueue.    *)
(* The proofs rest on the places of the envelopes, see TaskRuntime_proofs. *)
(***************************************************************************)
EXTENDS TaskRuntime_proofs

\* A worker holds the task of its current envelope while it executes it.
LEMMA HeldMeans ==
    ASSUME NEW t, NEW S
    PROVE  HeldIn(t, S) <=> \E w \in Workers : current[w] = t /\ worker[w] \in S
  BY DEF HeldIn

LEMMA UncountedMeans ==
    ASSUME NEW t
    PROVE  Uncounted(t) <=> InSubmit(t) \/ Queued(t) \/ HeldIn(t, Executing)
  BY DEF Uncounted, InSubmit

LEMMA UncountedMeansNext ==
    ASSUME NEW t
    PROVE  Uncounted(t)' <=> InSubmit(t)' \/ Queued(t)' \/ HeldIn(t, Executing)'
  BY DEF Uncounted, InSubmit, HeldIn, Executing

-------------------------------------------------------------------------------
\* The requests submitted so far, and those among them nobody has counted yet.
Received == {t \in Tasks : submitter[t] # "new"}
Open     == {t \in Tasks : Uncounted(t)}

LEMMA OpenFinite == IsFiniteSet(Received) /\ IsFiniteSet(Open)
  BY TasksAssumption, FS_Subset DEF Received, Open

\* A step that neither counts a request nor moves one out of the runtime.
LEMMA AccountsKept ==
    ASSUME RequestsAccounted,
           metrics'.total = metrics.total, metrics'.completed = metrics.completed,
           metrics'.failed = metrics.failed, metrics'.busy = metrics.busy,
           metrics'.closed = metrics.closed,
           \A u \in Tasks : submitter'[u] = "new" <=> submitter[u] = "new",
           \A u \in Tasks : Uncounted(u)' <=> Uncounted(u)
    PROVE  RequestsAccounted'
<1>1. {u \in Tasks : submitter'[u] # "new"} = {u \in Tasks : submitter[u] # "new"}
  OBVIOUS
<1>2. {u \in Tasks : Uncounted(u)'} = {u \in Tasks : Uncounted(u)}
  OBVIOUS
<1>3. QED
  BY <1>1, <1>2 DEF RequestsAccounted

\* A step that counts request t, as completed or as failed, and ends it.
LEMMA AccountsSettled ==
    ASSUME RequestsAccounted, metrics \in Metrics, metrics' \in Metrics,
           NEW t \in Tasks, Uncounted(t),
           metrics'.total = metrics.total,
           metrics'.completed + metrics'.failed = metrics.completed + metrics.failed + 1,
           metrics'.failed - metrics'.busy - metrics'.closed
               >= metrics.failed - metrics.busy - metrics.closed,
           \A u \in Tasks : submitter'[u] = "new" <=> submitter[u] = "new",
           \A u \in Tasks : Uncounted(u)' <=> Uncounted(u) /\ u # t
    PROVE  RequestsAccounted'
<1>1. {u \in Tasks : submitter'[u] # "new"} = {u \in Tasks : submitter[u] # "new"}
  OBVIOUS
<1>2. {u \in Tasks : Uncounted(u)'} = Open \ {t}
  BY DEF Open
<1>3. Cardinality(Open \ {t}) = Cardinality(Open) - 1 /\ Cardinality(Open) \in Nat
  BY OpenFinite, FS_RemoveElement, FS_CardinalityType DEF Open
<1>4. /\ metrics.total = Cardinality({u \in Tasks : submitter[u] # "new"})
      /\ metrics.total = metrics.completed + metrics.failed + Cardinality(Open)
      /\ metrics.failed >= metrics.busy + metrics.closed
  BY DEF RequestsAccounted, Open
<1>5. /\ metrics.total \in Int /\ metrics.completed \in Int /\ metrics.failed \in Int
      /\ metrics.busy \in Int /\ metrics.closed \in Int
      /\ metrics'.total \in Int /\ metrics'.completed \in Int /\ metrics'.failed \in Int
      /\ metrics'.busy \in Int /\ metrics'.closed \in Int
  BY DEF Metrics
<1>6. metrics'.total = metrics'.completed + metrics'.failed + Cardinality(Open \ {t})
  <2> DEFINE before == Cardinality(Open)
             after  == Cardinality(Open \ {t})
  <2>1. /\ after = before - 1 /\ before \in Nat
        /\ metrics.total = metrics.completed + metrics.failed + before
    BY <1>3, <1>4
  <2> HIDE DEF before, after
  <2>2. metrics'.total = metrics'.completed + metrics'.failed + after
    BY <1>5, <2>1
  <2>3. QED
    BY <2>2 DEF after
<1>7. metrics'.failed >= metrics'.busy + metrics'.closed
  BY <1>4, <1>5
<1>8. QED
  BY <1>1, <1>2, <1>4, <1>6, <1>7 DEF RequestsAccounted

\* A step that moves no envelope into or out of submit, a queue or execution.
LEMMA OpenUnchanged ==
    ASSUME UNCHANGED <<queue, current>>,
           \A u \in Tasks : InSubmit(u)' <=> InSubmit(u),
           \A w \in Workers : worker'[w] \in Executing <=> worker[w] \in Executing
    PROVE  \A u \in Tasks : Uncounted(u)' <=> Uncounted(u)
<1>1. \A u \in Tasks : Queued(u)' <=> Queued(u)
  BY DEF Queued
<1>2. \A u \in Tasks : HeldIn(u, Executing)' <=> HeldIn(u, Executing)
  BY DEF HeldIn, Executing
<1>3. QED
  BY <1>1, <1>2, UncountedMeans, UncountedMeansNext

\* Every received request is counted once, by whichever path of submit or of
\* worker_loop ends it: nothing is counted twice or lost between record_request,
\* record_task_rejected and record_worker_finished, however the threads meet.
THEOREM RequestsCountedOnce == Spec => []RequestsAccounted
<1>1. Init => RequestsAccounted
  <2> SUFFICES ASSUME Init PROVE RequestsAccounted
    OBVIOUS
  <2>1. \A l \in Lanes : DOMAIN queue[l] = {}
    BY DEF Init
  <2>2. \A t \in Tasks : ~Uncounted(t) /\ submitter[t] = "new"
    BY <2>1, LaneType, TasksAssumption DEF Init, Uncounted, Queued, HeldIn, Executing
  <2>3. /\ {t \in Tasks : submitter[t] # "new"} = {}
        /\ {t \in Tasks : Uncounted(t)} = {}
    BY <2>2
  <2>4. /\ metrics.total = 0 /\ metrics.completed = 0 /\ metrics.failed = 0
        /\ metrics.busy = 0 /\ metrics.closed = 0
    BY DEF Init
  <2>5. QED
    BY <2>3, <2>4, FS_EmptySet DEF RequestsAccounted
<1>2. ASSUME TypeOK, TypeOK', Placement, OnePlacePerTask, RequestsAccounted, [Next]_vars
      PROVE  RequestsAccounted'
  <2> USE <1>2
  <2>1. metrics \in Metrics /\ metrics' \in Metrics
    BY DEF TypeOK
  <2>2. ASSUME NEW t \in Tasks,
               RecordAccepted(t) \/ ResolveRejected(t) \/ NotifyRejected(t) \/ WaitReady(t)
                 \/ WaitTimesOut(t) \/ AbandonWait(t) \/ DeadlinePasses(t)
        PROVE  RequestsAccounted'
    <3>1. UNCHANGED <<queue, current, worker, status>>
      BY <2>2
      DEF RecordAccepted, ResolveRejected, NotifyRejected, WaitReady, WaitTimesOut, AbandonWait,
          DeadlinePasses, pools, submission
    <3>2. /\ \A u \in Tasks : InSubmit(u)' <=> InSubmit(u)
          /\ \A u \in Tasks : submitter'[u] = "new" <=> submitter[u] = "new"
      BY <2>2
      DEF RecordAccepted, ResolveRejected, NotifyRejected, WaitReady, WaitTimesOut, AbandonWait,
          DeadlinePasses, submission, TypeOK, InSubmit
    <3>3. /\ metrics'.total = metrics.total /\ metrics'.completed = metrics.completed
          /\ metrics'.failed = metrics.failed /\ metrics'.busy = metrics.busy
          /\ metrics'.closed = metrics.closed
      BY <2>1, <2>2
      DEF RecordAccepted, ResolveRejected, NotifyRejected, WaitReady, WaitTimesOut, AbandonWait,
          DeadlinePasses, counters, Metrics
    <3>4. \A u \in Tasks : Uncounted(u)' <=> Uncounted(u)
      BY <3>1, <3>2, OpenUnchanged
    <3>5. QED
      BY <3>2, <3>3, <3>4, AccountsKept
  <2>3. ASSUME NEW t \in Tasks, Submit(t) PROVE RequestsAccounted'
    <3>1. /\ UNCHANGED <<queue, current, worker, status>>
          /\ submitter[t] = "new" /\ submitter'[t] = "registered"
          /\ \A u \in Tasks : u # t => submitter'[u] = submitter[u]
      BY <2>3 DEF Submit, pools, TypeOK
    <3>2. \A u \in Tasks : /\ Queued(u)' <=> Queued(u)
                           /\ HeldIn(u, Executing)' <=> HeldIn(u, Executing)
      BY <3>1 DEF Queued, HeldIn, Executing
    <3>3. \A u \in Tasks : InSubmit(u)' <=> InSubmit(u) \/ u = t
      BY <3>1 DEF InSubmit
    <3>4. ~Uncounted(t)
      <4>1. status[t] = "none"
        BY <3>1 DEF Placement
      <4>2. ~Queued(t) /\ ~HeldIn(t, Executing)
        BY <4>1 DEF OnePlacePerTask, HeldIn
      <4>3. QED
        BY <3>1, <4>2, UncountedMeans DEF InSubmit
    <3>5. {u \in Tasks : submitter'[u] # "new"} = Received \cup {t} /\ t \notin Received
      BY <3>1 DEF Received
    <3>6. {u \in Tasks : Uncounted(u)'} = Open \cup {t} /\ t \notin Open
      BY <3>2, <3>3, <3>4, UncountedMeans, UncountedMeansNext DEF Open
    <3>7. /\ Cardinality(Received \cup {t}) = Cardinality(Received) + 1
          /\ Cardinality(Open \cup {t}) = Cardinality(Open) + 1
          /\ Cardinality(Received) \in Nat /\ Cardinality(Open) \in Nat
      BY <3>5, <3>6, OpenFinite, FS_AddElement, FS_CardinalityType
    <3>8. /\ metrics'.total = metrics.total + 1
          /\ metrics'.completed = metrics.completed /\ metrics'.failed = metrics.failed
          /\ metrics'.busy = metrics.busy /\ metrics'.closed = metrics.closed
          /\ metrics.completed \in Int /\ metrics.failed \in Int
      BY <2>1, <2>3 DEF Submit, Metrics
    <3>9. /\ metrics.total = Cardinality(Received)
          /\ metrics.total = metrics.completed + metrics.failed + Cardinality(Open)
          /\ metrics.failed >= metrics.busy + metrics.closed
      BY DEF RequestsAccounted, Received, Open
    <3> DEFINE received == Cardinality(Received \cup {t})
               open     == Cardinality(Open \cup {t})
    <3>10. /\ received = metrics.total + 1 /\ metrics.total \in Nat
           /\ open = Cardinality(Open) + 1
      BY <3>7, <3>9
    <3> HIDE DEF received, open
    <3>11. /\ metrics'.total = received
           /\ metrics'.total = metrics'.completed + metrics'.failed + open
           /\ metrics'.failed >= metrics'.busy + metrics'.closed
      BY <3>7, <3>8, <3>9, <3>10
    <3>12. QED
      BY <3>5, <3>6, <3>11 DEF RequestsAccounted, received, open
  <2>4. ASSUME NEW t \in Tasks, TryPush(t) PROVE RequestsAccounted'
    <3>1. submitter[t] = "registered" /\ status[t] = "none"
      BY <2>4 DEF TryPush, Placement
    <3>2. ~Queued(t)
      BY <3>1 DEF OnePlacePerTask
    <3>3. \A u \in Tasks : Queued(u)' <=> Queued(u) \/ (u = t /\ status'[t] = "Accepted")
      BY <2>4, <3>2, OnePlaceParts, PushPlaces
    <3>4. /\ UNCHANGED <<current, worker, metrics>> /\ submitter'[t] = "pushed"
          /\ \A u \in Tasks : u # t => submitter'[u] = submitter[u] /\ status'[u] = status[u]
      BY <2>4 DEF TryPush, pools, counters, TypeOK
    <3>5. \A u \in Tasks : HeldIn(u, Executing)' <=> HeldIn(u, Executing)
      BY <3>4 DEF HeldIn, Executing
    <3>6. \A u \in Tasks : u # t => (InSubmit(u)' <=> InSubmit(u))
      BY <3>4 DEF InSubmit
    <3>7. InSubmit(t) /\ (InSubmit(t)' <=> status'[t] # "Accepted")
      BY <3>1, <3>4 DEF InSubmit
    <3>8. \A u \in Tasks : Uncounted(u)' <=> Uncounted(u)
      BY <3>3, <3>5, <3>6, <3>7, UncountedMeans, UncountedMeansNext
    <3>9. QED
      BY <3>1, <3>4, <3>8, AccountsKept
  <2>5. ASSUME NEW t \in Tasks, RecordRejected(t) PROVE RequestsAccounted'
    <3>1. /\ UNCHANGED <<queue, current, worker, status>>
          /\ submitter[t] = "pushed" /\ submitter'[t] = "resolving" /\ status[t] # "Accepted"
          /\ \A u \in Tasks : u # t => submitter'[u] = submitter[u]
      BY <2>5 DEF RecordRejected, pools, TypeOK
    <3>2. \A u \in Tasks : /\ Queued(u)' <=> Queued(u)
                           /\ HeldIn(u, Executing)' <=> HeldIn(u, Executing)
      BY <3>1 DEF Queued, HeldIn, Executing
    <3>3. InSubmit(t) /\ \A u \in Tasks : InSubmit(u)' <=> InSubmit(u) /\ u # t
      BY <3>1 DEF InSubmit
    <3>4. ~Queued(t) /\ ~HeldIn(t, Executing)
      BY <3>1 DEF OnePlacePerTask, HeldIn
    <3>5. Uncounted(t) /\ \A u \in Tasks : Uncounted(u)' <=> Uncounted(u) /\ u # t
      BY <3>2, <3>3, <3>4, UncountedMeans, UncountedMeansNext
    <3>6. /\ metrics'.total = metrics.total
          /\ metrics'.completed = metrics.completed
          /\ metrics'.failed = metrics.failed + 1
          /\ \/ metrics'.busy = metrics.busy + 1 /\ metrics'.closed = metrics.closed
             \/ metrics'.busy = metrics.busy /\ metrics'.closed = metrics.closed + 1
          /\ metrics.completed \in Int /\ metrics.failed \in Int
          /\ metrics.busy \in Int /\ metrics.closed \in Int
      BY <2>1, <2>5 DEF RecordRejected, RejectionCounted, Metrics
    <3>7. /\ metrics'.completed + metrics'.failed = metrics.completed + metrics.failed + 1
          /\ metrics'.failed - metrics'.busy - metrics'.closed
                >= metrics.failed - metrics.busy - metrics.closed
      BY <3>6
    <3>8. \A u \in Tasks : submitter'[u] = "new" <=> submitter[u] = "new"
      BY <3>1
    <3>9. QED
      BY <2>1, <3>5, <3>6, <3>7, <3>8, AccountsSettled
  <2>6. ASSUME NEW w \in Workers, Pop(w) PROVE RequestsAccounted'
    <3> DEFINE t == Head(queue[PoolOf[w]])
    <3>1. t \in Tasks /\ Queued(t) /\ \A u \in Tasks : Queued(u)' <=> Queued(u) /\ u # t
      BY <2>6, OnePlaceParts, PopPlaces
    <3>2. /\ UNCHANGED <<status, submitter>>
          /\ worker[w] = "idle" /\ worker'[w] = "started" /\ current'[w] = t
          /\ \A v \in Workers : v # w => current'[v] = current[v] /\ worker'[v] = worker[v]
      BY <2>6 DEF Pop, MoveWorker, submission, TypeOK
    <3> HIDE DEF t
    <3>3. \A u \in Tasks : HeldIn(u, Executing)' <=> HeldIn(u, Executing) \/ u = t
      BY <3>2 DEF HeldIn, Executing
    <3>4. \A u \in Tasks : InSubmit(u)' <=> InSubmit(u)
      BY <3>2 DEF InSubmit
    <3>5. \A u \in Tasks : Uncounted(u)' <=> Uncounted(u)
      BY <3>1, <3>3, <3>4, UncountedMeans, UncountedMeansNext
    <3>6. /\ metrics'.total = metrics.total /\ metrics'.completed = metrics.completed
          /\ metrics'.failed = metrics.failed /\ metrics'.busy = metrics.busy
          /\ metrics'.closed = metrics.closed
      BY <2>1, <2>6 DEF Pop, Metrics
    <3>7. QED
      BY <3>2, <3>5, <3>6, AccountsKept
  <2>7. ASSUME NEW w \in Workers,
               Exit(w) \/ CheckRequest(w) \/ CheckDeadline(w) \/ HandlerReturns(w)
                 \/ Publish(w) \/ Notify(w)
        PROVE  RequestsAccounted'
    <3>1. UNCHANGED <<queue, current, metrics, status, submitter>>
      BY <2>7 DEF Exit, CheckRequest, CheckDeadline, HandlerReturns, Publish, Notify,
         submission, counters
    <3>2. \A v \in Workers : worker'[v] \in Executing <=> worker[v] \in Executing
      BY <2>7 DEF Exit, CheckRequest, CheckDeadline, HandlerReturns, Publish, Notify,
         MoveWorker, Finish, Executing, TypeOK
    <3>3. \A u \in Tasks : InSubmit(u)' <=> InSubmit(u)
      BY <3>1 DEF InSubmit
    <3>4. QED
      BY <3>1, <3>2, <3>3, OpenUnchanged, AccountsKept
  <2>8. ASSUME NEW w \in Workers, RecordFinished(w) PROVE RequestsAccounted'
    <3> DEFINE t == current[w]
    <3>1. /\ UNCHANGED <<queue, current, status, submitter>>
          /\ worker[w] = "finished" /\ worker'[w] = "recorded"
          /\ \A v \in Workers : v # w => worker'[v] = worker[v]
      BY <2>8 DEF RecordFinished, MoveWorker, submission, TypeOK
    <3>2. t \in Tasks
      <4>1. current[w] # NoTask
        BY <3>1 DEF Placement
      <4>2. current[w] \in Tasks \cup {NoTask}
        BY DEF TypeOK
      <4>3. QED
        BY <4>1, <4>2
    <3>3. HeldIn(t, Executing)
      BY <3>1 DEF HeldIn, Executing
    <3>4. status[t] = "Accepted" /\ \A v \in Workers : current[v] = t => v = w
      BY <3>1, <3>2, TasksAssumption DEF Placement, OnePlacePerTask
    <3>5. ~Queued(t) /\ ~InSubmit(t)
      BY <3>1, <3>2, <3>4, TasksAssumption DEF OnePlacePerTask, InSubmit, Placement
    <3>6. \A u \in Tasks : (Queued(u)' <=> Queued(u)) /\ (InSubmit(u)' <=> InSubmit(u))
      BY <3>1 DEF Queued, InSubmit
    <3>7. \A u \in Tasks : HeldIn(u, Executing)' <=> HeldIn(u, Executing) /\ u # t
      BY <3>1, <3>4 DEF HeldIn, Executing
    <3>8. Uncounted(t) /\ \A u \in Tasks : Uncounted(u)' <=> Uncounted(u) /\ u # t
      BY <3>3, <3>5, <3>6, <3>7, UncountedMeans, UncountedMeansNext
    <3>9. /\ metrics'.total = metrics.total
          /\ metrics'.busy = metrics.busy /\ metrics'.closed = metrics.closed
          /\ \/ metrics'.completed = metrics.completed /\ metrics'.failed = metrics.failed + 1
             \/ metrics'.completed = metrics.completed + 1 /\ metrics'.failed = metrics.failed
      BY <2>1, <2>8 DEF RecordFinished, Metrics
    <3>10. /\ metrics.completed \in Int /\ metrics.failed \in Int
           /\ metrics.busy \in Int /\ metrics.closed \in Int
      BY <2>1 DEF Metrics
    <3>11. /\ metrics'.completed + metrics'.failed = metrics.completed + metrics.failed + 1
           /\ metrics'.failed - metrics'.busy - metrics'.closed
                 >= metrics.failed - metrics.busy - metrics.closed
      BY <3>9, <3>10
    <3> HIDE DEF t
    <3>12. QED
      BY <2>1, <3>1, <3>2, <3>8, <3>9, <3>11, AccountsSettled
  <2>9. ASSUME NEW w \in Workers, UnregisterRequest(w) PROVE RequestsAccounted'
    <3>1. /\ UNCHANGED <<queue, metrics, status, submitter>>
          /\ worker[w] = "notified" /\ worker'[w] = "idle"
          /\ \A v \in Workers : v # w => worker'[v] = worker[v] /\ current'[v] = current[v]
      BY <2>9 DEF UnregisterRequest, MoveWorker, submission, counters, TypeOK
    <3>2. \A u \in Tasks : (Queued(u)' <=> Queued(u)) /\ (InSubmit(u)' <=> InSubmit(u))
      BY <3>1 DEF Queued, InSubmit
    <3>3. \A u \in Tasks : HeldIn(u, Executing)' <=> HeldIn(u, Executing)
      BY <3>1 DEF HeldIn, Executing
    <3>4. \A u \in Tasks : Uncounted(u)' <=> Uncounted(u)
      BY <3>2, <3>3, UncountedMeans, UncountedMeansNext
    <3>5. QED
      BY <3>1, <3>4, AccountsKept
  <2>10. CASE (\E k \in Keys : CancelRequest(k)) \/ ClosePool \/ JoinPool \/ UNCHANGED vars
    <3>1. UNCHANGED <<queue, current, worker, metrics, status, submitter>>
      BY <2>10 DEF CancelRequest, ClosePool, JoinPool, vars, pools, counters, submission
    <3>2. QED
      BY <3>1, OpenUnchanged, AccountsKept DEF InSubmit
  <2>11. QED
    BY <2>2, <2>3, <2>4, <2>5, <2>6, <2>7, <2>8, <2>9, <2>10 DEF Next, SubmitterStep, WorkerStep
<1>3. QED
  BY <1>1, <1>2, TypeCorrect, InitialPlaces, PlacementStep, PTL DEF Spec

-------------------------------------------------------------------------------
\* What a cancelled or overdue request has not passed: the check of its token
\* and of the clock in execute_jsonrpc_task.
Stale(t) ==
    \/ t \in expired /\ ~HeldIn(t, {"handling"})
    \/ t \in cancelled /\ ~HeldIn(t, {"checked", "handling"})

\* A step that moves no worker past a check leaves a stale request stale.
LEMMA StaleUnchanged ==
    ASSUME NEW t \in Tasks, Stale(t), cancelled \subseteq cancelled', expired \subseteq expired',
           \A w \in Workers : current'[w] = t /\ worker'[w] = "checked"
                                  => current[w] = t /\ worker[w] = "checked",
           \A w \in Workers : current'[w] = t /\ worker'[w] = "handling"
                                  => current[w] = t /\ worker[w] = "handling"
    PROVE  Stale(t)'
  BY DEF Stale, HeldIn

LEMMA StaleStep ==
    ASSUME TypeOK, NEW t \in Tasks, Stale(t), [Next]_vars
    PROVE  Stale(t)'
<1>1. ASSUME NEW u \in Tasks, Submit(u) \/ SubmitterStep(u) \/ DeadlinePasses(u)
      PROVE  Stale(t)'
  <2>1. UNCHANGED <<worker, current>> /\ cancelled \subseteq cancelled' /\ expired \subseteq expired'
    BY <1>1 DEF Submit, SubmitterStep, TryPush, RecordAccepted, RecordRejected, ResolveRejected,
       NotifyRejected, WaitReady, WaitTimesOut, AbandonWait, DeadlinePasses, pools, clients
  <2>2. QED
    BY <2>1, StaleUnchanged
<1>2. ASSUME NEW w \in Workers,
             Pop(w) \/ Exit(w) \/ HandlerReturns(w) \/ RecordFinished(w) \/ Publish(w) \/ Notify(w)
               \/ UnregisterRequest(w)
      PROVE  Stale(t)'
  <2>1. /\ UNCHANGED <<cancelled, expired>>
        /\ worker'[w] \notin {"checked", "handling"}
        /\ \A v \in Workers : v # w => worker'[v] = worker[v] /\ current'[v] = current[v]
    BY <1>2 DEF Pop, Exit, HandlerReturns, Finish, RecordFinished, Publish, Notify,
       UnregisterRequest, MoveWorker, clients, TypeOK
  <2>2. QED
    BY <2>1, StaleUnchanged
<1>3. ASSUME NEW w \in Workers, CheckRequest(w) \/ CheckDeadline(w) PROVE Stale(t)'
  <2>1. /\ UNCHANGED <<cancelled, expired, current>>
        /\ \A v \in Workers : v # w => worker'[v] = worker[v]
        /\ worker[w] = "started" /\ worker'[w] = "checked" => current[w] \notin cancelled
        /\ worker[w] = "started" => worker'[w] \in {"checked", "finished"}
        /\ worker[w] = "checked" /\ worker'[w] = "handling" => current[w] \notin expired
        /\ worker[w] = "checked" => worker'[w] \in {"handling", "finished"}
        /\ worker[w] \in {"started", "checked"}
    BY <1>3 DEF CheckRequest, CheckDeadline, Finish, MoveWorker, clients, IsCancelled,
       DeadlineExceeded, TypeOK
  <2>2. CASE t \in expired /\ ~HeldIn(t, {"handling"})
    BY <2>1, <2>2 DEF Stale, HeldIn
  <2>3. CASE t \in cancelled /\ ~HeldIn(t, {"checked", "handling"})
    BY <2>1, <2>3 DEF Stale, HeldIn
  <2>4. QED
    BY <2>2, <2>3 DEF Stale
<1>4. CASE (\E k \in Keys : CancelRequest(k)) \/ ClosePool \/ JoinPool \/ UNCHANGED vars
  <2>1. UNCHANGED <<worker, current>> /\ cancelled \subseteq cancelled' /\ expired \subseteq expired'
    BY <1>4 DEF CancelRequest, ClosePool, JoinPool, vars, pools, clients
  <2>2. QED
    BY <2>1, StaleUnchanged
<1>5. QED
  BY <1>1, <1>2, <1>3, <1>4 DEF Next, WorkerStep

\* A request whose token is set or whose deadline has passed while it is queued
\* is never handed to its handler, at whichever point between wait_for_result,
\* cancel_request and execute_jsonrpc_task the signal arrives.
THEOREM StaleNeverReachHandlers == Spec => StaleNeverRuns
<1> SUFFICES ASSUME NEW t \in Tasks
             PROVE  Spec => [](Queued(t) /\ t \in cancelled \cup expired
                                   => []~HeldIn(t, {"handling"}))
  BY DEF StaleNeverRuns
<1>1. OnePlacePerTask /\ Queued(t) /\ t \in cancelled \cup expired => Stale(t)
  BY TasksAssumption DEF OnePlacePerTask, Stale, HeldIn
<1>2. Stale(t) => ~HeldIn(t, {"handling"})
  BY DEF Stale, HeldIn
<1>3. TypeOK /\ Stale(t) /\ [Next]_vars => Stale(t)'
  BY StaleStep
<1>4. QED
  BY <1>1, <1>2, <1>3, TypeCorrect, InitialPlaces, PlacementStep, PTL DEF Spec

-------------------------------------------------------------------------------
\* What the mapping to RequestService needs: a worker about to set a future has
\* an honest result, a refused task is not resolved before its submitter does,
\* and a queue is closed only by a shutdown.
HonestVerdicts ==
    /\ \A w \in Workers : worker[w] \in {"finished", "recorded"} =>
           /\ outcome[w] \in Service!Verdicts
           /\ outcome[w] = "cancelled" => current[w] \in cancelled
           /\ outcome[w] = "timeout" => current[w] \in expired
    /\ \A t \in Tasks : submitter[t] \in {"pushed", "resolving"} /\ status[t] # "Accepted"
                            => promise[t] = Pending
    /\ \A t \in Tasks : status[t] = "QueueClosed" => ShutdownBegun

\* A step of neither a submitter that is refused nor a worker with a result.
LEMMA HonestUnchanged ==
    ASSUME HonestVerdicts, UNCHANGED status, cancelled \subseteq cancelled', expired \subseteq expired',
           ShutdownBegun => ShutdownBegun',
           \A w \in Workers : worker'[w] \in {"finished", "recorded"} =>
               /\ worker[w] \in {"finished", "recorded"}
               /\ outcome'[w] = outcome[w] /\ current'[w] = current[w],
           \A t \in Tasks : submitter'[t] \in {"pushed", "resolving"} /\ status[t] # "Accepted"
               => submitter[t] \in {"pushed", "resolving"} /\ promise'[t] = promise[t]
    PROVE  HonestVerdicts'
<1>1. ASSUME NEW w \in Workers, worker'[w] \in {"finished", "recorded"}
      PROVE  /\ outcome'[w] \in Service!Verdicts
             /\ outcome'[w] = "cancelled" => current'[w] \in cancelled'
             /\ outcome'[w] = "timeout" => current'[w] \in expired'
  BY <1>1 DEF HonestVerdicts
<1>2. \A t \in Tasks : submitter'[t] \in {"pushed", "resolving"} /\ status'[t] # "Accepted"
                            => promise'[t] = Pending
  BY DEF HonestVerdicts
<1>3. \A t \in Tasks : status'[t] = "QueueClosed" => ShutdownBegun'
  BY DEF HonestVerdicts
<1>4. QED
  BY <1>1, <1>2, <1>3 DEF HonestVerdicts, Service!Verdicts

LEMMA ShutdownStays == ASSUME TypeOK, ShutdownBegun, [Next]_vars PROVE ShutdownBegun'
<1>1. closed' = closed \/ ClosePool
  BY DEF Next, SubmitterStep, WorkerStep, Submit, TryPush, RecordAccepted, RecordRejected,
     ResolveRejected, NotifyRejected, WaitReady, WaitTimesOut, AbandonWait, DeadlinePasses,
     Pop, Exit, CheckRequest, CheckDeadline, HandlerReturns, RecordFinished, Publish,
     Notify, UnregisterRequest, CancelRequest, JoinPool, vars
<1>2. QED
  BY <1>1 DEF ShutdownBegun, ClosePool, TypeOK

LEMMA HonestStep ==
    ASSUME TypeOK, Placement, OnePlacePerTask, HonestVerdicts, [Next]_vars
    PROVE  HonestVerdicts'
<1>1. ASSUME NEW t \in Tasks,
             Submit(t) \/ RecordAccepted(t) \/ RecordRejected(t) \/ NotifyRejected(t)
               \/ WaitReady(t) \/ WaitTimesOut(t) \/ AbandonWait(t) \/ DeadlinePasses(t)
      PROVE  HonestVerdicts'
  <2>1. /\ UNCHANGED <<status, worker, outcome, current, promise>>
        /\ cancelled \subseteq cancelled' /\ expired \subseteq expired'
    BY <1>1 DEF Submit, RecordAccepted, RecordRejected, NotifyRejected, WaitReady, WaitTimesOut,
       AbandonWait, DeadlinePasses, pools, clients, submission
  <2>2. \A u \in Tasks : submitter'[u] \in {"pushed", "resolving"}
                            => submitter[u] \in {"pushed", "resolving"}
    BY <1>1 DEF Submit, RecordAccepted, RecordRejected, NotifyRejected, WaitReady, WaitTimesOut,
       AbandonWait, DeadlinePasses, submission, TypeOK
  <2>3. QED
    BY <2>1, <2>2, ShutdownStays, HonestUnchanged
<1>2. ASSUME NEW t \in Tasks, TryPush(t) PROVE HonestVerdicts'
  <2>1. /\ UNCHANGED <<closed, worker, outcome, current, promise, cancelled, expired>>
        /\ submitter[t] = "registered" /\ status[t] = "none"
        /\ \A u \in Tasks : u # t => submitter'[u] = submitter[u] /\ status'[u] = status[u]
        /\ status'[t] = PushOutcome(Lane(t))
    BY <1>2 DEF TryPush, QueueFor, pools, clients, Placement, TypeOK
  <2>2. promise[t] = Pending
    BY <2>1 DEF Placement
  <2>3. status'[t] = "QueueClosed" => ShutdownBegun
    <3>1. CASE closed[Lane(t)]
      BY <3>1, LaneType DEF ShutdownBegun
    <3>2. CASE ~closed[Lane(t)]
      <4>1. Len(queue[Lane(t)]) \in Nat /\ Capacity[Lane(t)] \in Nat
        BY LaneType, LenProperties, PoolsAssumption DEF TypeOK
      <4>2. QED
        BY <2>1, <3>2, <4>1 DEF PushOutcome
    <3>3. QED
      BY <3>1, <3>2
  <2>4. \A u \in Tasks : status'[u] = "QueueClosed" => ShutdownBegun'
    BY <2>1, <2>3 DEF HonestVerdicts, ShutdownBegun
  <2>5. \A u \in Tasks : submitter'[u] \in {"pushed", "resolving"} /\ status'[u] # "Accepted"
                            => promise'[u] = Pending
    BY <2>1, <2>2 DEF HonestVerdicts
  <2>6. ASSUME NEW w \in Workers, worker'[w] \in {"finished", "recorded"}
        PROVE  /\ outcome'[w] \in Service!Verdicts
               /\ outcome'[w] = "cancelled" => current'[w] \in cancelled'
               /\ outcome'[w] = "timeout" => current'[w] \in expired'
    BY <2>1, <2>6 DEF HonestVerdicts
  <2>7. QED
    BY <2>4, <2>5, <2>6 DEF HonestVerdicts, Service!Verdicts
<1>3. ASSUME NEW t \in Tasks, ResolveRejected(t) PROVE HonestVerdicts'
  <2>1. /\ UNCHANGED <<status, worker, outcome, current, cancelled, expired>>
        /\ submitter'[t] \in {"notifying", "submitted"}
        /\ \A u \in Tasks : u # t => submitter'[u] = submitter[u] /\ promise'[u] = promise[u]
    BY <1>3 DEF ResolveRejected, pools, clients, TypeOK
  <2>2. QED
    BY <2>1, ShutdownStays, HonestUnchanged
<1>4. ASSUME NEW w \in Workers,
             Pop(w) \/ Exit(w) \/ Notify(w) \/ UnregisterRequest(w) \/ RecordFinished(w)
      PROVE  HonestVerdicts'
  <2>1. /\ UNCHANGED <<status, submitter, promise, cancelled, expired>>
        /\ worker'[w] \in {"finished", "recorded"} => /\ worker[w] = "finished"
                                                      /\ UNCHANGED <<current, outcome>>
        /\ \A v \in Workers : v # w => /\ worker'[v] = worker[v] /\ current'[v] = current[v]
                                       /\ outcome'[v] = outcome[v]
    BY <1>4 DEF Pop, Exit, Notify, UnregisterRequest, RecordFinished, MoveWorker, clients,
       submission, TypeOK
  <2>2. QED
    BY <2>1, ShutdownStays, HonestUnchanged
<1>5. ASSUME NEW w \in Workers, CheckRequest(w) \/ CheckDeadline(w) \/ HandlerReturns(w)
      PROVE  HonestVerdicts'
  <2>1. /\ UNCHANGED <<status, submitter, promise, cancelled, expired, current, closed>>
        /\ \A v \in Workers : v # w => worker'[v] = worker[v] /\ outcome'[v] = outcome[v]
    BY <1>5 DEF CheckRequest, CheckDeadline, HandlerReturns, Finish, MoveWorker, clients,
       submission, TypeOK
  <2>2. worker'[w] \in {"finished", "recorded"} =>
            /\ outcome'[w] \in Service!Verdicts
            /\ outcome'[w] = "cancelled" => current[w] \in cancelled
            /\ outcome'[w] = "timeout" => current[w] \in expired
    <3> USE DEF Finish, MoveWorker, Reply, Service!Verdicts, IsCancelled, DeadlineExceeded, TypeOK
    <3>1. CASE CheckRequest(w)
      BY <3>1 DEF CheckRequest
    <3>2. CASE CheckDeadline(w)
      BY <3>2 DEF CheckDeadline
    <3>3. CASE HandlerReturns(w)
      BY <3>3 DEF HandlerReturns
    <3>4. QED
      BY <1>5, <3>1, <3>2, <3>3
  <2>3. ASSUME NEW v \in Workers, worker'[v] \in {"finished", "recorded"}
        PROVE  /\ outcome'[v] \in Service!Verdicts
               /\ outcome'[v] = "cancelled" => current'[v] \in cancelled'
               /\ outcome'[v] = "timeout" => current'[v] \in expired'
    BY <2>1, <2>2, <2>3 DEF HonestVerdicts
  <2>4. ShutdownBegun' <=> ShutdownBegun
    BY <2>1 DEF ShutdownBegun
  <2>5. QED
    BY <2>1, <2>3, <2>4 DEF HonestVerdicts, Service!Verdicts
<1>6. ASSUME NEW w \in Workers, Publish(w) PROVE HonestVerdicts'
  <2>1. /\ UNCHANGED <<status, submitter, cancelled, expired, current, outcome>>
        /\ worker[w] = "recorded" /\ worker'[w] \in {"published", "notified"}
        /\ \A v \in Workers : v # w => worker'[v] = worker[v]
        /\ \A u \in Tasks : u # current[w] => promise'[u] = promise[u]
    BY <1>6 DEF Publish, MoveWorker, clients, submission, TypeOK
  <2>2. status[current[w]] = "Accepted"
    BY <2>1 DEF Placement
  <2>3. QED
    BY <2>1, <2>2, ShutdownStays, HonestUnchanged
<1>7. CASE (\E k \in Keys : CancelRequest(k)) \/ ClosePool \/ JoinPool \/ UNCHANGED vars
  <2>1. /\ UNCHANGED <<status, submitter, promise, current, outcome, worker>>
        /\ cancelled \subseteq cancelled' /\ expired \subseteq expired'
    BY <1>7 DEF CancelRequest, ClosePool, JoinPool, vars, pools, submission, clients
  <2>2. QED
    BY <2>1, ShutdownStays, HonestUnchanged
<1>8. QED
  BY <1>1, <1>2, <1>3, <1>4, <1>5, <1>6, <1>7 DEF Next, SubmitterStep, WorkerStep

-------------------------------------------------------------------------------
\* What a caller can tell of the tasks and of the shutdown.
LEMMA SameStages ==
    ASSUME UNCHANGED <<status, promise>>,
           \A u \in Tasks : submitter'[u] = "new" <=> submitter[u] = "new"
    PROVE  [u \in Tasks |-> StageOf(u)'] = [u \in Tasks |-> StageOf(u)]
  BY DEF StageOf

\* The step of one task.
LEMMA OneStageChanges ==
    ASSUME NEW t \in Tasks,
           \A u \in Tasks : u # t => /\ submitter'[u] = "new" <=> submitter[u] = "new"
                                     /\ status'[u] = status[u] /\ promise'[u] = promise[u]
    PROVE  [u \in Tasks |-> StageOf(u)']
              = [[u \in Tasks |-> StageOf(u)] EXCEPT ![t] = StageOf(t)']
<1>1. \A u \in Tasks : u # t => StageOf(u)' = StageOf(u)
  BY DEF StageOf
<1>2. QED
  BY <1>1

\* Each step of the runtime is one step of RequestService or invisible to it: a
\* request is refused at once or accepted, its future is set once and for all,
\* and it is told "cancelled", "timeout" or "shutting_down" only if that is so.
THEOREM ImplementsServiceSafety ==
    Spec => Service!Init /\ [][Service!Next]_(Service!vars)
<1>1. Init => Service!Init /\ HonestVerdicts
  <2> SUFFICES ASSUME Init PROVE Service!Init /\ HonestVerdicts
    OBVIOUS
  <2>1. ~ShutdownBegun
    BY DEF Init, ShutdownBegun
  <2>2. \A t \in Tasks : StageOf(t) = "absent"
    BY DEF Init, StageOf
  <2>3. Service!Init
    BY <2>1, <2>2 DEF Init, Service!Init
  <2>4. HonestVerdicts
    BY DEF Init, HonestVerdicts
  <2>5. QED
    BY <2>3, <2>4
<1>2. ASSUME TypeOK, Placement, OnePlacePerTask, RegistryTracksLiveTasks, HonestVerdicts, [Next]_vars
      PROVE  [Service!Next]_(Service!vars)
  <2> USE <1>2
  <2>1. ASSUME NEW t \in Tasks, Submit(t) PROVE Service!Submit(t)
    <3>1. /\ UNCHANGED <<status, promise, cancelled, expired, closed>>
          /\ submitter[t] = "new" /\ submitter'[t] = "registered"
          /\ \A u \in Tasks : u # t => submitter'[u] = submitter[u]
      BY <2>1 DEF Submit, clients, TypeOK
    <3>2. StageOf(t) = "absent" /\ StageOf(t)' = "open"
      BY <3>1 DEF StageOf, Placement
    <3>3. UNCHANGED ShutdownBegun
      BY <3>1 DEF ShutdownBegun
    <3>4. QED
      BY <3>1, <3>2, <3>3, OneStageChanges DEF Service!Submit
  <2>2. ASSUME NEW t \in Tasks, TryPush(t) PROVE Service!Accept(t) \/ UNCHANGED Service!vars
    <3>1. /\ UNCHANGED <<promise, cancelled, expired, closed>>
          /\ submitter[t] = "registered" /\ submitter'[t] = "pushed" /\ status[t] = "none"
          /\ \A u \in Tasks : u # t => submitter'[u] = submitter[u] /\ status'[u] = status[u]
      BY <2>2 DEF TryPush, clients, Placement, TypeOK
    <3>2. StageOf(t) = "open" /\ StageOf(t)' = IF status'[t] = "Accepted" THEN "accepted" ELSE "open"
      BY <3>1 DEF StageOf, Placement
    <3>3. UNCHANGED ShutdownBegun
      BY <3>1 DEF ShutdownBegun
    <3>4. CASE status'[t] = "Accepted"
      BY <3>1, <3>2, <3>3, <3>4, OneStageChanges DEF Service!Accept
    <3>5. CASE status'[t] # "Accepted"
      BY <3>1, <3>2, <3>3, <3>5, OneStageChanges DEF Service!vars
    <3>6. QED
      BY <3>4, <3>5
  <2>3. ASSUME NEW t \in Tasks,
               RecordAccepted(t) \/ RecordRejected(t) \/ NotifyRejected(t)
                 \/ WaitReady(t) \/ WaitTimesOut(t)
        PROVE  UNCHANGED Service!vars
    <3>1. /\ UNCHANGED <<status, promise, cancelled, expired, closed>>
          /\ \A u \in Tasks : submitter'[u] = "new" <=> submitter[u] = "new"
      BY <2>3 DEF RecordAccepted, RecordRejected, NotifyRejected, WaitReady, WaitTimesOut,
         clients, TypeOK
    <3>2. QED
      BY <3>1, SameStages DEF Service!vars, ShutdownBegun
  <2>4. ASSUME NEW t \in Tasks, ResolveRejected(t)
        PROVE  \E v \in Service!Refusals \cup {"silent"} : Service!Refuse(t, v)
    <3> DEFINE v == Reply(t, Rejection(status[t]))
    <3>1. /\ UNCHANGED <<status, cancelled, expired, closed>>
          /\ submitter[t] = "resolving" /\ submitter'[t] # "new"
          /\ \A u \in Tasks : u # t => submitter'[u] = submitter[u]
          /\ promise' = [promise EXCEPT ![t] = v]
      BY <2>4 DEF ResolveRejected, clients, TypeOK
    <3>2. status[t] \in {"QueueFull", "QueueClosed"}
      <4>1. status[t] # "none" /\ status[t] # "Accepted"
        BY <3>1 DEF Placement
      <4>2. status[t] \in Statuses
        BY DEF TypeOK
      <4>3. QED
        BY <4>1, <4>2 DEF Statuses
    <3>3. promise[t] = Pending
      BY <3>1, <3>2 DEF HonestVerdicts
    <3>4. v \in Service!Refusals \cup {"silent"} /\ v # Pending
      BY <3>2 DEF Reply, Rejection, Service!Refusals, Pending
    <3>5. v = "shutting_down" => ShutdownBegun
      BY <3>2 DEF Reply, Rejection, HonestVerdicts
    <3> HIDE DEF v
    <3>6. promise'[t] = v /\ \A u \in Tasks : u # t => promise'[u] = promise[u]
      BY <3>1 DEF TypeOK
    <3>7. StageOf(t) = "open" /\ StageOf(t)' = "resolved"
      BY <3>1, <3>2, <3>3, <3>4, <3>6 DEF StageOf
    <3>8. UNCHANGED ShutdownBegun
      BY <3>1 DEF ShutdownBegun
    <3>9. Service!Refuse(t, v)
      BY <3>1, <3>5, <3>6, <3>7, <3>8, OneStageChanges DEF Service!Refuse
    <3>10. QED
      BY <3>4, <3>9
  <2>5. ASSUME NEW t \in Tasks, AbandonWait(t) PROVE Service!Cancel(t)
    <3>1. /\ UNCHANGED <<status, promise, expired, closed>> /\ cancelled' = cancelled \cup {t}
          /\ submitter[t] = "timed_out"
          /\ \A u \in Tasks : submitter'[u] = "new" <=> submitter[u] = "new"
      BY <2>5 DEF AbandonWait, TypeOK
    <3>2. StageOf(t) # "absent"
      BY <3>1 DEF StageOf
    <3>3. QED
      BY <3>1, <3>2, SameStages DEF Service!Cancel, ShutdownBegun
  <2>6. ASSUME NEW t \in Tasks, DeadlinePasses(t) PROVE Service!Expire(t)
    <3>1. /\ UNCHANGED <<status, promise, cancelled, closed, submitter>> /\ expired' = expired \cup {t}
          /\ submitter[t] # "new"
      BY <2>6 DEF DeadlinePasses, submission
    <3>2. StageOf(t) # "absent"
      BY <3>1 DEF StageOf
    <3>3. QED
      BY <3>1, <3>2, SameStages DEF Service!Expire, ShutdownBegun
  <2>7. ASSUME NEW w \in Workers,
               Pop(w) \/ Exit(w) \/ CheckRequest(w) \/ CheckDeadline(w) \/ HandlerReturns(w)
                 \/ RecordFinished(w) \/ Notify(w) \/ UnregisterRequest(w)
        PROVE  UNCHANGED Service!vars
    <3>1. UNCHANGED <<submitter, status, promise, cancelled, expired, closed>>
      BY <2>7 DEF Pop, Exit, CheckRequest, CheckDeadline, HandlerReturns, RecordFinished,
         Notify, UnregisterRequest, submission, clients
    <3>2. QED
      BY <3>1, SameStages DEF Service!vars, ShutdownBegun
  <2>8. ASSUME NEW w \in Workers, Publish(w)
        PROVE  \E t \in Tasks : \E v \in Service!Verdicts : Service!Resolve(t, v)
    <3>1. /\ UNCHANGED <<status, submitter, cancelled, expired, closed>>
          /\ worker[w] = "recorded" /\ promise' = [promise EXCEPT ![current[w]] = outcome[w]]
      BY <2>8 DEF Publish, MoveWorker, submission, clients
    <3>2. PICK t \in Tasks : t = current[w]
      <4>1. current[w] # NoTask
        BY <3>1 DEF Placement
      <4>2. current[w] \in Tasks \cup {NoTask}
        BY DEF TypeOK
      <4>3. QED
        BY <4>1, <4>2
    <3>3. PICK v \in Service!Verdicts : v = outcome[w]
      BY <3>1 DEF HonestVerdicts
    <3>4. /\ v = "cancelled" => t \in cancelled
          /\ v = "timeout" => t \in expired
      BY <3>1, <3>2, <3>3 DEF HonestVerdicts
    <3>5. v # Pending
      BY DEF Service!Verdicts, Pending
    <3>6. status[t] = "Accepted" /\ promise[t] = Pending
      BY <3>1, <3>2 DEF OnePlacePerTask, HeldIn
    <3>7. submitter[t] # "new"
      BY <3>6 DEF Placement
    <3>8. /\ promise' = [promise EXCEPT ![t] = v]
          /\ promise'[t] = v /\ \A u \in Tasks : u # t => promise'[u] = promise[u]
      BY <3>1, <3>2, <3>3 DEF TypeOK
    <3>9. StageOf(t) = "accepted" /\ StageOf(t)' = "resolved"
      BY <3>1, <3>5, <3>6, <3>7, <3>8 DEF StageOf
    <3>10. UNCHANGED ShutdownBegun
      BY <3>1 DEF ShutdownBegun
    <3>11. Service!Resolve(t, v)
      BY <3>1, <3>4, <3>8, <3>9, <3>10, OneStageChanges DEF Service!Resolve
    <3>12. QED
      BY <3>11
  <2>9. ASSUME NEW k \in Keys, CancelRequest(k) PROVE \E t \in Tasks : Service!Cancel(t)
    <3>1. /\ UNCHANGED <<status, promise, expired, closed, submitter>>
          /\ cancelled' = cancelled \cup {registry[k]} /\ registry[k] # NoTask
      BY <2>9 DEF CancelRequest, submission
    <3>2. PICK t \in Tasks : t = registry[k] /\ Live(t)
      BY <3>1 DEF TypeOK, RegistryTracksLiveTasks
    <3>3. submitter[t] # "new"
      <4>1. CASE InSubmit(t)
        BY <4>1 DEF InSubmit
      <4>2. CASE Queued(t)
        BY <4>2 DEF OnePlacePerTask, Placement
      <4>3. ASSUME NEW w \in Workers, current[w] = t PROVE submitter[t] # "new"
        BY <4>3, TasksAssumption DEF Placement
      <4>4. QED
        BY <3>2, <4>1, <4>2, <4>3, LiveMeans
    <3>4. StageOf(t) # "absent"
      BY <3>3 DEF StageOf
    <3>5. Service!Cancel(t)
      BY <3>1, <3>2, <3>4, SameStages DEF Service!Cancel, ShutdownBegun
    <3>6. QED
      BY <3>2, <3>5
  <2>10. CASE ClosePool
    <3>1. UNCHANGED <<submitter, status, promise, cancelled, expired>>
      BY <2>10 DEF ClosePool, submission, clients
    <3>2. ShutdownBegun'
      <4>1. ShutdownOrder[joined + 1] \in Lanes
        <5>1. Len(ShutdownOrder) = 4 /\ \A i \in 1..4 : ShutdownOrder[i] \in Lanes
          BY DEF ShutdownOrder, Lanes
        <5>2. joined + 1 \in 1..4
          BY <2>10, <5>1 DEF ClosePool, TypeOK
        <5>3. QED
          BY <5>1, <5>2
      <4>2. QED
        BY <2>10, <4>1 DEF ClosePool, ShutdownBegun, TypeOK
    <3>3. QED
      BY <3>1, <3>2, SameStages DEF Service!Next, Service!BeginShutdown
  <2>11. CASE JoinPool \/ UNCHANGED vars
    <3>1. UNCHANGED <<submitter, status, promise, cancelled, expired, closed>>
      BY <2>11 DEF JoinPool, vars, submission, clients
    <3>2. QED
      BY <3>1, SameStages DEF Service!vars, ShutdownBegun
  <2>12. QED
    BY <2>1, <2>2, <2>3, <2>4, <2>5, <2>6, <2>7, <2>8, <2>9, <2>10, <2>11
    DEF Next, SubmitterStep, WorkerStep, Service!Next, Service!Decide
<1>3. QED
  BY <1>1, <1>2, TypeCorrect, InitialPlaces, PlacementStep, HonestStep, RegistryHasNoLeftovers,
     PTL DEF Spec

-------------------------------------------------------------------------------
\* The queue of any lane and its pool, as BoundedQueue sees them; ToolQueue and
\* DefaultQueue of TaskRuntime are two of them.
LaneQueue(l) == INSTANCE BoundedQueue WITH
    Items <- TasksOf(l), NoItem <- NoTask, Consumers <- PoolFor(l),
    Capacity <- Capacity[l], queue <- queue[l], closed <- closed[l],
    status <- PushStatus(l), consumer <- PopState(l), held <- Held(l)

\* A worker that neither calls wait_pop nor returns from it.
LEMMA SamePopState ==
    ASSUME NEW l, \A w \in Workers : /\ worker'[w] = "idle" <=> worker[w] = "idle"
                                     /\ worker'[w] = "exited" <=> worker[w] = "exited"
    PROVE  PopState(l)' = PopState(l)
<1>1. ASSUME NEW w \in Workers
      PROVE  (CASE worker'[w] = "idle"   -> "calling"
                [] worker'[w] = "exited" -> "stopped"
                [] OTHER                 -> "busy")
              = (CASE worker[w] = "idle"   -> "calling"
                   [] worker[w] = "exited" -> "stopped"
                   [] OTHER                -> "busy")
  OBVIOUS
<1>2. QED
  BY <1>1 DEF PopState, PoolFor

\* One worker calls wait_pop or returns from it.
LEMMA OnePopStateChanges ==
    ASSUME TypeOK, NEW l, NEW w \in PoolFor(l), NEW s, worker' = [worker EXCEPT ![w] = s]
    PROVE  PopState(l)' = [PopState(l) EXCEPT ![w] = IF s = "idle" THEN "calling"
                                                     ELSE IF s = "exited" THEN "stopped"
                                                     ELSE "busy"]
<1>1. worker'[w] = s /\ \A v \in Workers : v # w => worker'[v] = worker[v]
  BY DEF TypeOK, PoolFor
<1>2. QED
  BY <1>1 DEF PopState, PoolFor

\* The lanes run side by side, each by the rules of BoundedQueue: a task enters
\* the queue of its own lane only, leaves it in order and to a worker of that
\* lane, and a lane's workers leave worker_loop only when their own queue is
\* closed and drained, whatever the other lanes are doing.
THEOREM EachLaneIsBoundedQueue ==
    ASSUME NEW l \in Lanes
    PROVE  Spec => LaneQueue(l)!Init /\ [][LaneQueue(l)!Next]_(LaneQueue(l)!vars)
<1>1. Init => LaneQueue(l)!Init
  <2> SUFFICES ASSUME Init PROVE LaneQueue(l)!Init
    OBVIOUS
  <2>1. queue[l] = <<>> /\ closed[l] = FALSE
    BY DEF Init
  <2>2. PushStatus(l) = [t \in TasksOf(l) |-> "unsent"]
    BY DEF Init, PushStatus, TasksOf
  <2>3. PopState(l) = [w \in PoolFor(l) |-> "calling"]
    BY DEF Init, PopState, PoolFor
  <2>4. Held(l) = [w \in PoolFor(l) |-> NoTask]
    BY DEF Init, Held, PoolFor
  <2>5. QED
    BY <2>1, <2>2, <2>3, <2>4 DEF LaneQueue!Init
<1>2. ASSUME TypeOK, Placement, [Next]_vars
      PROVE  [LaneQueue(l)!Next]_(LaneQueue(l)!vars)
  <2> USE <1>2
  <2>1. ASSUME NEW t \in Tasks,
               Submit(t) \/ RecordAccepted(t) \/ RecordRejected(t) \/ ResolveRejected(t)
                 \/ NotifyRejected(t) \/ WaitReady(t) \/ WaitTimesOut(t) \/ AbandonWait(t)
                 \/ DeadlinePasses(t)
        PROVE  UNCHANGED LaneQueue(l)!vars
    <3>1. UNCHANGED <<queue, closed, status, worker, current>>
      BY <2>1 DEF Submit, RecordAccepted, RecordRejected, ResolveRejected, NotifyRejected,
         WaitReady, WaitTimesOut, AbandonWait, DeadlinePasses, pools, submission
    <3>2. QED
      BY <3>1, SamePopState DEF LaneQueue!vars, PushStatus, Held
  <2>2. ASSUME NEW t \in Tasks, TryPush(t), Lane(t) # l PROVE UNCHANGED LaneQueue(l)!vars
    <3>1. UNCHANGED <<closed, worker, current>> /\ queue'[l] = queue[l]
      BY <2>2 DEF TryPush, QueueFor, pools, TypeOK
    <3>2. \A u \in TasksOf(l) : status'[u] = status[u]
      BY <2>2 DEF TryPush, TasksOf, TypeOK
    <3>3. PushStatus(l)' = PushStatus(l)
      BY <3>2 DEF PushStatus, TasksOf
    <3>4. QED
      BY <3>1, <3>3, SamePopState DEF LaneQueue!vars, Held
  <2>3. ASSUME NEW t \in Tasks, TryPush(t), Lane(t) = l PROVE LaneQueue(l)!Offer(t)
    <3>1. /\ UNCHANGED <<closed, worker, current>>
          /\ status[t] = "none" /\ status' = [status EXCEPT ![t] = PushOutcome(l)]
          /\ queue' = IF PushOutcome(l) = "Accepted"
                      THEN [queue EXCEPT ![l] = Append(queue[l], t)] ELSE queue
      BY <2>3 DEF TryPush, QueueFor, pools, Placement
    <3>2. t \in TasksOf(l)
      BY <2>3 DEF TasksOf
    <3>3. /\ queue[l] \in Seq(Tasks) /\ closed[l] \in BOOLEAN
          /\ Len(queue[l]) \in Nat /\ Capacity[l] \in Nat
      BY LenProperties, PoolsAssumption DEF TypeOK
    <3>4. PushOutcome(l) # "none"
      BY <3>3 DEF PushOutcome
    <3>5. PushStatus(l)[t] = "unsent"
          /\ PushStatus(l)' = [PushStatus(l) EXCEPT ![t] = PushOutcome(l)]
      <4>1. status'[t] = PushOutcome(l) /\ \A u \in Tasks : u # t => status'[u] = status[u]
        BY <3>1 DEF TypeOK
      <4>2. QED
        BY <3>1, <3>2, <3>4, <4>1 DEF PushStatus, TasksOf
    <3>6. PopState(l)' = PopState(l) /\ Held(l)' = Held(l) /\ closed'[l] = closed[l]
      BY <3>1, SamePopState DEF Held
    <3>7. CASE ~closed[l] /\ Len(queue[l]) < Capacity[l]
      <4>1. PushOutcome(l) = "Accepted"
        BY <3>3, <3>7 DEF PushOutcome
      <4>2. queue'[l] = Append(queue[l], t)
        BY <3>1, <4>1 DEF TypeOK
      <4>3. QED
        BY <3>5, <3>6, <3>7, <4>1, <4>2 DEF LaneQueue!Offer
    <3>8. CASE ~closed[l] /\ Len(queue[l]) >= Capacity[l]
      <4>1. PushOutcome(l) = "QueueFull"
        BY <3>3, <3>8 DEF PushOutcome
      <4>2. queue'[l] = queue[l]
        BY <3>1, <4>1
      <4>3. QED
        BY <3>5, <3>6, <3>8, <4>1, <4>2 DEF LaneQueue!Offer
    <3>9. CASE closed[l]
      <4>1. PushOutcome(l) = "QueueClosed"
        BY <3>3, <3>9 DEF PushOutcome
      <4>2. queue'[l] = queue[l]
        BY <3>1, <4>1
      <4>3. QED
        BY <3>5, <3>6, <3>9, <4>1, <4>2 DEF LaneQueue!Offer
    <3>10. QED
      BY <3>3, <3>7, <3>8, <3>9
  <2>4. ASSUME NEW w \in Workers, PoolOf[w] # l, WorkerStep(w) \/ HandlerReturns(w)
        PROVE  UNCHANGED LaneQueue(l)!vars
    <3>1. UNCHANGED <<closed, status>> /\ queue'[l] = queue[l]
      BY <2>4, PoolsAssumption
      DEF WorkerStep, Pop, Exit, CheckRequest, CheckDeadline, HandlerReturns, RecordFinished,
         Publish, Notify, UnregisterRequest, submission, TypeOK
    <3>2. \A v \in PoolFor(l) : worker'[v] = worker[v] /\ current'[v] = current[v]
      BY <2>4
      DEF WorkerStep, Pop, Exit, CheckRequest, CheckDeadline, HandlerReturns, RecordFinished,
         Publish, Notify, UnregisterRequest, MoveWorker, Finish, PoolFor, TypeOK
    <3>3. PopState(l)' = PopState(l) /\ Held(l)' = Held(l)
      BY <3>2 DEF PopState, Held, PoolFor
    <3>4. QED
      BY <3>1, <3>3 DEF LaneQueue!vars, PushStatus
  <2>5. ASSUME NEW w \in Workers, PoolOf[w] = l, Pop(w) PROVE LaneQueue(l)!Take(w)
    <3>1. /\ UNCHANGED <<closed, status>> /\ queue[l] # <<>>
          /\ worker[w] = "idle" /\ worker' = [worker EXCEPT ![w] = "started"]
          /\ current' = [current EXCEPT ![w] = Head(queue[l])]
          /\ queue' = [queue EXCEPT ![l] = Tail(queue[l])]
      BY <2>5 DEF Pop, MoveWorker, submission
    <3>2. w \in PoolFor(l)
      BY <2>5 DEF PoolFor
    <3>3. PopState(l)[w] = "calling" /\ PopState(l)' = [PopState(l) EXCEPT ![w] = "busy"]
      <4>1. PopState(l)' = [PopState(l) EXCEPT ![w] = "busy"]
        <5>1. worker' = [worker EXCEPT ![w] = "started"]
          BY <3>1
        <5>2. PopState(l)' = [PopState(l) EXCEPT ![w] = IF "started" = "idle" THEN "calling"
                                                        ELSE IF "started" = "exited" THEN "stopped"
                                                        ELSE "busy"]
          BY <3>2, <5>1, OnePopStateChanges, Zenon
        <5>3. QED
          BY <5>2
      <4>2. PopState(l)[w] = "calling"
        BY <3>1, <3>2 DEF PopState
      <4>3. QED
        BY <4>1, <4>2
    <3>4. Held(l)' = [Held(l) EXCEPT ![w] = Head(queue[l])]
      BY <3>1, <3>2 DEF Held, PoolFor, TypeOK
    <3>5. queue'[l] = Tail(queue[l])
      BY <3>1 DEF TypeOK
    <3>6. QED
      BY <3>1, <3>3, <3>4, <3>5 DEF LaneQueue!Take, PushStatus
  <2>6. ASSUME NEW w \in Workers, PoolOf[w] = l, Exit(w) PROVE LaneQueue(l)!Stop(w)
    <3>1. /\ UNCHANGED <<closed, status, queue, current>> /\ queue[l] = <<>> /\ closed[l]
          /\ worker[w] = "idle" /\ worker' = [worker EXCEPT ![w] = "exited"]
      BY <2>6 DEF Exit, MayExit, MoveWorker, submission
    <3>2. w \in PoolFor(l)
      BY <2>6 DEF PoolFor
    <3>3. PopState(l)[w] = "calling" /\ PopState(l)' = [PopState(l) EXCEPT ![w] = "stopped"]
      BY <3>1, <3>2, OnePopStateChanges DEF PopState
    <3>4. QED
      BY <3>1, <3>3 DEF LaneQueue!Stop, PushStatus, Held
  <2>7. ASSUME NEW w \in Workers,
               CheckRequest(w) \/ CheckDeadline(w) \/ HandlerReturns(w) \/ RecordFinished(w)
                 \/ Publish(w) \/ Notify(w)
        PROVE  UNCHANGED LaneQueue(l)!vars
    <3>1. UNCHANGED <<closed, status, queue, current>>
      BY <2>7
      DEF CheckRequest, CheckDeadline, HandlerReturns, RecordFinished, Publish, Notify, submission
    <3>2. \A v \in Workers : /\ worker'[v] = "idle" <=> worker[v] = "idle"
                             /\ worker'[v] = "exited" <=> worker[v] = "exited"
      BY <2>7
      DEF CheckRequest, CheckDeadline, HandlerReturns, RecordFinished, Publish, Notify,
         MoveWorker, Finish, TypeOK
    <3>3. QED
      BY <3>1, <3>2, SamePopState DEF LaneQueue!vars, PushStatus, Held
  <2>8. ASSUME NEW w \in Workers, PoolOf[w] = l, UnregisterRequest(w) PROVE LaneQueue(l)!Call(w)
    <3>1. /\ UNCHANGED <<closed, status, queue>>
          /\ worker[w] = "notified" /\ worker' = [worker EXCEPT ![w] = "idle"]
          /\ current' = [current EXCEPT ![w] = NoTask]
      BY <2>8 DEF UnregisterRequest, MoveWorker, submission
    <3>2. w \in PoolFor(l)
      BY <2>8 DEF PoolFor
    <3>3. PopState(l)[w] = "busy" /\ PopState(l)' = [PopState(l) EXCEPT ![w] = "calling"]
      BY <3>1, <3>2, OnePopStateChanges DEF PopState
    <3>4. Held(l)' = [Held(l) EXCEPT ![w] = NoTask]
      BY <3>1, <3>2 DEF Held, PoolFor, TypeOK
    <3>5. QED
      BY <3>1, <3>3, <3>4 DEF LaneQueue!Call, PushStatus
  <2>9. CASE ClosePool
    <3> DEFINE k == ShutdownOrder[joined + 1]
    <3>1. /\ UNCHANGED <<status, queue, worker, current>>
          /\ ~closed[k] /\ closed' = [closed EXCEPT ![k] = TRUE]
      BY <2>9 DEF ClosePool, pools, submission
    <3> HIDE DEF k
    <3>2. PopState(l)' = PopState(l)
      BY <3>1, SamePopState
    <3>3. closed'[l] = IF l = k THEN TRUE ELSE closed[l]
      BY <3>1 DEF TypeOK
    <3>4. CASE l = k
      BY <3>1, <3>2, <3>3, <3>4 DEF LaneQueue!Next, LaneQueue!Close, PushStatus, Held
    <3>5. CASE l # k
      BY <3>1, <3>2, <3>3, <3>5 DEF LaneQueue!vars, PushStatus, Held
    <3>6. QED
      BY <3>4, <3>5
  <2>10. CASE (\E k \in Keys : CancelRequest(k)) \/ JoinPool \/ UNCHANGED vars
    <3>1. UNCHANGED <<queue, closed, status, worker, current>>
      BY <2>10 DEF CancelRequest, JoinPool, vars, pools, submission
    <3>2. QED
      BY <3>1, SamePopState DEF LaneQueue!vars, PushStatus, Held
  <2>11. \A t \in Tasks : Lane(t) = l => t \in TasksOf(l)
    BY DEF TasksOf
  <2>12. \A w \in Workers : PoolOf[w] = l => w \in PoolFor(l)
    BY DEF PoolFor
  <2>13. QED
    BY <2>1, <2>2, <2>3, <2>4, <2>5, <2>6, <2>7, <2>8, <2>9, <2>10, <2>11, <2>12
    DEF Next, SubmitterStep, WorkerStep, LaneQueue!Next
<1>3. QED
  BY <1>1, <1>2, TypeCorrect, InitialPlaces, PlacementStep, PTL DEF Spec
==============================================================================
