----------------------------- MODULE TaskRuntime -----------------------------
(***************************************************************************)
(* JsonRpcTaskRuntime: submission, the four lanes with their bounded       *)
(* queues and worker pools, execution of a task by a worker, the           *)
(* cancellation registry, the wait of a synchronous entry, the metrics and *)
(* the shutdown.  Threads: one submitter per task (an HTTP handler thread  *)
(* or the stdio reader), the workers, the thread that calls shutdown(),    *)
(* and clients that send $/cancelRequest.                                  *)
(*                                                                         *)
(* A step is one critical section or one atomic operation of the code.     *)
(* The queue operations are atomic here; TaskQueue shows that the queue's  *)
(* mutex and condition variable justify that.  An increment of a metrics   *)
(* counter, which no control decision reads, is merged with the operation  *)
(* next to it in the same thread.                                          *)
(***************************************************************************)
EXTENDS Integers, Sequences, FiniteSets

CONSTANTS
    Tasks,        \* task envelopes, each submitted at most once
    NoTask,
    Method,       \* the JSON-RPC method of each task
    Keys, NoKey,  \* (client id, request id) pairs; NoKey is a notification's
    Key,          \* the key of each task
    Entry,        \* how its submitter learns the result, see Entries
    Timed,        \* the tasks that carry a deadline
    Shape,        \* what execute_jsonrpc_task finds in each task, see Shapes
    IdReuse,      \* when a client reuses a request id, see MaySubmit
    Workers,      \* all worker threads
    PoolOf,       \* the lane each worker serves
    Capacity,     \* queue capacity of each lane
    SlowLanes     \* lanes whose handlers are not assumed to return

Lanes == {"Tool", "Resource", "Prompt", "Default"}

\* "wait": HTTP, submit and wait_for_result.  "callback": stdio, on_completed.
\* "detached": HTTP notification, nobody looks at the future.
Entries == {"wait", "callback", "detached"}

\* Fails the version/meta/method checks, names no handler, or reaches a handler.
Shapes == {"malformed", "unknown", "callable"}

ASSUME TasksAssumption ==
    /\ IsFiniteSet(Tasks) /\ NoTask \notin Tasks
    /\ NoKey \notin Keys /\ Key \in [Tasks -> Keys \cup {NoKey}]
    /\ Entry \in [Tasks -> Entries]
    /\ Timed \subseteq Tasks
    /\ Shape \in [Tasks -> Shapes]
    /\ IdReuse \in {"never", "after response", "any time"}
ASSUME PoolsAssumption ==
    /\ IsFiniteSet(Workers)
    /\ PoolOf \in [Workers -> Lanes]
    /\ \A l \in Lanes : \E w \in Workers : PoolOf[w] = l
    /\ Capacity \in [Lanes -> Nat \ {0}]
    /\ SlowLanes \subseteq Lanes

\* classify_task_lane
LaneOfMethod(m) ==
    CASE m = "tools/call"     -> "Tool"
      [] m = "resources/read" -> "Resource"
      [] m = "prompts/get"    -> "Prompt"
      [] OTHER                -> "Default"

Lane(t) == LaneOfMethod(Method[t])

IsNotification(t) == Key[t] = NoKey

------------------------------------------------------------------------------
\* JsonRpcTaskResult: "silent" is std::nullopt, the others are error codes or "ok".
Errors  == {"invalid", "cancelled", "timeout", "not_found", "failed",
            "unhandled", "busy", "shutting_down"}
Results == {"ok", "silent"} \cup Errors
Pending == "pending"

Reply(t, r) == IF IsNotification(t) THEN "silent" ELSE r

Statuses == {"none", "Accepted", "QueueFull", "QueueClosed"}

SubmitterStates ==
    {"new", "registered", "pushed", "resolving", "notifying", "submitted",
     "timed_out", "answered"}
WorkerStates ==
    {"idle", "started", "checked", "handling", "finished", "recorded",
     "published", "notified", "exited"}

VARIABLES
    submitter,   \* progress of each task's submitting thread
    status,      \* what try_push returned for each task
    queue,       \* per lane, queued tasks, oldest first
    closed,      \* per lane, queue closed
    registry,    \* requests_: the task whose token is registered under a key
    cancelled,   \* tasks whose cancellation token is set
    expired,     \* tasks whose deadline has passed
    worker,      \* progress of each worker through worker_loop
    current,     \* the envelope each worker holds
    outcome,     \* the result of the task each worker holds
    promise,     \* the value of each task's future
    notified,    \* how often each task's on_completed has run
    answer,      \* what wait_for_result returned for each task
    metrics,     \* the process-wide counters
    lanes,       \* the counters of each lane
    joined       \* how many worker pools shutdown() has joined

vars == <<submitter, status, queue, closed, registry, cancelled, expired, worker,
          current, outcome, promise, notified, answer, metrics, lanes, joined>>

submission == <<submitter, status, answer>>
pools      == <<worker, current, outcome>>
counters   == <<metrics, lanes>>
clients    == <<cancelled, expired>>

Init ==
    /\ submitter = [t \in Tasks |-> "new"]
    /\ status = [t \in Tasks |-> "none"]
    /\ queue = [l \in Lanes |-> <<>>]
    /\ closed = [l \in Lanes |-> FALSE]
    /\ registry = [k \in Keys |-> NoTask]
    /\ cancelled = {}
    /\ expired = {}
    /\ worker = [w \in Workers |-> "idle"]
    /\ current = [w \in Workers |-> NoTask]
    /\ outcome = [w \in Workers |-> Pending]
    /\ promise = [t \in Tasks |-> Pending]
    /\ notified = [t \in Tasks |-> 0]
    /\ answer = [t \in Tasks |-> Pending]
    /\ metrics = [total |-> 0, in_flight |-> 0, completed |-> 0, failed |-> 0,
                  timeout |-> 0, busy |-> 0, closed |-> 0]
    /\ lanes = [l \in Lanes |-> [accepted |-> 0, active |-> 0]]
    /\ joined = 0

------------------------------------------------------------------------------
(* The submitting thread. *)

Delivered(t) ==
    CASE Entry[t] = "wait"     -> submitter[t] = "answered"
      [] Entry[t] = "callback" -> notified[t] > 0
      [] OTHER                 -> promise[t] # Pending

\* A client may reuse a request id never, once it has the response, or freely.
MaySubmit(t) ==
    \/ IsNotification(t)
    \/ IdReuse = "any time"
    \/ \A u \in Tasks \ {t} : Key[u] = Key[t] =>
           submitter[u] = "new" \/ (IdReuse = "after response" /\ Delivered(u))

\* register_request overwrites; unregister_request erases by key, whichever
\* task is registered under it.
RegisterToken(t)   == IF IsNotification(t) THEN registry ELSE [registry EXCEPT ![Key[t]] = t]

\* Faulty: a finished request keeps its registration.
UnregisterNothing(t) == registry
UnregisterToken(t) == IF IsNotification(t) THEN registry ELSE [registry EXCEPT ![Key[t]] = NoTask]

(* submit: count the request and register its cancellation token. *)
Submit(t) ==
    /\ submitter[t] = "new"
    /\ MaySubmit(t)
    /\ submitter' = [submitter EXCEPT ![t] = "registered"]
    /\ metrics' = [metrics EXCEPT !.total = @ + 1]
    /\ registry' = RegisterToken(t)
    /\ UNCHANGED <<status, queue, closed, clients, pools, promise, notified,
                   answer, lanes, joined>>

\* queue_for; faulty: every task goes to the queue of the tools.
QueueOfTools(t) == "Tool"
QueueFor(t) == Lane(t)

\* What try_push returns; faulty: a closed queue still accepts.
PushIfRoom(l) == IF Len(queue[l]) >= Capacity[l] THEN "QueueFull" ELSE "Accepted"
PushOutcome(l) ==
    CASE closed[l]                                     -> "QueueClosed"
      [] ~closed[l] /\ Len(queue[l]) >= Capacity[l]    -> "QueueFull"
      [] ~closed[l] /\ Len(queue[l]) < Capacity[l]     -> "Accepted"

(* submit: try_push on the queue of the task's lane. *)
TryPush(t) ==
    LET l == QueueFor(t) IN
    /\ submitter[t] = "registered"
    /\ submitter' = [submitter EXCEPT ![t] = "pushed"]
    /\ status' = [status EXCEPT ![t] = PushOutcome(l)]
    /\ queue' = IF PushOutcome(l) = "Accepted"
                THEN [queue EXCEPT ![l] = Append(@, t)]
                ELSE queue
    /\ UNCHANGED <<closed, registry, clients, pools, promise, notified, answer,
                   counters, joined>>

(* submit, accepted: the lane counter is incremented after the push, when a *)
(* worker may already have executed the task.                               *)
RecordAccepted(t) ==
    /\ submitter[t] = "pushed" /\ status[t] = "Accepted"
    /\ submitter' = [submitter EXCEPT ![t] = "submitted"]
    /\ lanes' = [lanes EXCEPT ![Lane(t)].accepted = @ + 1]
    /\ UNCHANGED <<status, queue, closed, registry, clients, pools, promise,
                   notified, answer, metrics, joined>>

\* record_task_rejected; faulty: a rejection during shutdown is no failure.
BusyFails(s) ==
    IF s = "QueueFull" THEN [metrics EXCEPT !.failed = @ + 1, !.busy = @ + 1]
                       ELSE [metrics EXCEPT !.closed = @ + 1]
RejectionCounted(s) ==
    IF s = "QueueFull" THEN [metrics EXCEPT !.failed = @ + 1, !.busy = @ + 1]
                       ELSE [metrics EXCEPT !.failed = @ + 1, !.closed = @ + 1]

(* submit, refused: count the rejection and withdraw the registration. *)
RecordRejected(t) ==
    /\ submitter[t] = "pushed" /\ status[t] \in {"QueueFull", "QueueClosed"}
    /\ submitter' = [submitter EXCEPT ![t] = "resolving"]
    /\ metrics' = RejectionCounted(status[t])
    /\ registry' = UnregisterToken(t)
    /\ UNCHANGED <<status, queue, closed, clients, pools, promise, notified,
                   answer, lanes, joined>>

\* make_rejected_result; faulty: the two errors are exchanged.
RejectionSwapped(s) == IF s = "QueueFull" THEN "shutting_down" ELSE "busy"
Rejection(s) == IF s = "QueueFull" THEN "busy" ELSE "shutting_down"

(* submit, refused: completion.set_value with make_rejected_result. *)
ResolveRejected(t) ==
    /\ submitter[t] = "resolving"
    /\ promise' = [promise EXCEPT ![t] = Reply(t, Rejection(status[t]))]
    /\ submitter' = [submitter EXCEPT ![t] =
                       IF Entry[t] = "callback" THEN "notifying" ELSE "submitted"]
    /\ UNCHANGED <<status, queue, closed, registry, clients, pools, notified,
                   answer, counters, joined>>

(* submit, refused: on_completed runs on the submitting thread. *)
NotifyRejected(t) ==
    /\ submitter[t] = "notifying"
    /\ notified' = [notified EXCEPT ![t] = @ + 1]
    /\ submitter' = [submitter EXCEPT ![t] = "submitted"]
    /\ UNCHANGED <<status, queue, closed, registry, clients, pools, promise,
                   answer, counters, joined>>

------------------------------------------------------------------------------
(* wait_for_result, called by a synchronous entry after submit. *)

\* The deadline of a task, for its waiter and its worker.
DeadlineExceeded(t) == t \in expired

WaitReady(t) ==
    /\ Entry[t] = "wait" /\ submitter[t] = "submitted"
    /\ promise[t] # Pending
    /\ answer' = [answer EXCEPT ![t] = promise[t]]
    /\ submitter' = [submitter EXCEPT ![t] = "answered"]
    /\ UNCHANGED <<status, queue, closed, registry, clients, pools, promise,
                   notified, counters, joined>>

\* wait_until reports a timeout; the token is not cancelled yet.
WaitTimesOut(t) ==
    /\ Entry[t] = "wait" /\ submitter[t] = "submitted"
    /\ promise[t] = Pending
    /\ DeadlineExceeded(t)
    /\ metrics' = [metrics EXCEPT !.timeout = @ + 1]
    /\ submitter' = [submitter EXCEPT ![t] = "timed_out"]
    /\ UNCHANGED <<status, queue, closed, registry, clients, pools, promise,
                   notified, answer, lanes, joined>>

\* Faulty: the waiter withdraws the registration of a task that goes on.
AbandonAndUnregister(t) ==
    /\ submitter[t] = "timed_out"
    /\ cancelled' = cancelled \cup {t}
    /\ answer' = [answer EXCEPT ![t] = Reply(t, "timeout")]
    /\ submitter' = [submitter EXCEPT ![t] = "answered"]
    /\ registry' = UnregisterToken(t)
    /\ UNCHANGED <<status, queue, closed, expired, pools, promise, notified,
                   counters, joined>>

\* The waiter cancels the task's token, whose registration stays, and answers.
AbandonWait(t) ==
    /\ submitter[t] = "timed_out"
    /\ cancelled' = cancelled \cup {t}
    /\ answer' = [answer EXCEPT ![t] = Reply(t, "timeout")]
    /\ submitter' = [submitter EXCEPT ![t] = "answered"]
    /\ UNCHANGED <<status, queue, closed, registry, expired, pools, promise,
                   notified, counters, joined>>

------------------------------------------------------------------------------
(* worker_loop. *)

MoveWorker(w, from, to) ==
    /\ worker[w] = from
    /\ worker' = [worker EXCEPT ![w] = to]

(* wait_pop hands the oldest envelope to the worker; record_worker_started. *)
Pop(w) ==
    LET l == PoolOf[w]
        t == Head(queue[l]) IN
    /\ queue[l] # <<>>
    /\ MoveWorker(w, "idle", "started")
    /\ current' = [current EXCEPT ![w] = t]
    /\ queue' = [queue EXCEPT ![l] = Tail(@)]
    /\ metrics' = [metrics EXCEPT !.in_flight = @ + 1]
    /\ lanes' = [lanes EXCEPT ![Lane(t)].active = @ + 1]
    /\ UNCHANGED <<submission, closed, registry, clients, outcome, promise,
                   notified, joined>>

\* When wait_pop returns nullptr; faulty: as soon as the queue is closed, or never.
MayExitUndrained(l) == closed[l]
MayNeverExit(l) == l \notin Lanes
MayExit(l) == closed[l] /\ queue[l] = <<>>

(* wait_pop returns nullptr: the queue is closed and drained. *)
Exit(w) ==
    /\ MayExit(PoolOf[w])
    /\ MoveWorker(w, "idle", "exited")
    /\ UNCHANGED <<submission, queue, closed, registry, clients, current, outcome,
                   promise, notified, counters, joined>>

\* execute_jsonrpc_task returns early with error r.
Finish(w, from, r) ==
    /\ MoveWorker(w, from, "finished")
    /\ outcome' = [outcome EXCEPT ![w] = Reply(current[w], r)]

\* CancellationToken::is_cancelled; faulty: the token is ignored.
TokenIgnored(t) == t \notin Tasks
IsCancelled(t) == t \in cancelled

(* execute_jsonrpc_task: the protocol checks, then the cancellation token. *)
CheckRequest(w) ==
    /\ worker[w] = "started"
    /\ \/ /\ Shape[current[w]] = "malformed"
          /\ Finish(w, "started", "invalid")
       \/ /\ Shape[current[w]] # "malformed"
          /\ IsCancelled(current[w])
          /\ Finish(w, "started", "cancelled")
       \/ /\ Shape[current[w]] # "malformed"
          /\ ~IsCancelled(current[w])
          /\ MoveWorker(w, "started", "checked")
          /\ UNCHANGED outcome
    /\ UNCHANGED <<submission, queue, closed, registry, clients, current, promise,
                   notified, counters, joined>>

(* execute_jsonrpc_task: the clock is read after the token, then the method *)
(* is looked up.                                                            *)
CheckDeadline(w) ==
    /\ worker[w] = "checked"
    /\ \/ /\ DeadlineExceeded(current[w])
          /\ Finish(w, "checked", "timeout")
       \/ /\ ~DeadlineExceeded(current[w])
          /\ Shape[current[w]] = "unknown"
          /\ Finish(w, "checked", "not_found")
       \/ /\ ~DeadlineExceeded(current[w])
          /\ Shape[current[w]] = "callable"
          /\ MoveWorker(w, "checked", "handling")
          /\ UNCHANGED outcome
    /\ UNCHANGED <<submission, queue, closed, registry, clients, current, promise,
                   notified, counters, joined>>

(* The handler returns, throws a std::exception, or throws something else, *)
(* which only the catch (...) of worker_loop stops.                        *)
HandlerReturns(w) ==
    /\ worker[w] = "handling"
    /\ \/ Finish(w, "handling", "ok")
       \/ Finish(w, "handling", "failed")
       \/ Finish(w, "handling", "unhandled")
    /\ UNCHANGED <<submission, queue, closed, registry, clients, current, promise,
                   notified, counters, joined>>

\* record_worker_finished on the lane of a worker.
LaneGaugeDown(w) == [lanes EXCEPT ![Lane(current[w])].active = @ - 1]

(* record_worker_finished; a notification's failure counts as completed. *)
RecordFinished(w) ==
    /\ MoveWorker(w, "finished", "recorded")
    /\ metrics' =
         LET m == [metrics EXCEPT !.in_flight = @ - 1] IN
         CASE outcome[w] = "timeout" -> [m EXCEPT !.failed = @ + 1, !.timeout = @ + 1]
           [] outcome[w] \in Errors \ {"timeout"} -> [m EXCEPT !.failed = @ + 1]
           [] OTHER -> [m EXCEPT !.completed = @ + 1]
    /\ lanes' = LaneGaugeDown(w)
    /\ UNCHANGED <<submission, queue, closed, registry, clients, current, outcome,
                   promise, notified, joined>>

(* completion.set_value *)
Publish(w) ==
    /\ MoveWorker(w, "recorded",
                  IF Entry[current[w]] = "callback" THEN "published" ELSE "notified")
    /\ promise' = [promise EXCEPT ![current[w]] = outcome[w]]
    /\ UNCHANGED <<submission, queue, closed, registry, clients, current, outcome,
                   notified, counters, joined>>

(* on_completed, if the entry passed one. *)
Notify(w) ==
    /\ MoveWorker(w, "published", "notified")
    /\ notified' = [notified EXCEPT ![current[w]] = @ + 1]
    /\ UNCHANGED <<submission, queue, closed, registry, clients, current, outcome,
                   promise, counters, joined>>

(* unregister_request, after the response has left; then the next wait_pop. *)
UnregisterRequest(w) ==
    /\ MoveWorker(w, "notified", "idle")
    /\ registry' = UnregisterToken(current[w])
    /\ current' = [current EXCEPT ![w] = NoTask]
    /\ outcome' = [outcome EXCEPT ![w] = Pending]
    /\ UNCHANGED <<submission, queue, closed, clients, promise, notified, counters,
                   joined>>

------------------------------------------------------------------------------
(* Clients and the clock. *)

(* cancel_request: sets the token registered under the key, if there is one. *)
CancelRequest(k) ==
    /\ registry[k] # NoTask
    /\ cancelled' = cancelled \cup {registry[k]}
    /\ UNCHANGED <<submission, queue, closed, registry, expired, pools, promise,
                   notified, counters, joined>>

DeadlinePasses(t) ==
    /\ t \in Timed \ expired
    /\ submitter[t] # "new"
    /\ expired' = expired \cup {t}
    /\ UNCHANGED <<submission, queue, closed, registry, cancelled, pools, promise,
                   notified, counters, joined>>

------------------------------------------------------------------------------
(* shutdown: one pool after the other, each closed and then joined. *)

ShutdownOrder == <<"Tool", "Resource", "Prompt", "Default">>

ShutdownBegun == \E l \in Lanes : closed[l]

PoolExited(l) == \A w \in Workers : PoolOf[w] = l => worker[w] = "exited"

ClosePool ==
    /\ joined < Len(ShutdownOrder)
    /\ ~closed[ShutdownOrder[joined + 1]]
    /\ closed' = [closed EXCEPT ![ShutdownOrder[joined + 1]] = TRUE]
    /\ UNCHANGED <<submission, queue, registry, clients, pools, promise, notified,
                   counters, joined>>

\* Faulty: stop() does not return early on a stopped pool and joins it again.
JoinPoolAgain ==
    /\ ShutdownBegun
    /\ \A l \in Lanes : closed[l] => PoolExited(l)
    /\ joined' = joined + 1
    /\ UNCHANGED <<submission, queue, closed, registry, clients, pools, promise,
                   notified, counters>>

JoinPool ==
    /\ joined < Len(ShutdownOrder)
    /\ closed[ShutdownOrder[joined + 1]]
    /\ PoolExited(ShutdownOrder[joined + 1])
    /\ joined' = joined + 1
    /\ UNCHANGED <<submission, queue, closed, registry, clients, pools, promise,
                   notified, counters>>

------------------------------------------------------------------------------
SubmitterStep(t) ==
    \/ TryPush(t) \/ RecordAccepted(t) \/ RecordRejected(t) \/ ResolveRejected(t)
    \/ NotifyRejected(t) \/ WaitReady(t) \/ WaitTimesOut(t) \/ AbandonWait(t)

WorkerStep(w) ==
    \/ Pop(w) \/ Exit(w) \/ CheckRequest(w) \/ CheckDeadline(w)
    \/ RecordFinished(w) \/ Publish(w) \/ Notify(w) \/ UnregisterRequest(w)

Next ==
    \/ \E t \in Tasks : Submit(t) \/ SubmitterStep(t) \/ DeadlinePasses(t)
    \/ \E w \in Workers : WorkerStep(w) \/ HandlerReturns(w)
    \/ \E k \in Keys : CancelRequest(k)
    \/ ClosePool \/ JoinPool

\* Threads that are not blocked run, time passes, and a shutdown that has begun
\* goes on.  Handlers return in the lanes outside SlowLanes.  Nobody has to
\* submit, cancel or begin a shutdown.
Fairness ==
    /\ \A t \in Tasks : WF_vars(SubmitterStep(t)) /\ WF_vars(DeadlinePasses(t))
    /\ \A w \in Workers :
          /\ WF_vars(WorkerStep(w))
          /\ PoolOf[w] \notin SlowLanes => WF_vars(HandlerReturns(w))
    /\ WF_vars(ShutdownBegun /\ ClosePool) /\ WF_vars(JoinPool)

Spec == Init /\ [][Next]_vars /\ Fairness

------------------------------------------------------------------------------
\* Int and not Nat: GaugesExact and RequestsAccounted say that nothing wraps.
Metrics == [total : Int, in_flight : Int, completed : Int, failed : Int,
            timeout : Int, busy : Int, closed : Int]
LaneMetrics == [accepted : Int, active : Int]

TypeOK ==
    /\ submitter \in [Tasks -> SubmitterStates]
    /\ status \in [Tasks -> Statuses]
    /\ queue \in [Lanes -> Seq(Tasks)]
    /\ closed \in [Lanes -> BOOLEAN]
    /\ registry \in [Keys -> Tasks \cup {NoTask}]
    /\ cancelled \subseteq Tasks
    /\ expired \subseteq Tasks
    /\ worker \in [Workers -> WorkerStates]
    /\ current \in [Workers -> Tasks \cup {NoTask}]
    /\ outcome \in [Workers -> Results \cup {Pending}]
    /\ promise \in [Tasks -> Results \cup {Pending}]
    /\ notified \in [Tasks -> Nat]
    /\ answer \in [Tasks -> Results \cup {Pending}]
    /\ metrics \in Metrics
    /\ lanes \in [Lanes -> LaneMetrics]
    /\ joined \in 0..Len(ShutdownOrder)

Queued(t) == \E i \in DOMAIN queue[Lane(t)] : queue[Lane(t)][i] = t

HeldIn(t, states) == \E w \in Workers : current[w] = t /\ worker[w] \in states

\* The worker states between record_worker_started and record_worker_finished.
Executing == {"started", "checked", "handling", "finished"}

\* Received, and neither its rejection nor its execution has been counted.
Uncounted(t) ==
    \/ submitter[t] = "registered"
    \/ submitter[t] = "pushed" /\ status[t] # "Accepted"
    \/ Queued(t)
    \/ HeldIn(t, Executing)

\* Received, and its registration has not been withdrawn.
Live(t) ==
    \/ submitter[t] = "registered"
    \/ submitter[t] = "pushed" /\ status[t] # "Accepted"
    \/ Queued(t)
    \/ HeldIn(t, WorkerStates)

\* Every received request is counted exactly once, as completed or as failed,
\* by whichever of submit, the worker's normal path or its catch (...) path ends
\* it; until then it is in submit, in a queue or with a worker (jsonrpc_metrics).
RequestsAccounted ==
    /\ metrics.total = Cardinality({t \in Tasks : submitter[t] # "new"})
    /\ metrics.total = metrics.completed + metrics.failed
                         + Cardinality({t \in Tasks : Uncounted(t)})
    /\ metrics.failed >= metrics.busy + metrics.closed

\* The gauges are the workers that execute a task, in each lane and in sum: no
\* exit of worker_loop skips or repeats the decrement, which would leave a
\* permanent offset or wrap the unsigned counter.
GaugesExact ==
    /\ metrics.in_flight = Cardinality({w \in Workers : worker[w] \in Executing})
    /\ \A l \in Lanes : lanes[l].active =
           Cardinality({w \in Workers : PoolOf[w] = l /\ worker[w] \in Executing})

\* A registered token belongs to a request that still is in submit, in a queue
\* or with a worker, under the key it was submitted with: the registry neither
\* grows without bound nor keeps the token of an answered request.
RegistryTracksLiveTasks ==
    \A k \in Keys : registry[k] # NoTask => Key[registry[k]] = k /\ Live(registry[k])

\* A request with an id that is queued or executing can be found by
\* $/cancelRequest: its own registration is in place.  The code promises it
\* with "the newest token is used" (jsonrpc_cancellation_registry.cpp).
PendingIsCancellable ==
    \A t \in Tasks : ~IsNotification(t) /\ (Queued(t) \/ HeldIn(t, Executing))
                         => registry[Key[t]] = t

\* Envelopes are handed over, never copied: a task is in one place at a time.
\* In no queue and with no worker before it was accepted or after it was
\* resolved, in its own lane's queue at most once, and with one worker at most.
OnePlacePerTask ==
    /\ \A t \in Tasks : Queued(t) \/ HeldIn(t, Executing \cup {"recorded"})
                            => status[t] = "Accepted" /\ promise[t] = Pending
    /\ \A l \in Lanes : \A i, j \in DOMAIN queue[l] :
           /\ Lane(queue[l][i]) = l
           /\ queue[l][i] = queue[l][j] => i = j
    /\ \A v, w \in Workers : current[v] = current[w] /\ current[v] # NoTask => v = w
    /\ \A w \in Workers : current[w] # NoTask =>
           Lane(current[w]) = PoolOf[w] /\ ~Queued(current[w])

\* on_completed runs at most once per task and never before the future is ready,
\* although submit, the normal path and the catch (...) path each call it.
NotifiedOnce ==
    \A t \in Tasks : notified[t] <= 1 /\ (notified[t] = 1 => promise[t] # Pending)

\* When shutdown() returns, every accepted task has been executed and answered,
\* and every lane refuses new ones; nothing is left to a worker that is gone.
ShutdownAnswersAccepted ==
    joined = Len(ShutdownOrder) =>
        \A t \in Tasks : status[t] = "Accepted" =>
            promise[t] # Pending /\ (Entry[t] = "callback" => notified[t] = 1)

------------------------------------------------------------------------------
\* A task cancelled or overdue while it is still queued never reaches its
\* handler, whatever happens between the signal and the moment a worker takes it
\* (wait_for_result and cancel_request against execute_jsonrpc_task).
StaleNeverRuns ==
    \A t \in Tasks :
        [](Queued(t) /\ t \in cancelled \cup expired => []~HeldIn(t, {"handling"}))

\* Slow tools are isolated: a request of a lane whose handlers return is
\* resolved even if no handler of SlowLanes ever returns.
LaneIsolation ==
    \A t \in Tasks : Lane(t) \notin SlowLanes =>
        (submitter[t] = "registered" ~> promise[t] # Pending)

\* A shutdown that has begun joins every pool, provided handlers return.
ShutdownCompletes == ShutdownBegun ~> joined = Len(ShutdownOrder)

------------------------------------------------------------------------------
StageOf(t) ==
    CASE submitter[t] = "new" -> "absent"
      [] submitter[t] # "new" /\ promise[t] # Pending -> "resolved"
      [] submitter[t] # "new" /\ promise[t] = Pending /\ status[t] = "Accepted" -> "accepted"
      [] OTHER -> "open"

Service == INSTANCE RequestService WITH
    Requests   <- Tasks,
    Unresolved <- Pending,
    stage      <- [t \in Tasks |-> StageOf(t)],
    verdict    <- promise,
    late       <- expired,
    accepting  <- ~ShutdownBegun

\* The runtime keeps the promises of RequestService: each request is resolved
\* once and for all, with an honest verdict, and eventually.
ImplementsRequestService == Service!Spec

TasksOf(l) == {t \in Tasks : Lane(t) = l}
PoolFor(l) == {w \in Workers : PoolOf[w] = l}
PushStatus(l) ==
    [t \in TasksOf(l) |-> IF status[t] = "none" THEN "unsent" ELSE status[t]]
PopState(l) ==
    [w \in PoolFor(l) |-> CASE worker[w] = "idle"   -> "calling"
                            [] worker[w] = "exited" -> "stopped"
                            [] OTHER                -> "busy"]
Held(l) == [w \in PoolFor(l) |-> current[w]]

ToolQueue == INSTANCE BoundedQueue WITH
    Items <- TasksOf("Tool"), NoItem <- NoTask, Consumers <- PoolFor("Tool"),
    Capacity <- Capacity["Tool"], queue <- queue["Tool"], closed <- closed["Tool"],
    status <- PushStatus("Tool"), consumer <- PopState("Tool"), held <- Held("Tool")

DefaultQueue == INSTANCE BoundedQueue WITH
    Items <- TasksOf("Default"), NoItem <- NoTask, Consumers <- PoolFor("Default"),
    Capacity <- Capacity["Default"], queue <- queue["Default"], closed <- closed["Default"],
    status <- PushStatus("Default"), consumer <- PopState("Default"), held <- Held("Default")

\* Two lanes run side by side, each by the rules of BoundedQueue: a task enters
\* the queue of its own lane only, leaves it in order and to a worker of that
\* lane, and a lane's workers leave worker_loop only when their own queue is
\* closed and drained, whatever the other lane is doing.
LanesUseTheirQueues == ToolQueue!Spec /\ DefaultQueue!Spec
==============================================================================
