# TLA+ model of the concurrent MCP server

The repository is a C++17 server for the Model Context Protocol (JSON-RPC over
HTTP or stdio, optional SSE event stream). Its own claims are about concurrency:
four isolated execution lanes with bounded queues, cancellation and deadlines,
a circuit breaker for tools, bounded SSE fan-out, a graceful shutdown. This
directory models that part of it, checks it with TLC on small instances and
proves the core of it with TLAPS for instances of every size.

All line numbers refer to `src/src/…`; `PROJECT.json` ("map") gives the lines
each definition stands for.

## 1. Inventory

| Part (source) | State it keeps | Operations | What makes it correct | Model |
|---|---|---|---|---|
| Bounded task queue (`json_rpc/jsonrpc_task_queue`) | deque, `closed_`, mutex, condition variable | `try_push`, `wait_pop`, `close` | never over capacity; no lost wakeup; drained before workers leave | `TaskQueue`, `BoundedQueue` |
| Task runtime (`json_rpc/jsonrpc_task_runtime`) | four queues and pools, registry, metrics | `submit`, `wait_for_result`, `cancel_request`, `shutdown` | every request is resolved once, with the right verdict, whatever races | `TaskRuntime`, `RequestService` |
| Worker pool (`json_rpc/jsonrpc_worker_pool`) | threads, the envelope each holds | `worker_loop`, `start`, `stop` | metrics, future, callback and registration each handled once on every path | `TaskRuntime` |
| Cancellation registry (`json_rpc/jsonrpc_cancellation_registry`) | (client, id) → token | register, unregister, cancel | tracks live requests only; a live request can be found | `TaskRuntime` |
| Task execution (`json_rpc/jsonrpc_task`) | – | `classify_task_lane`, deadline, `execute_jsonrpc_task` | stale tasks do not reach a handler | `TaskRuntime` |
| Metrics (`json_rpc/jsonrpc_metrics`) | atomic counters, lane gauges | `record_*`, snapshot | each request counted once; gauges return to zero | `TaskRuntime` (task counters) |
| Request context (`json_rpc/jsonrpc_request_context`) | token, deadline, thread-local pointer | `is_cancelled`, `deadline_exceeded`, `should_stop` | – | `ToolCircuitBreaker`, `ToolCall`, `TaskRuntime` |
| Tool circuit breaker (`mcp/tool_circuit_breaker` and the `tools/call` handler in `mcp_server_main.cpp`) | state, failures, opening time per tool | `allow_call`, `record_success`, `record_failure` | opens at the threshold, recovers through one probe | `ToolCircuitBreaker` |
| SSE event hub and endpoint (`json_rpc/sse_event_hub`, `json_rpc/http_sse_server`, provider callbacks in `mcp_server_main.cpp`) | ids, replay history, pending queue per subscriber, connections | publish, subscribe, unsubscribe, `wait_and_pop`, stop | increasing ids, recent events survive a reconnect, limits, threads end | `SseEventHub` |
| HTTP transport (`json_rpc/http_jsonrpc`) | sessions, one handler thread per POST, `running_` | validation of `/mcp`, preflight, sessions, map and gather of a batch, streamed answer, run, stop | one response per request, in order; abandoned work is cancelled; clients do not touch each other | `HttpValidation`, `HttpTransport`, `ServerProcess` |
| stdio transport (`json_rpc/stdio_jsonrpc`) | framing, pending counter, writer lock | read loop, completion callback, wait at end of input | whole frames; every accepted request is answered before `run` returns | `StdioServer` |
| MCP server (`mcp/mcp_server`) | tools, resources, prompts, event callback | `call_tool` with retries | bounded attempts, deadline respected, start and end events paired | `ToolCall` |
| `write_file` (`mcp_server_main.cpp`) | 64 striped mutexes, files | lock, four checks of the token, truncate, write | writers do not mix their contents; the stripe is always released | `ToolCall` |
| Process lifecycle (`mcp_server_main.cpp`) | `g_running`, servers, SSE thread, publisher thread | main in three modes, signal handler, start, stop, join | every stop ends the process; nobody uses what is gone | `ServerProcess` |
| Configuration (`config/config`) | JSON document | load, defaults, validate, getters | accepted values are usable by every reader | `Configuration` |
| Protocol types (`mcp/types`, `json_rpc/jsonrpc_serialization`, `json_rpc/protocol_version`) | – | conversion, version check | – | classes of messages in the transports |
| Weather client, logger, client SDK, `ai_integration/` | – | network I/O, logging, sequential client | – | not modelled |

**How they interact.** A transport thread builds an envelope and calls
`submit`, which registers the token, classifies the method into a lane and
pushes to that lane's queue. A worker of the lane pops it, executes the method's
handler, records the metrics, sets the future, runs the callback (stdio) and
withdraws the registration. An HTTP thread meanwhile waits on the future until
the deadline; on a timeout it sets the task's token and answers itself. The
`tools/call` handler brackets `call_tool` with the circuit breaker. Tool events
are published to the hub and leave through the SSE server, a second HTTP server
with its own threads. `call_tool` runs the handler, repeats it if its policy
allows and stops when its token or deadline says so. On a signal the HTTP server
stops, then the SSE server, then the runtime shuts its pools down one after the
other; in mode `stdio` the end of the input has the same effect.

**What is hard.** Steps of these threads interleave at every lock release:
between a push and its `notify_one`, between a result and the cleanup behind it,
between a timeout and a late answer, between a shutdown and a submission. State
is read by key after it may have been replaced (registry), results arrive in an
order other than the calls' (breaker), connections break and reconnect (SSE).
Two transports share one runtime, and main, a signal handler and four threads
decide when all of it ends. `PROJECT.json` ("hazards") lists each one at its line
with the properties that cover it or the reason why none does.

## 2. Modules

| Module | Role |
|---|---|
| `BoundedQueue` | abstract: what a queue promises to producers and consumers |
| `TaskQueue` | the queue with mutex sections, sleeping workers, late notifications |
| `TaskQueue_proofs` | TLAPS proofs about `TaskQueue` |
| `RequestService` | abstract: what the runtime promises about one request |
| `TaskRuntime` | submitters, four lanes, workers, registry, metrics, waiters, shutdown |
| `TaskRuntime_proofs` | TLAPS proofs about `TaskRuntime`: envelopes, registry, shutdown |
| `TaskRuntimeService_proofs` | TLAPS proofs about `TaskRuntime`: accounts, stale requests, the two refinements |
| `ToolCircuitBreaker` | breaker and the handler that uses it |
| `ToolCircuitBreaker_proofs` | TLAPS proofs about `ToolCircuitBreaker` |
| `SseEventHub` | hub, SSE endpoint, connections, reconnecting clients |
| `SseEventHub_proofs` | TLAPS proofs about `SseEventHub` |
| `ToolCall` | the retry loop of `call_tool` and the handler of `write_file` |
| `ToolCall_proofs` | TLAPS proofs about `ToolCall` |
| `HttpValidation` | what `/mcp` lets through: pure operators |
| `HttpTransport` | the HTTP handlers over an abstract runtime |
| `HttpTransport_proofs` | TLAPS proofs about `HttpValidation` and `HttpTransport` |
| `StdioServer` | reader, callbacks and writer of the stdio transport over an abstract runtime |
| `Configuration` | load, defaults, validation, getters: pure operators |
| `ServerProcess` | main, signals, all threads; composes `Configuration` and `StdioServer` |
| `ServerProcess_proofs` | TLAPS proofs about `Configuration`, `StdioServer` and `ServerProcess` |
| `MC*` | constants for TLC |

Definitions marked "Faulty" are variants of the definition after them: what a
plausible mistake in the code would make of it. No specification uses them; they
serve to confirm that each property notices the mistake (PROJECT.json,
"mutants").

**`TaskQueue`.** One action per critical section of `mutex_`: the three outcomes
of `try_push`, of `wait_pop` (take, sleep, leave) and `close`. The calls to
`notify_one` and `notify_all` happen after the unlock in the code and are
actions of their own. Sleepers also wake spuriously. There is a producer per
item, a consumer per worker, a closer per caller of `close()`.

**`TaskRuntime`.** A state of `submitter[t]` is a position in `submit` and
`wait_for_result`, a state of `worker[w]` a position in `worker_loop` and
`execute_jsonrpc_task`. A step is one critical section or atomic operation:
register, push, count, resolve, notify, unregister. The registry overwrites and
erases by key, as the code does. The queues are atomic here; the refinement
`ImplementsBoundedQueue` and the property `LanesUseTheirQueues` connect both
levels. A metrics increment, which no decision reads, is merged with the step
next to it in its thread. The order of the checks in `execute_jsonrpc_task`
(protocol, token, clock, method lookup) is kept; the individual protocol checks
are one class of request, "malformed". A handler ends well, with a
`std::exception`, or with another exception that only `worker_loop` catches.

**`ToolCircuitBreaker`.** Callers are the workers of the tool lane. Time is two
facts: the cool-down has elapsed, the deadline has passed. The token is set by a
client or by the waiter that gave up. The tools in `Throwing` may end `call_tool`
by an exception, which leaves the handler without a record: so does a name that
is not registered, and a handler that throws something that is no
`std::exception`. `abandoned` is history: the tools of which a probe was lost.

**`SseEventHub`.** A step is a critical section of the hub or one write to the
socket. httplib is outside the repository: it serves `SseWorkers` connections,
calls the content provider of a connection again whenever it returned true, and
closes the connection when a write failed, the peer is gone or the server was
stopped. A write to a broken connection may fail or vanish. The condition
variable of the hub is left out because each wait ends after a second, so that a
missed wakeup delays an event and decides nothing. The number of subscribers the
hub admits is chosen at the start (`ClientLimits`). `got`, `joined` and `refused`
are history.

**`ToolCall`.** `pc[c]` is a position in `call_tool`, in the handler of
`write_file`, or inside any other handler, which returns or throws one of three
kinds of exception. The code asks whether a call should stop at nine places; the
answer becomes true once, between any two steps (`Stop`), whether by the token,
the request's deadline or the tool's own budget. A file is seen through what it
holds: the old content, nothing, what one call wrote, part of it, or a mixture.
That one file has one normalised path is an assumption (`OnePathPerFile`): two
symbolic links to a file may hash to different stripes.

**`HttpValidation`, `HttpTransport`.** A POST has a thread of httplib from
`Accept` to "closed"; `where[p]` is its position in the handler. `/jsonrpc` maps
the elements of a batch one by one (`MapSubmit`, `MapCancel`, `MapInvalid`), then
gathers the results in order; a single message is a batch of one whose
notification is waited for. `/mcp` validates, submits, and acknowledges, gathers
or streams; the stream polls the result, then the connection, then the clock, in
that order. An answer of a stream that cannot be serialised throws out of the content
provider (`ProviderThrows`), which httplib calls outside its routing's try block:
the process terminates (`Terminated`), and with it every other POST. The runtime
is reduced to what `RequestService` promises: a task is
refused at once or resolved later, if at all, with a verdict that its token and
its clock justify. Registration and removal by key are kept, since cancellation
depends on them. A header is its decoded value; the alternatives of each header
(absent, right, wrong, undecodable) are enumerated. An absent header reads as the
empty string (`HeaderValue`), which is refused for the version and the method but
agrees with a body whose name is empty. Of a header that is sent more than once the
code reads the first; the model has that one only.

**`StdioServer`.** The reader is one thread; each message has the progress of
its response (`callback[m]`), which a worker, or the reader itself, moves. Frames
are classified by what `readMessage` and `run` make of them, including those
that make them throw; a request for which `GetRequestTimeoutMs` throws is one of
them. A response is written in two parts so that an interleaving
on stdout would show.

**`Configuration`, `ServerProcess`.** A document is its section shapes, its integers
and the set of fields of a wrong type, the two logging options that `ValidateConfig`
does not look at (`Unchecked`) included. Each getter is called where the code calls
it: the port and the logging options before the try block, what the runtime and the
breaker need inside it, the SSE fields in `run_http_mode`, and `request_timeout_ms`
for each request. After `Build` only the set of fields whose getters will throw
(`throwing`) is kept. `int` and `std::size_t` have the widths `IntWidth` and
`SizeWidth`, so that narrowing happens. `ServerProcess` runs `LoadFromFile` and the
getters as steps of main, then the servers: listening may fail; `stop()` is without
effect before `listen()` accepts (both as in httplib's `listen_internal` and
`stop`); a destroyed joinable thread or an exception on a thread's top level aborts
the process. `StdioServer` is instanced with the process's variables; a refused or
answered stdio request is the runtime's part in it.

## 3. Runs

| Run | Question | Result |
|---|---|---|
| `task_queue` | Are wakeups lost, do workers leave with work queued? Does the queue implement `BoundedQueue`, with its capacity and its liveness? | holds |
| `task_runtime` | With mixed requests (a waited call with deadline, a callback call of an unknown method, a malformed notification), cancellation and shutdown at any moment: are counters and registry exact, can live requests be cancelled, is every accepted task answered when `shutdown` returns? | holds |
| `request_service` | Is each request resolved exactly once, with an honest verdict and eventually? Does a shutdown end? Can a cancelled or overdue queued task still reach its handler? | holds (it cannot) |
| `lane_isolation` | What if tool handlers never return? | other lanes still resolve, both lanes keep to `BoundedQueue` |
| `request_id_reuse` | Is a pending request always cancellable? | **violated** if a client reuses an id after the response |
| `breaker` | Do state and failure count agree under overlapping, cancelled and throwing calls? Is a half-open circuit's probe in flight, unless it was cancelled or threw? | holds |
| `breaker_stuck` | Does a half-open circuit always leave that state? | **violated** by a cancelled probe |
| `sse` | Does a client that reconnects see increasing ids and all recent events, also when its first attempt was refused? Do all connection threads end after the signal? | holds |
| `process` | From any configuration file, in each mode: are the validated fields of accepted configurations usable, stdio frames whole and complete when `run` returns, callbacks safe, threads joined before the runtime is shut down, and does a signal end a serving process? | holds |
| `http_listen_fails` | Does the process end if the HTTP port cannot be bound? | **violated** by a connected SSE client |
| `tool_call` | Do events and results tell the same story, are attempts bounded, contents unmixed, and does every call return, wherever a stop falls? | holds |
| `http` | Are batches answered completely and in order, abandoned tasks cancelled, cancellations kept to their user, headers and bodies in agreement, and does every POST end even if no handler returns, unless an exception in a stream ends the process? | holds |

Deadlock checking is off everywhere because every system here may legitimately
stop: all tasks answered and all workers gone, all connections closed, the
process exited, or nobody calls. What must not stop is stated as liveness.

### Disagreements found

1. `jsonrpc_worker_pool.cpp:274`: the worker removes the registration by key
   after the response has left. If the client has reused the id by then, the
   new request loses its registration and cannot be cancelled, although
   `jsonrpc_cancellation_registry.cpp:14` promises that the newest token is used.
2. `mcp_server_main.cpp:557`: a cancelled probe returns without recording, and so
   does one whose `call_tool` throws (line 551). The
   circuit stays half-open, where `allow_call` refuses everybody, so the tool is
   disabled until a restart (or a straggler's report); README line 25 promises
   automatic recovery.
3. `mcp_server_main.cpp:927`: if the HTTP server cannot listen, the SSE server is
   stopped and joined while `g_running` is still true. A client connected to the
   SSE port keeps its thread in `while (g_running.load())`, so the join waits for
   ever and the error is never reported. Without a client the same happens if the
   stop precedes the SSE thread's `listen()`. Line 902 says the thread is
   stopped and reclaimed in this case too.

Other behaviour the models show. No run is made of it, because a single step of
the code shows it or because its intent is not stated firmly enough to call it a
fault:

- `log_file_path` and `log_console_output` are not validated. With a value of
  another type `LoadFromFile` succeeds, and main, which reads them outside its try
  block (`mcp_server_main.cpp:1025`), aborts. `BuildOutcomes` has this outcome and
  `AcceptedConfigUsable` leaves these two options out.
- A negative `log_file_size` becomes a large `size_t` and passes (`config.cpp:265`),
  although the comment before it says the size should be positive; it is left out of
  `AcceptedConfigUsable` as well.
- `write_file` has truncated the file when it looks at its token for the last time
  (`mcp_server_main.cpp:338`); cancelled there, it answers "Request cancelled before
  file write" (`:303`) with the file empty (`WriteOpened`).
- A waiter's timeout sets the same token as a client's cancellation
  (`jsonrpc_task_runtime.cpp:298`, `mcp_server_main.cpp:557`): a tool that hangs
  until its callers give up is never recorded as failing (`SkipCancelled`).
- The breaker does not attribute results to the state they were admitted in
  (`tool_circuit_breaker.cpp:42`, `:50`): a straggler's failure reopens a
  half-open circuit, so that a second probe may run beside the first; its success
  closes an open circuit.
- After a refusal the SSE provider returns true and is called again
  (`http_sse_server.cpp:183`): the refused connection repeats the error event
  and is subscribed when a place is free.
- A streamed `tools/call` that times out (`http_jsonrpc.cpp:810`) is not counted
  as a timeout, one that times out in the waiter and the worker counts twice.
- A signal that arrives before a server accepts is lost: `HttpJsonRpcServer::stop`
  returns at once before `running_` is set and has no effect between that and
  `listen`'s loop. `SignalStops` is therefore stated for serving processes.
- One result that is not valid UTF-8 replaces the whole answer of its batch
  (`http_jsonrpc.cpp:1218`). On stdio, a parse error whose text is not valid
  UTF-8 escapes `run()` (`stdio_jsonrpc.cpp:352`), and with pending requests the
  server object is destroyed under their callbacks.
- An input that fails without ending makes `run()` spin (`stdio_jsonrpc.cpp:309`).
- A configuration that does not load is only reported (`mcp_server_main.cpp:1011`);
  what follows ranges from defaults over exit code 1 to an exception outside of
  the try block. A wrong type among the SSE fields ends mode `http` with code 1,
  aborts mode `both` and does nothing in mode `stdio`; one in `request_timeout_ms`
  lets the first stdio request end `run()` by an exception and makes the HTTP
  server answer 500. `--port` may still equal the SSE port.
- A result of a streamed `tools/call` that is not valid UTF-8 makes `dump()` throw
  inside httplib's content provider (`http_jsonrpc.cpp:831`), where nothing catches
  it. `PostsEnd` is stated for processes this does not end.
- `write_file` reports success for a short write (`mcp_server_main.cpp:343`).
- A call cancelled between two attempts has published `tool_call_start` and
  publishes no end (`mcp_server.cpp:253`, `:320`); `EventsMatchResult` allows
  this exception and no other.

### Bounds

`MaxEvents`, `MaxSignals`, `SentIn`, `SenderOf`, `MaxElements`, and the field
"alone" of an HTTP request are bounds of the models; every other small number is a
constant of the code with a small value.

- `TaskQueue`: 3 items, 3 workers, 2 closers, capacity 2. Two places and three
  producers give refusals and a queue holding several items; three workers give
  several sleepers while one is between two waits; a second closer returns early
  while the first has still to notify.
- `TaskRuntime`: 2 or 3 tasks, queues of one place, one worker per lane or two
  in the tool lane. One place with two tool tasks gives refusal, queueing behind
  a busy worker and closing with work left. Lanes do not share state except the
  registry and the counters, so two busy lanes show what more would; the other
  two lanes take part in the shutdown.
- `ToolCircuitBreaker`: threshold 2, 3 callers: a probe, a straggler and a call
  that opens the circuit overlap. Tools do not interact (proved for any number).
- `SseEventHub`: 2 connections of a client, so that a zombie still subscribed
  coexists with the reconnected one, in a hub that has room for both or for one
  only; history 3, queue 2 and 4 events overflow both buffers.
- `ToolCall`: two writers of the same file on one stripe, and a call of a tool
  that is idempotent with one retry, not idempotent with one retry in its policy,
  or has a negative number of retries. Writers of different files share at most a
  stripe, which only makes them wait.
- `HttpTransport`: three POSTs on two threads: one that may open a session or is
  a batch that cancels itself, one call on either endpoint, and a cancellation
  by its own or by another user, in the session, without one. That is one POST to
  be cancelled, one to cancel it and one that makes the thread pool full. Defects
  of a POST, longer batches and unknown sessions are tried one POST at a time
  ("alone"): what they change is decided before anything is shared. Every pair of
  values of the version headers, of name and header, and of arguments and
  parameter headers of one tool with a required and an optional parameter occurs.
- `ServerProcess`: every field alone at the limits, beyond them, negative, and at
  a number that an `int` narrows; all pairs of the two ports; every shape of the
  sections, with the file read to its end or not; a wrong type in one field
  of each kind, by where it is read. `IntWidth` 24 and `SizeWidth` 30
  are the smallest kind of widths in which all limits fit, as they fit in 32 and 64
  bits. Two stdin frames in mode `stdio` (a callback beside the reader and beside
  another callback), one in mode `both`; one SSE client; one signal.

### Fairness

Weak fairness for every step of a thread that is not blocked: submitters,
workers, connection threads, HTTP and stdio threads, main, and a shutdown that has
begun. The clock moves on. Nobody has to submit, cancel, publish, connect,
disconnect, send a signal, write to stdin or begin a shutdown. In `TaskRuntime`
handlers are assumed to return, except in `SlowLanes`, where they may hang; in
`HttpTransport` the runtime need not resolve anything, so that `PostsEnd` rests on
the deadlines alone; in `ToolCall` handlers return, and a lock stripe is fair
because finitely many calls compete for it. In `TaskQueue` a notified sleeper
gets the lock eventually; which sleeper `notify_one` wakes is arbitrary. In
`ToolCircuitBreaker` only the calls in progress are fair: no one needs to call a
tool again, and the cool-down need not elapse. In `ServerProcess` a connection
whose peer is gone need not notice until something is sent. The operating
system's scheduler and the absence of any priority among these threads justify
weak fairness; strong fairness is not used.

## 4. Proofs

All are checked to the last leaf. Every safety invariant that a passing run checks
is proved for every value of the constants, and so are `StaleNeverRuns` and the
safety halves of the refinements. They assume only the named ASSUMEs:

- capacities, limits and thresholds are positive, as the constructors enforce, and
  the sets of threads and tasks are finite (`CapacityAssumption`,
  `ThresholdAssumption`, `LimitsAssumption`, `FinitenessAssumption`,
  `ConnectionsAssumption` and the like);
- a worker in every lane, and tasks that have an id or are notifications
  (`PoolsAssumption`, `TasksAssumption`);
- a file is written under one normalised path (`OnePathPerFile`);
- POSTs and configuration files are well formed as data, not as to what they say
  (`RequestsAssumption`, `FilesAssumption`), and a tool schema requires only what
  it declares (`SchemaAssumption`);
- an `int` holds every limit of the configuration (`LimitAssumption`), and powers
  of two grow (`PowersAssumption`: arithmetic the provers do not know).

Each module has `TypeCorrect` (`TypesHold` for `ToolCall`), on which the rest of
its proofs stands.

`TaskQueue_proofs`, for any number of items, workers and closers:

- `CapacityIsRespected`: `WithinCapacity` follows from types and `try_push`'s guard.
- `ShutdownDrains`: `StoppedMeansDrained`; a worker leaves only if closed and
  empty, and nothing is pushed after the close.
- `CloseWakesEverySleeper`: `NoSleeperLeftBehind`. A worker falls asleep only
  while the queue is open, so after the close the sleepers are those `notify_all`
  of the closer in state "notifying" will wake.
- `NoWakeupIsLost`: `NoLostWakeup`, inductive as it stands: while somebody
  sleeps, the queued items are at most the workers about to look plus the
  producers about to notify. Each action moves one unit between these sets;
  the proof is about their cardinalities.
- `ImplementsAbstractSafety`: the safety part of the refinement of `BoundedQueue`.

`TaskRuntime_proofs`, for any number of requests of any kind and any pool sizes
and capacities. The invariants of the runs say what is visible; the proofs add
where each thread is:

- `EnvelopesHaveOnePlace`: `OnePlacePerTask` is inductive together with
  `Placement`, which relates a worker's position in `worker_loop` to what it
  holds, and a submitter's position in `submit` to the status of its task. It
  is what every other proof below starts from: two workers never change the
  same promise.
- `CallbacksRunOnce`: `NotifiedOnce`, with `NotYetNotified`: whoever is going to
  call back has not, and has set the future.
- `ShutdownLosesNothing`: `ShutdownAnswersAccepted`, with `NothingDropped` (an
  accepted task is queued, in work or answered) and `ExitedDrained` (a lane
  whose pool was joined is closed, empty, and without workers).
- `RegistryHasNoLeftovers`: `RegistryTracksLiveTasks`, for clients that reuse ids
  in any way. Erasing by key may erase another request's token, never leave one.
- `UniqueIdsAreCancellable`: `PendingIsCancellable`, only if clients do not reuse
  ids (IdReuse = "never"); the run `request_id_reuse` shows that the premise is
  needed. Inductive with `IdsDistinct` and `LiveIsRegistered`.
- `GaugesReturnToZero`: `GaugesExact`, by the cardinality of the sets of workers
  that execute; `OnePlacePerTask` gives that the lane of the task whose gauge is
  lowered is the lane whose gauge was raised.

`TaskRuntimeService_proofs`, on top of those:

- `RequestsCountedOnce`: `RequestsAccounted` says that the received requests are
  those completed, those failed and those still open. A step that counts a
  request takes exactly that one out of the open ones, because of `Placement`.
- `StaleNeverReachHandlers`: `StaleNeverRuns` relates two moments. The proof is
  about `Stale`, what a request is while it is overdue or cancelled and has not
  passed the check of its clock or token: no step ends it.
- `ImplementsServiceSafety`: the runtime implements `RequestService` for every
  request. `HonestVerdicts` says that a worker about to set a future has a verdict
  its token or clock justifies, and that a refused task is resolved by its
  submitter.
- `EachLaneIsBoundedQueue`: any lane (`LaneQueue(l)`) implements `BoundedQueue`; the
  two lanes of `LanesUseTheirQueues` are instances.

`ToolCircuitBreaker_proofs`, for any number of tools and callers, any threshold:

- `CircuitStateMatchesFailures`: `ClosedBelowThreshold` is inductive with the
  types. It holds although results are unattributed, because each record sets
  state and count together.
- `HalfOpenIsAlwaysProbed`: `HalfOpenHasProbe`. A half-open circuit's probe is
  in flight unless it left without recording, cancelled or by an exception. A
  record that takes a probe away also moves its circuit out of half-open.

`ToolCall_proofs`, for any number of calls, writers, files and stripes, and any
policies (`CallsAssumption`, `OnePathPerFile`):

- `TypesHold`, on which the others rest.
- `AttemptsStayBounded`: `AttemptsBounded` is not inductive; `RunsCounted` tells
  from the position in the loop how often the handler was entered, and that a call
  backs off only with a retry left.
- `ContentsStayApart`: `ContentNotMixed` with `StripesHeld` (a writer between
  locking and returning holds its stripe). Two writers inside have different
  stripes, hence by `OnePathPerFile` different files.
- `EventsAgree`: `EventsMatchResult` speaks of calls that have returned;
  `Told` says for every position what has been published by then. A step of one
  call changes nothing that is said of another (`OthersAsBefore`).

`SseEventHub_proofs`, for any number of clients, connections and events and buffers
of any size:

- `HistoryExact`: the replay history holds the latest ids, as many as fit. It
  justifies `ReplayAfter`, which takes the newer end of the history where the code
  filters it.
- `ClientsSeeIncreasingIds` (`DeliveredInOrder`) and `NothingRecentIsLost`
  (`RecentEventsReachClient`) share the invariant `StreamInv`. A pending queue is
  a run of ids that ends with the newest (`PendingAt`); what the client has, what
  is on the wire and what the thread holds follow each other (`OrderedAt`), are
  ahead of the queue while the thread may still send (`AheadAt`), and miss nothing
  recent (`GapFree`, `WaitsAt`). Only the connection a client reads from counts
  (`OneLink`); one the client left behind may hold anything.

`HttpTransport_proofs`, for any number of POSTs and users, batches of any length and
any set of tools and schemas:

- `SubmittedIsConsistent`: `AdmittedAreConsistent`. An `/mcp` request with a task
  has passed validation (`PostsPlaced`, `TasksPlaced`); the ten checks together give
  the agreement of headers and body, where no `Mcp-Name` agrees with an empty name.
  All steps of this module are steps of a process that lives (`SpecWorks`); the
  invariants need no more.
- `NobodyCancelsForOthers`: `CancelStaysWithUser`, with `SessionsOwned` (a session
  is used by the user it was granted to) and `RegistryAgrees` (a task is registered
  under its own client and id, whatever was registered there before).
- `AbandonedIsCancelled`: `GivenUpIsCancelled` speaks of POSTs that are over;
  `GivenUp` says at each position which elements nobody will wait for again.
- `AnswersMatchRequests`: `BatchAnsweredInOrder`. While a batch is gathered, the
  answers are those owed up to the cursor, in order, each with the verdict of its
  element (`AnswersGrow`, with `RightAnswers`); a resolved task keeps its verdict
  and a passed deadline stays passed, so that answers stay right.

`ServerProcess_proofs`, for any frames, files, SSE clients and widths:

- `AcceptedConfigsAreUsable`: `AcceptedConfigUsable`, by the conversions of the
  getters, which change no value that validation accepted. It says nothing of what
  validation leaves open: that the size of a log file may be negative, and that the
  getters of the two options it does not look at may throw (section 3).
- `ThreadsAreJoined`: `JoinedBeforeShutdown`, with `ThreadsPlaced`: which threads
  there can be, given the positions of main and of `run_http_mode`.
- `FramesStayWhole` (`StdioFramesWhole`): `FramesInOrder`; who writes holds the
  output lock, and an unfinished frame is the last one.
- `RunAnswersEveryRequest` (`StdioAnsweredBeforeReturn`) and `NoCallbackOutlivesRun`
  (`StdioCallbacksOnLiveServer`): `PendingExact`, the counter is the number of
  requests whose callback has not ended, and `WorkDivided`, which says that a
  callback ends only after its response was written or could not be serialised.

`CapacityIsRespected`, `EnvelopesHaveOnePlace`, `CallbacksRunOnce`,
`GaugesReturnToZero`, `EachLaneIsBoundedQueue` and the safety halves
(`ImplementsAbstractSafety`, `ImplementsServiceSafety`) state properties that no run
lists by themselves: they hold for every value of the constants and serve the
other proofs or stand behind a refinement the runs check with fairness.

Only model-checked is liveness, since TLAPS cannot reason about ENABLED:
`ShutdownCompletes`, `LaneIsolation`, `ConnectionsEnd`, `SignalStops`, `CallsReturn`,
`PostsEnd`, and the fairness halves of `ImplementsBoundedQueue` and
`ImplementsRequestService`. The three disagreements are counterexamples TLC finds.

## 5. Not modelled

- Durations, histograms, HTTP and batch counters of the metrics; wording,
  logging and JSON layout.
- The creation of the runtime: threads that fail to start.
- The growth of the breaker's map by unknown tool names (unbounded data), and of
  the sessions, which nothing removes.
- A stop of the HTTP server while a POST is being handled: httplib completes it,
  but ends a stream at its next turn, after which its releaser cancels the task
  as for a client that left.
- A tool schema that requires a property it does not declare, which `/mcp`
  answers with 500: excluded by `SchemaAssumption`, since the registered schemas
  are fixed in `mcp_server_main.cpp`.
- The registries of `McpServer` and the list operations: written once by main
  before any thread starts, then only read.
- Headers that are sent more than once: httplib returns the first of them to every
  check of the validation, so that the others decide nothing in it.
- Bodies that are not JSON on `/jsonrpc` are not told apart from other unreadable
  messages; their error differs in its code only.
- Conversions of `mcp/types` (data without state); version negotiation beyond the
  check of `/mcp`.
- Weather client, logger, client SDK, Python demo: I/O without shared state.

## 6. Plan

Done, in this order because each rests on the one before: queue, runtime over
the queue's abstract behaviour, breaker in the tool lane, SSE, tool calls and
`write_file`, stdio and the process with its configuration, HTTP.

Next:

1. `ToolCall` composed with `ToolCircuitBreaker` as the refinement of its
   abstract tool, with the safety half proved.
2. The runtime of `HttpTransport` and `StdioServer` related to `RequestService`, so
   that their abstraction of it is a theorem rather than a reading of the code.
3. Version negotiation as operators checked over bounded inputs.
