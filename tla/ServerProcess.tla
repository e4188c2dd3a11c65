----------------------------- MODULE ServerProcess -----------------------------
(***************************************************************************)
(* The life of the server process (mcp_server_main.cpp): main loads the    *)
(* configuration, builds the server and runs one of three modes.           *)
(*   http   the main thread runs run_http_mode: a publisher thread, an SSE *)
(*          server on a thread of its own, and the JSON-RPC HTTP server.   *)
(*   stdio  the main thread runs StdioServer.                              *)
(*   both   run_http_mode runs on a second thread beside StdioServer.      *)
(* SIGINT and SIGTERM run signal_handler in between.                       *)
(*                                                                         *)
(* httplib is modelled by what the code relies on: listen() fails to bind  *)
(* or blocks until stop(), stop() does nothing unless listen() has begun   *)
(* to accept, and listen() returns after its connections have ended.       *)
(***************************************************************************)
EXTENDS Configuration, Sequences, FiniteSets

CONSTANTS
    Modes,       \* values of --mode that are tried
    Files,       \* configuration files that are tried
    SseClients,  \* clients of the SSE endpoints
    MaxSignals,  \* how often the process is signalled
    Messages, Nobody,
    SentIn       \* the frames a client may send in each mode (a bound)

ASSUME FilesAssumption ==
    \A file \in Files : file.kind \in {"missing", "not_json", "json"} /\ IsDocument(file.data)
ASSUME NobodyAssumption == Nobody \notin Messages
ASSUME ProcessAssumption ==
    /\ SentIn \in [Modes -> SUBSET Messages]
    /\ Modes \subseteq {"http", "stdio", "both"}
    /\ MaxSignals \in Nat

VARIABLES
    mode, main, exit,
    config,         \* result of LoadFromFile, until the servers are built
    throwing,       \* the fields whose getters throw when they are read after that
    http,           \* where run_http_mode is
    listenFailed,   \* g_http_server->run() threw
    httpRunning,    \* HttpJsonRpcServer::running_
    httpAccepting,  \* its httplib server accepts connections
    sse,            \* where the SSE thread is
    sseAccepting,   \* its httplib server accepts connections
    publisher,      \* where the status publisher is
    publisherRuns,  \* status_publisher_running
    client,         \* the connection of each SSE client
    running,        \* g_running
    handler,        \* where signal_handler is
    signals,        \* signals received
    framing, input, reader, current, kind, callback, pending, lock, out, mute, alive

Stdio == INSTANCE StdioServer WITH timeoutThrows <- "request_timeout_ms" \in throwing

stdioVars == <<framing, input, reader, current, kind, callback, pending, lock, out, mute, alive>>
mainVars == <<mode, main, exit, config, throwing>>
httpVars == <<http, listenFailed, httpRunning, httpAccepting>>
sseVars == <<sse, sseAccepting, publisher, publisherRuns, client>>
signalVars == <<running, handler, signals>>
vars == <<mainVars, httpVars, sseVars, signalVars, stdioVars>>

NoConfig == [loaded |-> FALSE, data |-> NoData]

Init ==
    /\ mode \in Modes
    /\ main = "load"
    /\ exit = "running"
    /\ config = NoConfig
    /\ throwing = {}
    /\ http = "none" /\ listenFailed = FALSE /\ httpRunning = FALSE /\ httpAccepting = FALSE
    /\ sse = "none" /\ sseAccepting = FALSE
    /\ publisher = "none" /\ publisherRuns = FALSE
    /\ client = [c \in SseClients |-> "none"]
    /\ running = TRUE /\ handler = "idle" /\ signals = 0
    /\ Stdio!Init

-------------------------------------------------------------------------------
(* main *)

\* A configuration that is not loaded is only reported.
LoadConfig(file) ==
    /\ main = "load"
    /\ config' = LoadFromFile(file)
    /\ main' = "build"
    /\ UNCHANGED <<mode, exit, throwing, httpVars, sseVars, signalVars, stdioVars>>

\* Where the server fields are read: while the tools are registered and the
\* runtime is created, by run_http_mode, and for each request.
RuntimeFields ==
    PoolSizes \cup QueueSizes \cup {"tool_circuit_failure_threshold", "tool_circuit_open_ms"}
HttpFields == SseLimits \cup {"sse_port", "sse_workers"}
LateFields == HttpFields \cup {"request_timeout_ms"}

\* Getters that throw, and constructors that refuse what the getters return: a
\* pool without workers or with more than memory has room for, a queue without
\* room.
Rejected(data) ==
    \/ \E f \in RuntimeFields : Throws(data, f)
    \/ \E f \in PoolSizes \cup QueueSizes : Get(data, f) = 0
    \/ \E f \in PoolSizes : Get(data, f) >= 2^IntWidth

\* What becomes of the process while main reads the configuration.  The port and
\* the logging options are read outside the try block.
BuildOutcomes(data, portGiven) ==
    LET unguarded == LoggingFields \cup Unchecked \cup (IF portGiven THEN {} ELSE {"port"}) IN
    IF \E f \in unguarded : UnguardedThrows(data, f) THEN {"aborted"}
    ELSE (IF \E f \in unguarded : UnguardedUndefined(data, f) THEN {"aborted"} ELSE {})
            \cup (IF Rejected(data) THEN {"1"} ELSE {"running"})

(* Logging, dispatcher, runtime and signal handlers; then the chosen mode.   *)
(* Of the document only the getters that will throw matter from here on.     *)
Build(portGiven) ==
    /\ main = "build"
    /\ exit' \in BuildOutcomes(config.data, portGiven)
    /\ main' = IF exit' = "running" THEN "serving" ELSE "exited"
    /\ config' = NoConfig
    /\ throwing' = {f \in LateFields : Throws(config.data, f)}
    /\ http' = IF exit' = "running" /\ mode # "stdio" THEN "create" ELSE "none"
    /\ UNCHANGED <<mode, listenFailed, httpRunning, httpAccepting, sseVars, signalVars, stdioVars>>

\* The HTTP servers have stopped: normally, or by an exception of run() or of a
\* getter, which main catches in mode http and which terminates the process on a
\* thread of its own.
HttpReturns ==
    /\ main = "serving" /\ mode = "http" /\ http = "left"
    /\ main' = "shutdown"
    /\ UNCHANGED <<mode, exit, config, throwing, httpVars, sseVars, signalVars, stdioVars>>

HttpThrows ==
    /\ http = "thrown"
    /\ exit' = IF mode = "http" THEN "1" ELSE "aborted"
    /\ main' = "exited"
    /\ UNCHANGED <<mode, config, throwing, httpVars, sseVars, signalVars, stdioVars>>

\* run_stdio_mode is over.  After an exception a joinable http_thread terminates
\* the process; without one the runtime is destroyed while main unwinds.
StdioEnds ==
    /\ main = "serving" /\ mode # "http" /\ ~alive
    /\ \/ /\ reader = "returned"
          /\ main' = IF mode = "both" THEN "join_http" ELSE "shutdown"
          /\ UNCHANGED exit
       \/ /\ reader = "threw" /\ mode = "both"
          /\ main' = "exited" /\ exit' = "aborted"
       \/ /\ reader = "threw" /\ mode = "stdio"
          /\ main' = "unwind" /\ UNCHANGED exit
    /\ UNCHANGED <<mode, config, throwing, httpVars, sseVars, signalVars, stdioVars>>

JoinHttp ==
    /\ main = "join_http" /\ http = "left"
    /\ main' = "shutdown"
    /\ UNCHANGED <<mode, exit, config, throwing, httpVars, sseVars, signalVars, stdioVars>>

(* runtime->shutdown() or the runtime's destructor: the queued tasks are     *)
(* executed and the workers joined.                                          *)
ShutdownRuntime ==
    /\ main \in {"shutdown", "unwind"}
    /\ \A m \in Messages : callback[m] \in {"none", "done"}
    /\ exit' = IF main = "shutdown" THEN "0" ELSE "1"
    /\ main' = "exited"
    /\ UNCHANGED <<mode, config, throwing, httpVars, sseVars, signalVars, stdioVars>>

-------------------------------------------------------------------------------
(* run_http_mode *)

\* Servers, hubs, and the publisher thread, unless a getter throws before that.
CreateServers ==
    /\ http = "create"
    /\ \/ /\ throwing \cap HttpFields = {}
          /\ http' = "spawn"
          /\ publisher' = "running" /\ publisherRuns' = TRUE
       \/ /\ throwing \cap HttpFields # {}
          /\ http' = "thrown"
          /\ UNCHANGED <<publisher, publisherRuns>>
    /\ UNCHANGED <<mainVars, listenFailed, httpRunning, httpAccepting, sse, sseAccepting, client,
                   signalVars, stdioVars>>

SpawnSse ==
    /\ http = "spawn"
    /\ http' = "run"
    /\ sse' = "starting"
    /\ UNCHANGED <<mainVars, listenFailed, httpRunning, httpAccepting, sseAccepting, publisher,
                   publisherRuns, client, signalVars, stdioVars>>

(* HttpJsonRpcServer::run up to listen() *)
EnterRun ==
    /\ http = "run"
    /\ http' = "listen"
    /\ httpRunning' = TRUE
    /\ UNCHANGED <<mainVars, listenFailed, httpAccepting, sseVars, signalVars, stdioVars>>

Listen ==
    /\ http = "listen"
    /\ \/ /\ http' = "serving" /\ httpAccepting' = TRUE
          /\ UNCHANGED <<listenFailed, httpRunning>>
       \/ /\ http' = "stop_publisher" /\ listenFailed' = TRUE
          /\ httpRunning' = FALSE /\ UNCHANGED httpAccepting
    /\ UNCHANGED <<mainVars, sseVars, signalVars, stdioVars>>

ListenReturns ==
    /\ http = "serving" /\ ~httpAccepting
    /\ http' = "stop_publisher"
    /\ httpRunning' = FALSE
    /\ UNCHANGED <<mainVars, listenFailed, httpAccepting, sseVars, signalVars, stdioVars>>

(* stop_and_join_sse *)
StopPublisher ==
    /\ http = "stop_publisher"
    /\ http' = "join_publisher"
    /\ publisherRuns' = FALSE
    /\ UNCHANGED <<mainVars, listenFailed, httpRunning, httpAccepting, sse, sseAccepting, publisher,
                   client, signalVars, stdioVars>>

JoinPublisher ==
    /\ http = "join_publisher" /\ publisher = "ended"
    /\ http' = "join_sse"
    /\ sseAccepting' = FALSE
    /\ UNCHANGED <<mainVars, listenFailed, httpRunning, httpAccepting, sse, publisher,
                   publisherRuns, client, signalVars, stdioVars>>

\* Faulty: the SSE thread is not waited for.
SseNotAwaited == TRUE
SseJoined == sse = "ended"

JoinSse ==
    /\ http = "join_sse" /\ SseJoined
    /\ http' = IF listenFailed THEN "thrown" ELSE "left"
    /\ UNCHANGED <<mainVars, listenFailed, httpRunning, httpAccepting, sseVars, signalVars,
                   stdioVars>>

(* The publisher looks at its flag between two events. *)
PublisherEnds ==
    /\ publisher = "running" /\ ~publisherRuns
    /\ publisher' = "ended"
    /\ UNCHANGED <<mainVars, httpVars, sse, sseAccepting, publisherRuns, client, signalVars,
                   stdioVars>>

-------------------------------------------------------------------------------
(* The SSE thread and its connections *)

SseListen ==
    /\ sse = "starting"
    /\ \/ sse' = "listening" /\ sseAccepting' = TRUE
       \/ sse' = "ended" /\ UNCHANGED sseAccepting
    /\ UNCHANGED <<mainVars, httpVars, publisher, publisherRuns, client, signalVars, stdioVars>>

SseListenReturns ==
    /\ sse = "listening" /\ ~sseAccepting
    /\ \A c \in SseClients : client[c] \in {"none", "ended"}
    /\ sse' = "ended"
    /\ UNCHANGED <<mainVars, httpVars, sseAccepting, publisher, publisherRuns, client, signalVars,
                   stdioVars>>

SseConnect(c) ==
    /\ sseAccepting /\ client[c] = "none"
    /\ client' = [client EXCEPT ![c] = "streaming"]
    /\ UNCHANGED <<mainVars, httpVars, sse, sseAccepting, publisher, publisherRuns, signalVars,
                   stdioVars>>

\* The peer goes away; its connection thread notices when it sends an event.
SseLeave(c) ==
    /\ client[c] = "streaming"
    /\ client' = [client EXCEPT ![c] = "gone"]
    /\ UNCHANGED <<mainVars, httpVars, sse, sseAccepting, publisher, publisherRuns, signalVars,
                   stdioVars>>

SendFails(c) ==
    /\ client[c] = "gone" /\ publisher = "running"
    /\ client' = [client EXCEPT ![c] = "ended"]
    /\ UNCHANGED <<mainVars, httpVars, sse, sseAccepting, publisher, publisherRuns, signalVars,
                   stdioVars>>

\* The loop of the endpoint ends when g_running is false; httplib calls the
\* provider again as long as its server is not stopped.
StreamEnds(c) ==
    /\ client[c] \in {"streaming", "gone"} /\ ~running /\ ~sseAccepting
    /\ client' = [client EXCEPT ![c] = "ended"]
    /\ UNCHANGED <<mainVars, httpVars, sse, sseAccepting, publisher, publisherRuns, signalVars,
                   stdioVars>>

-------------------------------------------------------------------------------
(* signal_handler *)

\* Faulty: the handler does not clear g_running.
RunningKept == running
RunningCleared == FALSE

Signal ==
    /\ main \notin {"load", "build"} /\ handler = "idle" /\ signals < MaxSignals
    /\ signals' = signals + 1
    /\ running' = RunningCleared
    /\ handler' = "stop_http"
    /\ UNCHANGED <<mainVars, httpVars, sseVars, stdioVars>>

(* HttpJsonRpcServer::stop: nothing unless running_ was set. *)
HandlerStopsHttp ==
    /\ handler = "stop_http"
    /\ handler' = "stop_sse"
    /\ httpRunning' = FALSE
    /\ httpAccepting' = (httpAccepting /\ ~httpRunning)
    /\ UNCHANGED <<mainVars, http, listenFailed, sseVars, running, signals, stdioVars>>

HandlerStopsSse ==
    /\ handler = "stop_sse"
    /\ handler' = "idle"
    /\ sseAccepting' = FALSE
    /\ UNCHANGED <<mainVars, httpVars, sse, publisher, publisherRuns, client, running, signals,
                   stdioVars>>

-------------------------------------------------------------------------------
Elsewhere == UNCHANGED <<mainVars, httpVars, sseVars, signalVars>>

StdioClient(m) == main = "serving" /\ mode # "http" /\ Stdio!Client(m) /\ Elsewhere
StdioReader == main = "serving" /\ mode # "http" /\ (Stdio!ReaderRuns \/ Stdio!Destroy) /\ Elsewhere
StdioWorker(m) == exit = "running" /\ Stdio!Respond(m) /\ Elsewhere

Alive(A) == exit = "running" /\ A

Main == HttpReturns \/ HttpThrows \/ StdioEnds \/ JoinHttp \/ ShutdownRuntime
RunHttpMode ==
    \/ CreateServers \/ SpawnSse \/ EnterRun \/ Listen \/ ListenReturns
    \/ StopPublisher \/ JoinPublisher \/ JoinSse
SseThread == SseListen \/ SseListenReturns
Handler == HandlerStopsHttp \/ HandlerStopsSse

Next ==
    /\ exit = "running"
    /\ \/ \E file \in Files : LoadConfig(file)
       \/ \E portGiven \in BOOLEAN : Build(portGiven)
       \/ Main \/ RunHttpMode \/ PublisherEnds \/ SseThread
       \/ \E c \in SseClients : SseConnect(c) \/ SseLeave(c) \/ SendFails(c) \/ StreamEnds(c)
       \/ Signal \/ Handler
       \/ StdioReader
       \/ \E m \in SentIn[mode] : StdioClient(m)
       \/ \E m \in Messages : StdioWorker(m)

\* Every thread of the process keeps running; nobody has to send signals,
\* connect, or write to stdin.
Fairness ==
    /\ WF_vars(Alive(Main)) /\ WF_vars(Alive(RunHttpMode)) /\ WF_vars(Alive(PublisherEnds))
    /\ WF_vars(Alive(SseThread)) /\ WF_vars(Alive(Handler))
    /\ \A c \in SseClients : WF_vars(Alive(StreamEnds(c)))
    /\ WF_vars(Alive(StdioReader))
    /\ \A m \in Messages : WF_vars(StdioWorker(m))

Spec == Init /\ [][Next]_vars /\ Fairness

-------------------------------------------------------------------------------
TypeOK ==
    /\ mode \in Modes
    /\ main \in {"load", "build", "serving", "join_http", "shutdown", "unwind", "exited"}
    /\ exit \in {"running", "0", "1", "aborted"}
    /\ throwing \subseteq LateFields
    /\ http \in {"none", "create", "spawn", "run", "listen", "serving", "stop_publisher",
                 "join_publisher", "join_sse", "left", "thrown"}
    /\ sse \in {"none", "starting", "listening", "ended"}
    /\ publisher \in {"none", "running", "ended"}
    /\ client \in [SseClients -> {"none", "streaming", "gone", "ended"}]
    /\ handler \in {"idle", "stop_http", "stop_sse"}
    /\ signals \in 0..MaxSignals
    /\ {listenFailed, httpRunning, httpAccepting, sseAccepting, publisherRuns, running} \subseteq BOOLEAN
    /\ Stdio!TypeOK

StdioFramesWhole == Stdio!FramesWhole
StdioAnsweredBeforeReturn == Stdio!AnsweredBeforeReturn
StdioCallbacksOnLiveServer == Stdio!CallbacksOnLiveServer

\* After a validation that succeeds, no getter of a field that was validated
\* throws, and the getters return in range what they convert, with different
\* ports for the two listeners; the size of a log file is left out
\* (ValidateConfig and the getters).
AcceptedConfigUsable == config.loaded => Usable(config.data)

\* The runtime is shut down, and the process exits with 0, only when no thread
\* that can submit a request or use the servers is left.
JoinedBeforeShutdown ==
    main = "shutdown" \/ exit = "0" =>
        /\ publisher \in {"none", "ended"} /\ sse \in {"none", "ended"}
        /\ http \in {"none", "left"} /\ ~httpAccepting
        /\ \A c \in SseClients : client[c] \in {"none", "ended"}
        /\ mode # "http" => ~alive

\* A signal that arrives while both listeners are up, together with the end of
\* stdin where stdin is served, ends the process, connected SSE clients or not.
SignalStops ==
    (/\ mode = "http" \/ input = "eof"
     /\ handler = "stop_http" /\ http = "serving" /\ httpRunning /\ sse \in {"listening", "ended"})
        ~> exit # "running"

\* mcp_server_main.cpp: the SSE thread is stopped and joined when the HTTP server
\* fails, too.
ListenFailureStops == listenFailed ~> exit # "running"
===============================================================================
