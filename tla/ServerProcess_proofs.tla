------------------------- MODULE ServerProcess_proofs -------------------------
(***************************************************************************)
(* Proofs about ServerProcess and the modules it is built from, StdioServer *)
(* and Configuration, for every set of frames, configuration files and SSE *)
(* clients.                                                                *)
(***************************************************************************)
EXTENDS ServerProcess, SequenceTheorems, FiniteSetTheorems, TLAPS

-------------------------------------------------------------------------------
(* Configuration *)

\* value() narrows every stored integer to an integer.
LEMMA ToIntType == ASSUME NEW v \in Int PROVE ToInt(v) \in Int
<1>1. 2^(IntWidth - 1) \in Int /\ 2^IntWidth \in Int /\ 2^IntWidth > 0
  BY WidthAssumption, PowersAssumption, SMT
<1>2. QED
  BY <1>1, SMT DEF ToInt

\* The getters convert a value within its limits without changing it.
LEMMA ToSizeKeeps ==
    ASSUME NEW f \in Fields, NEW v \in Int, v >= 1, v <= Limit(f)
    PROVE  ToSize(v) = v
<1>1. 2^(IntWidth - 1) \in Int /\ 2^IntWidth \in Int /\ 2^SizeWidth \in Int
  BY WidthAssumption, SMT
<1>2. Limit(f) \in Int
  BY SMT DEF Limit
<1>3. Limit(f) < 2^(IntWidth - 1)
  BY LimitAssumption, SMT
<1>4. v < 2^SizeWidth
  BY <1>1, <1>2, <1>3, PowersAssumption, SMT
<1>5. QED
  BY <1>1, <1>4, SMT DEF ToSize

LEMMA FieldSets ==
    /\ ServerFields \subseteq Fields /\ Unsigned \subseteq ServerFields
    /\ "port" \in ServerFields /\ "sse_port" \in ServerFields
    /\ "port" \notin Unsigned /\ "sse_port" \notin Unsigned
    /\ LoggingFields \subseteq Fields /\ "log_file_count" \in LoggingFields
  BY DEF ServerFields, Fields, LoggingFields, Unsigned, PoolSizes, QueueSizes, SseLimits, Ports,
     Durations

\* The default of every field is an integer.
LEMMA DefaultType == ASSUME NEW f PROVE Default(f) \in Int
  BY SMT DEF Default

\* SetDefaults gives every field of an accepted document an integer.
LEMMA ValuesComplete ==
    ASSUME NEW d, IsDocument(d), d.logging # "other", SetDefaults(d).ill \cap Fields = {},
           NEW f \in Fields
    PROVE  Value(SetDefaults(d), f) \in Int
<1> DEFINE e == SetDefaults(d)
<1>1. d.fields \in [DOMAIN d.fields -> Int] /\ "fields" \in DOMAIN d /\ "ill" \in DOMAIN d
        /\ "logging" \in DOMAIN d
  BY DEF IsDocument
<1>2. e.ill = d.ill
  BY <1>1 DEF SetDefaults
<1>3. e.fields = [g \in DOMAIN d.fields \cup MissingFields(d) |->
                     IF g \in DOMAIN d.fields THEN d.fields[g] ELSE Default(g)]
  BY <1>1 DEF SetDefaults
<1>4. f \in DOMAIN d.fields \cup MissingFields(d)
  BY <1>2 DEF MissingFields
<1>5. e.fields[f] \in Int /\ f \in DOMAIN e.fields
  BY <1>1, <1>3, <1>4, DefaultType
<1>6. QED
  BY <1>5, ToIntType DEF Value

\* What LoadFromFile accepts, the getters return in range without throwing.
LEMMA LoadedIsUsable ==
    ASSUME NEW file \in Files, LoadFromFile(file).loaded
    PROVE  Usable(LoadFromFile(file).data)
<1> DEFINE d == file.data
           e == SetDefaults(d)
<1>1. file.kind \in {"missing", "not_json", "json"} /\ IsDocument(d)
  BY FilesAssumption
<1>2. /\ file.kind = "json" /\ d.object /\ d.server = "object"
      /\ d.logging # "other" /\ ValidateConfig(e)
      /\ LoadFromFile(file).data = e
  BY <1>1 DEF LoadFromFile
<1>3. e.object = d.object /\ e.server = d.server /\ e.logging = "object"
  BY <1>1, <1>2 DEF SetDefaults, IsDocument
<1>4. HasServer(e)
  BY <1>2, <1>3 DEF HasServer
<1>5. e.ill \cap Fields = {}
  BY <1>2 DEF ValidateConfig
<1>6. \A f \in Fields : Value(e, f) \in Int
  BY <1>1, <1>2, <1>5, ValuesComplete
<1> HIDE DEF e
<1>7. ASSUME NEW f \in ServerFields
      PROVE  Get(e, f) = Value(e, f) /\ Value(e, f) >= 1 /\ Value(e, f) <= Limit(f)
  <2>1. Value(e, f) >= 1 /\ Value(e, f) <= Limit(f)
    BY <1>2, SMT DEF ValidateConfig, ServerValid, InRange
  <2>2. Value(e, f) \in Int /\ f \in Fields
    BY <1>6, FieldSets
  <2>3. ToSize(Value(e, f)) = Value(e, f)
    BY <2>1, <2>2, ToSizeKeeps, SMT
  <2>4. QED
    BY <1>4, <2>1, <2>3 DEF Get
<1>8. Get(e, "port") # Get(e, "sse_port")
  <2>1. Value(e, "sse_port") # Value(e, "port")
    BY <1>2 DEF ValidateConfig, ServerValid
  <2>2. QED
    BY <1>7, <2>1, FieldSets
<1>9. Value(e, "log_level") = 1 /\ Value(e, "log_file_count") >= 1
  BY <1>2, <1>6, FieldSets DEF ValidateConfig, LoggingValid
<1>10. \A f \in ServerFields : ~Throws(e, f)
  BY <1>5, FieldSets DEF Throws
<1>11. \A f \in LoggingFields \cup {"port"} : ~UnguardedThrows(e, f) /\ ~UnguardedUndefined(e, f)
  BY <1>2, <1>3, <1>5, FieldSets DEF UnguardedThrows, UnguardedUndefined, Section
<1>12. QED
  BY <1>2, <1>4, <1>7, <1>8, <1>9, <1>10, <1>11 DEF Usable

\* In a configuration that validation accepts, every server field, the log level
\* and the number of log files can be read without an exception and are in range
\* after the narrowing to int and the conversion to std::size_t, and the two
\* listeners get different ports, whatever the file says and leaves out.  Of the
\* size of a log file it only says that reading it does not throw, and of the log
\* path and the console switch, which are not validated, nothing.
THEOREM AcceptedConfigsAreUsable == Spec => []AcceptedConfigUsable
<1>1. Init => AcceptedConfigUsable
  BY DEF Init, NoConfig, AcceptedConfigUsable
<1>2. ASSUME AcceptedConfigUsable, [Next]_vars PROVE AcceptedConfigUsable'
  <2> USE <1>2
  <2>1. ASSUME NEW file \in Files, LoadConfig(file) PROVE AcceptedConfigUsable'
    BY <2>1, LoadedIsUsable DEF LoadConfig, AcceptedConfigUsable
  <2>2. CASE config' = config
    BY <2>2 DEF AcceptedConfigUsable
  <2>3. CASE config' = NoConfig
    BY <2>3 DEF AcceptedConfigUsable, NoConfig
  <2>4. config' = config \/ config' = NoConfig \/ \E file \in Files : LoadConfig(file)
    BY DEF Next, Build, Main, HttpReturns, HttpThrows, StdioEnds, JoinHttp, ShutdownRuntime,
       RunHttpMode, CreateServers, SpawnSse, EnterRun, Listen, ListenReturns, StopPublisher,
       JoinPublisher, JoinSse, PublisherEnds, SseThread, SseListen, SseListenReturns, SseConnect,
       SseLeave, SendFails, StreamEnds, Signal, Handler, HandlerStopsHttp, HandlerStopsSse,
       StdioReader, StdioClient, StdioWorker, Elsewhere, mainVars, vars
  <2>5. QED
    BY <2>1, <2>2, <2>3, <2>4
<1>3. QED
  BY <1>1, <1>2, PTL DEF Spec

-------------------------------------------------------------------------------
(* Types *)

\* The steps of StdioServer, whichever thread takes them.
StdioMoves ==
    \/ \E m \in Messages : Stdio!Client(m) \/ Stdio!Respond(m)
    \/ Stdio!ReaderRuns \/ Stdio!Destroy

LEMMA StdioStep ==
    ASSUME mode \in Modes, [Next]_vars
    PROVE  StdioMoves \/ UNCHANGED stdioVars
<1>1. \A m \in SentIn[mode] : m \in Messages
  BY ProcessAssumption
<1>2. CASE \E m \in SentIn[mode] : StdioClient(m)
  BY <1>1, <1>2 DEF StdioClient, StdioMoves
<1>3. CASE StdioReader
  BY <1>3 DEF StdioReader, StdioMoves
<1>4. CASE \E m \in Messages : StdioWorker(m)
  BY <1>4 DEF StdioWorker, StdioMoves
<1>5. QED
  BY <1>2, <1>3, <1>4
  DEF Next, LoadConfig, Build, Main, HttpReturns, HttpThrows, StdioEnds, JoinHttp, ShutdownRuntime,
     RunHttpMode, CreateServers, SpawnSse, EnterRun, Listen, ListenReturns, StopPublisher,
     JoinPublisher, JoinSse, PublisherEnds, SseThread, SseListen, SseListenReturns, SseConnect,
     SseLeave, SendFails, StreamEnds, Signal, Handler, HandlerStopsHttp, HandlerStopsSse, vars

LEMMA StdioTypes ==
    ASSUME Stdio!TypeOK, StdioMoves
    PROVE  Stdio!TypeOK'
<1> USE DEF Stdio!TypeOK, Stdio!Framings, Stdio!Kinds, Stdio!ReaderStates, Stdio!CallbackStates
<1>1. ASSUME NEW m \in Messages, NEW k \in Stdio!Kinds, Stdio!Read(m, k) PROVE Stdio!TypeOK'
  <2>1. framing' \in {"newline", "content_length", framing}
    BY <1>1 DEF Stdio!Read, Stdio!FramingOf
  <2>2. Stdio!NextState(k) \in Stdio!ReaderStates
    BY DEF Stdio!NextState
  <2>3. QED
    BY <1>1, <2>1, <2>2 DEF Stdio!Read
<1>2. ASSUME NEW m \in Messages, Stdio!Submit(m) PROVE Stdio!TypeOK'
  BY <1>2 DEF Stdio!Submit
<1>3. CASE Stdio!Resume
  BY <1>3 DEF Stdio!Resume, Stdio!response
<1>4. CASE Stdio!ReadEof \/ Stdio!Return \/ Stdio!Destroy
  BY <1>4 DEF Stdio!ReadEof, Stdio!Return, Stdio!Destroy, Stdio!response
<1>5. ASSUME NEW m \in Messages, Stdio!Complete(m) \/ Stdio!LockOutput(m) PROVE Stdio!TypeOK'
  BY <1>5 DEF Stdio!Complete, Stdio!LockOutput
<1>6. ASSUME NEW m \in Messages, Stdio!DumpThrows(m) PROVE Stdio!TypeOK'
  BY <1>6 DEF Stdio!DumpThrows
<1>7. ASSUME NEW m \in Messages, Stdio!WriteFirst(m) PROVE Stdio!TypeOK'
  <2>1. <<m, 1>> \in Messages \X {1, 2}
    OBVIOUS
  <2>2. out' \in Seq(Messages \X {1, 2})
    BY <1>7, <2>1, AppendProperties DEF Stdio!WriteFirst
  <2>3. QED
    BY <1>7, <2>2 DEF Stdio!WriteFirst
<1>8. ASSUME NEW m \in Messages, Stdio!WriteSecond(m) PROVE Stdio!TypeOK'
  <2>1. <<m, 2>> \in Messages \X {1, 2}
    OBVIOUS
  <2>2. out' \in Seq(Messages \X {1, 2})
    BY <1>8, <2>1, AppendProperties DEF Stdio!WriteSecond
  <2>3. QED
    BY <1>8, <2>2 DEF Stdio!WriteSecond
<1>9. ASSUME NEW m \in Messages, Stdio!FinishPending(m) PROVE Stdio!TypeOK'
  <2>1. pending' \in Nat
    BY <1>9 DEF Stdio!FinishPending
  <2>2. QED
    BY <1>9, <2>1 DEF Stdio!FinishPending
<1>10. ASSUME NEW s \in {"eof", "broken"}, Stdio!InputEnds(s) PROVE Stdio!TypeOK'
  BY <1>10 DEF Stdio!InputEnds, Stdio!response
<1>11. QED
  BY <1>1, <1>2, <1>3, <1>4, <1>5, <1>6, <1>7, <1>8, <1>9, <1>10
  DEF StdioMoves, Stdio!Client, Stdio!ReaderRuns, Stdio!Respond

\* The variables keep their types.
THEOREM TypeCorrect == Spec => []TypeOK
<1>1. Init => TypeOK
  <2> SUFFICES ASSUME Init PROVE TypeOK
    OBVIOUS
  <2>1. Stdio!TypeOK
    BY DEF Init, Stdio!Init, Stdio!TypeOK, Stdio!Framings, Stdio!ReaderStates, Stdio!Kinds,
       Stdio!CallbackStates
  <2>2. signals \in 0..MaxSignals
    BY ProcessAssumption DEF Init
  <2>3. QED
    BY <2>1, <2>2 DEF Init, TypeOK
<1>2. ASSUME TypeOK, [Next]_vars PROVE TypeOK'
  <2> USE <1>2
  <2>1. Stdio!TypeOK'
    <3>1. CASE StdioMoves
      BY <3>1, StdioTypes DEF TypeOK
    <3>2. CASE UNCHANGED stdioVars
      BY <3>2 DEF TypeOK, Stdio!TypeOK, stdioVars
    <3>3. QED
      BY <3>1, <3>2, StdioStep DEF TypeOK
  <2> USE <2>1 DEF mainVars, httpVars, sseVars, signalVars
  <2>2. ASSUME NEW file \in Files, LoadConfig(file) PROVE TypeOK'
    BY <2>2 DEF LoadConfig, TypeOK
  <2>3. ASSUME NEW portGiven \in BOOLEAN, Build(portGiven) PROVE TypeOK'
    <3>1. exit' \in {"running", "1", "aborted"}
      BY <2>3 DEF Build, BuildOutcomes
    <3>2. QED
      BY <2>3, <3>1 DEF Build, TypeOK
  <2>4. CASE Main
    BY <2>4 DEF Main, HttpReturns, HttpThrows, StdioEnds, JoinHttp, ShutdownRuntime, TypeOK
  <2>5. CASE CreateServers \/ SpawnSse \/ EnterRun \/ Listen \/ ListenReturns
    BY <2>5 DEF CreateServers, SpawnSse, EnterRun, Listen, ListenReturns, TypeOK
  <2>6. CASE StopPublisher \/ JoinPublisher \/ JoinSse
    BY <2>6 DEF StopPublisher, JoinPublisher, JoinSse, TypeOK
  <2>7. CASE PublisherEnds \/ SseThread
    BY <2>7 DEF PublisherEnds, SseThread, SseListen, SseListenReturns, TypeOK
  <2>8. ASSUME NEW c \in SseClients, SseConnect(c) \/ SseLeave(c) \/ SendFails(c) \/ StreamEnds(c)
        PROVE  TypeOK'
    BY <2>8 DEF SseConnect, SseLeave, SendFails, StreamEnds, TypeOK
  <2>9. CASE Signal
    <3>1. signals' \in 0..MaxSignals
      BY <2>9, ProcessAssumption DEF Signal, TypeOK
    <3>2. QED
      BY <2>9, <3>1 DEF Signal, RunningCleared, TypeOK
  <2>10. CASE Handler
    BY <2>10 DEF Handler, HandlerStopsHttp, HandlerStopsSse, TypeOK
  <2>11. CASE StdioReader \/ (\E m \in SentIn[mode] : StdioClient(m)) \/ (\E m \in Messages : StdioWorker(m))
    BY <2>11 DEF StdioReader, StdioClient, StdioWorker, Elsewhere, TypeOK
  <2>12. CASE UNCHANGED vars
    BY <2>12 DEF vars, TypeOK
  <2>13. QED
    BY <2>2, <2>3, <2>4, <2>5, <2>6, <2>7, <2>8, <2>9, <2>10, <2>11, <2>12
    DEF Next, RunHttpMode
<1>3. QED
  BY <1>1, <1>2, PTL DEF Spec

-------------------------------------------------------------------------------
(* The end of the process *)

\* Which threads there are, given how far run_http_mode and main have come.
ThreadsPlaced ==
    /\ main \in {"load", "build"} => http = "none"
    /\ mode = "stdio" => http = "none"
    /\ http \in {"none", "create"} => publisher = "none"
    /\ http \in {"none", "create", "spawn"} => sse = "none"
    /\ http \in {"join_sse", "left"} => publisher = "ended"
    /\ http = "left" => sse = "ended"
    /\ httpAccepting => http = "serving"
    /\ sseAccepting => sse = "listening"
    /\ sse \in {"none", "starting"} => \A c \in SseClients : client[c] = "none"
    /\ sse = "ended" => \A c \in SseClients : client[c] \in {"none", "ended"}
    /\ mode # "http" /\ main \in {"join_http", "shutdown"} => ~alive
    /\ main = "shutdown" => http \in {"none", "left"}

LEMMA StaysDestroyed == ASSUME StdioMoves, ~alive PROVE ~alive'
  BY DEF StdioMoves, Stdio!Client, Stdio!Read, Stdio!InputEnds, Stdio!ReaderRuns, Stdio!Submit,
     Stdio!Resume, Stdio!ReadEof, Stdio!Return, Stdio!Destroy, Stdio!Respond, Stdio!Complete,
     Stdio!LockOutput, Stdio!DumpThrows, Stdio!WriteFirst, Stdio!WriteSecond, Stdio!FinishPending

\* The runtime is shut down, and the process ends with 0, only after the
\* publisher, the SSE thread with its connections, the HTTP server and the stdio
\* server are gone, in every mode and wherever signals and failures to listen
\* arrive (run_http_mode and main).
THEOREM ThreadsAreJoined == Spec => []JoinedBeforeShutdown
<1>1. Init => ThreadsPlaced /\ JoinedBeforeShutdown
  BY DEF Init, ThreadsPlaced, JoinedBeforeShutdown
<1>2. ASSUME TypeOK, ThreadsPlaced, JoinedBeforeShutdown, [Next]_vars
      PROVE  ThreadsPlaced' /\ JoinedBeforeShutdown'
  <2> USE <1>2 DEF ThreadsPlaced, JoinedBeforeShutdown, mainVars, httpVars, sseVars, signalVars,
                   stdioVars
  <2> DEFINE Goal == ThreadsPlaced' /\ JoinedBeforeShutdown'
  <2>1. ASSUME NEW file \in Files, LoadConfig(file), exit = "running" PROVE Goal
    BY <2>1 DEF LoadConfig
  <2>2. ASSUME NEW portGiven \in BOOLEAN, Build(portGiven), exit = "running" PROVE Goal
    <3>1. exit' # "0"
      BY <2>2 DEF Build, BuildOutcomes
    <3>2. QED
      BY <2>2, <3>1 DEF Build
  <2>3. CASE Main /\ exit = "running"
    <3>1. CASE HttpReturns
      BY <2>3, <3>1 DEF HttpReturns
    <3>2. CASE HttpThrows
      BY <2>3, <3>2 DEF HttpThrows
    <3>3. CASE StdioEnds
      BY <2>3, <3>3, ProcessAssumption DEF StdioEnds, TypeOK
    <3>4. CASE JoinHttp
      BY <2>3, <3>4 DEF JoinHttp
    <3>5. CASE ShutdownRuntime
      BY <2>3, <3>5 DEF ShutdownRuntime
    <3>6. QED
      BY <2>3, <3>1, <3>2, <3>3, <3>4, <3>5 DEF Main
  <2>4. CASE RunHttpMode /\ exit = "running"
    <3>1. CASE CreateServers \/ SpawnSse \/ EnterRun
      BY <2>4, <3>1 DEF CreateServers, SpawnSse, EnterRun
    <3>2. CASE Listen \/ ListenReturns
      BY <2>4, <3>2 DEF Listen, ListenReturns
    <3>3. CASE StopPublisher \/ JoinPublisher
      BY <2>4, <3>3 DEF StopPublisher, JoinPublisher
    <3>4. CASE JoinSse
      BY <2>4, <3>4 DEF JoinSse, SseJoined
    <3>5. QED
      BY <2>4, <3>1, <3>2, <3>3, <3>4 DEF RunHttpMode
  <2>5. CASE (PublisherEnds \/ SseThread) /\ exit = "running"
    BY <2>5 DEF PublisherEnds, SseThread, SseListen, SseListenReturns
  <2>6. ASSUME NEW c \in SseClients, exit = "running",
               SseConnect(c) \/ SseLeave(c) \/ SendFails(c) \/ StreamEnds(c)
        PROVE  Goal
    <3>1. /\ \A d \in SseClients : client'[d] = client[d] \/ client'[d] = "ended"
                                       \/ (sse = "listening" /\ d = c)
          /\ UNCHANGED <<mainVars, httpVars, sse, sseAccepting, publisher, alive>>
      BY <2>6 DEF SseConnect, SseLeave, SendFails, StreamEnds, TypeOK
    <3>2. sse \in {"none", "starting"} => client' = client
      BY <2>6 DEF SseConnect, SseLeave, SendFails, StreamEnds
    <3>3. QED
      BY <3>1, <3>2
  <2>7. CASE (Signal \/ Handler) /\ exit = "running"
    BY <2>7 DEF Signal, Handler, HandlerStopsHttp, HandlerStopsSse, TypeOK
  <2>8. CASE Elsewhere /\ StdioMoves
    BY <2>8, StaysDestroyed DEF Elsewhere
  <2>9. CASE UNCHANGED vars
    BY <2>9 DEF vars
  <2>10. ASSUME Next, StdioReader \/ (\E m \in SentIn[mode] : StdioClient(m))
                        \/ (\E m \in Messages : StdioWorker(m))
         PROVE  Elsewhere /\ StdioMoves
    BY <2>10, ProcessAssumption
    DEF StdioReader, StdioClient, StdioWorker, StdioMoves, TypeOK
  <2>11. QED
    BY <2>1, <2>2, <2>3, <2>4, <2>5, <2>6, <2>7, <2>8, <2>9, <2>10 DEF Next
<1>3. QED
  BY <1>1, <1>2, TypeCorrect, PTL DEF Spec

-------------------------------------------------------------------------------
(* StdioServer *)

\* Requests and notifications the reader has counted and nobody has finished.
Unfinished == {m \in Messages : kind[m] \in {"call", "note"} /\ callback[m] # "done"}

\* The frames with an error response, and those without any.
Erroneous == {"invalid", "garbage", "ill_formed"}
Silent == {"unread", "untimed", "cancel", "response", "bad_header", "oversized"}

\* pending_response_count_ is exact.
PendingExact == IsFiniteSet(Unfinished) /\ pending = Cardinality(Unfinished)

\* How the reader and the callbacks divide the work: the reader waits for its own
\* responses, and a request is finished only once its response was written or
\* given up.
WorkDivided ==
    /\ \A m \in Messages : kind[m] \in Silent => callback[m] = "none"
    /\ \A m \in Messages : kind[m] = "note" => callback[m] \in {"none", "queued", "finishing", "done"}
    /\ \A m \in Messages : kind[m] \in Erroneous =>
           /\ callback[m] \in {"locking", "first", "second", "done"}
           /\ callback[m] = "done" \/ (reader = "erring" /\ current = m)
    /\ reader = "begun" /\ current \in Messages =>
           kind[current] \in {"call", "note"} /\ callback[current] = "none"
    /\ \A m \in Messages :
           callback[m] \in {"finishing", "done"} /\ kind[m] \in {"call", "invalid", "garbage"}
               => Stdio!Written(m) \/ m \in mute
    /\ reader = "returned" => Unfinished = {}
    /\ ~alive => reader \in {"returned", "threw"}

\* The messages whose first part is on stdout.
Begun == {"second", "finishing", "done"}

\* What is on stdout, given where the callbacks are: whoever writes holds
\* output_mutex_, and the frame it has begun is the last one.
FramesInOrder ==
    /\ \A m \in Messages : callback[m] \in {"first", "second"} => lock = m
    /\ \A m \in Messages : callback[m] = "second" => Len(out) % 2 = 1 /\ out[Len(out)] = <<m, 1>>
    /\ (\A m \in Messages : callback[m] # "second") => Len(out) % 2 = 0
    /\ \A i \in DOMAIN out : /\ callback[out[i][1]] \in Begun
                             /\ callback[out[i][1]] = "second" => out[i][2] = 1
    /\ Stdio!FramesWhole

\* A step that writes nothing and neither begins nor ends a frame.
LEMMA FramesKept ==
    ASSUME Stdio!TypeOK, FramesInOrder, out' = out,
           \A m \in Messages : callback'[m] \in {"first", "second"} => lock' = m,
           \A m \in Messages : callback'[m] = "second" <=> callback[m] = "second",
           \A m \in Messages : callback[m] \in Begun => callback'[m] \in Begun
    PROVE  FramesInOrder'
<1>1. \A i \in DOMAIN out : out[i][1] \in Messages
  BY DEF Stdio!TypeOK
<1>2. Stdio!FramesWhole'
  BY DEF FramesInOrder, Stdio!FramesWhole
<1>3. \A i \in DOMAIN out' : /\ callback'[out'[i][1]] \in Begun
                             /\ callback'[out'[i][1]] = "second" => out'[i][2] = 1
  BY <1>1 DEF FramesInOrder
<1>4. QED
  BY <1>2, <1>3 DEF FramesInOrder, Begun

LEMMA FramesFirst ==
    ASSUME Stdio!TypeOK, FramesInOrder, NEW m \in Messages, Stdio!WriteFirst(m)
    PROVE  FramesInOrder'
<1> DEFINE n == Len(out)
<1>1. /\ n \in Nat /\ DOMAIN out = 1..n /\ DOMAIN out' = 1..(n + 1) /\ Len(out') = n + 1
      /\ out'[n + 1] = <<m, 1>>
      /\ \A i \in 1..n : out'[i] = out[i] /\ out[i] \in Messages \X {1, 2}
  BY AppendProperties, LenProperties DEF Stdio!WriteFirst, Stdio!TypeOK
<1>2. /\ callback[m] = "first" /\ callback'[m] = "second" /\ lock' = lock
      /\ \A d \in Messages : d # m => callback'[d] = callback[d]
  BY DEF Stdio!WriteFirst, Stdio!TypeOK
<1>3. lock = m /\ \A d \in Messages : d # m => callback[d] \notin {"first", "second"}
  BY <1>2 DEF FramesInOrder
<1>4. n % 2 = 0
  BY <1>2, <1>3 DEF FramesInOrder
<1>5. \A i \in 1..n : out[i][1] # m /\ callback[out[i][1]] \in Begun
  BY <1>1, <1>2 DEF FramesInOrder, Begun
<1> HIDE DEF n
<1>6. (n + 1) % 2 = 1
  BY <1>1, <1>4
<1>7. \A i \in DOMAIN out' : /\ callback'[out'[i][1]] \in Begun
                             /\ callback'[out'[i][1]] = "second" => out'[i][2] = 1
  <2>1. ASSUME NEW i \in 1..n
        PROVE  /\ callback'[out'[i][1]] \in Begun
               /\ callback'[out'[i][1]] = "second" => out'[i][2] = 1
    <3>1. out[i][1] \in Messages
      BY <1>1
    <3>2. QED
      BY <1>1, <1>2, <1>3, <1>5, <3>1
  <2>2. callback'[out'[n + 1][1]] = "second" /\ out'[n + 1][2] = 1
    BY <1>1, <1>2
  <2>3. QED
    BY <1>1, <2>1, <2>2 DEF Begun
<1>8. Stdio!FramesWhole'
  <2>1. ASSUME NEW i \in 1..(n + 1), i % 2 = 1
        PROVE  out'[i][2] = 1 /\ (i < n + 1 => out'[i + 1] = <<out'[i][1], 2>>)
    <3>1. CASE i = n + 1
      BY <1>1, <3>1
    <3>2. CASE i # n + 1
      <4>1. i \in 1..n /\ i < n
        BY <1>1, <1>4, <2>1, <3>2
      <4>2. i + 1 \in 1..n
        BY <1>1, <4>1
      <4>3. out[i][2] = 1 /\ out[i + 1] = <<out[i][1], 2>>
        BY <1>1, <2>1, <4>1 DEF FramesInOrder, Stdio!FramesWhole, n
      <4>4. QED
        BY <1>1, <4>1, <4>2, <4>3
    <3>3. QED
      BY <3>1, <3>2
  <2>2. ASSUME NEW i \in 1..(n + 1), NEW j \in 1..(n + 1), out'[i] = out'[j] PROVE i = j
    <3>1. CASE i \in 1..n /\ j \in 1..n
      BY <1>1, <2>2, <3>1 DEF FramesInOrder, Stdio!FramesWhole
    <3>2. \A k \in 1..n : out'[k] # <<m, 1>>
      BY <1>1, <1>5
    <3>3. QED
      BY <1>1, <2>2, <3>1, <3>2
  <2>3. QED
    BY <1>1, <2>1, <2>2 DEF Stdio!FramesWhole
<1>9. QED
  BY <1>1, <1>2, <1>3, <1>6, <1>7, <1>8 DEF FramesInOrder, Begun

LEMMA FramesSecond ==
    ASSUME Stdio!TypeOK, FramesInOrder, NEW m \in Messages, Stdio!WriteSecond(m)
    PROVE  FramesInOrder'
<1> DEFINE n == Len(out)
<1>1. /\ n \in Nat /\ DOMAIN out = 1..n /\ DOMAIN out' = 1..(n + 1) /\ Len(out') = n + 1
      /\ out'[n + 1] = <<m, 2>>
      /\ \A i \in 1..n : out'[i] = out[i] /\ out[i] \in Messages \X {1, 2}
  BY AppendProperties, LenProperties DEF Stdio!WriteSecond, Stdio!TypeOK
<1>2. /\ callback[m] = "second" /\ callback'[m] \in {"finishing", "done"}
      /\ \A d \in Messages : d # m => callback'[d] = callback[d]
  BY DEF Stdio!WriteSecond, Stdio!TypeOK
<1>3. lock = m /\ \A d \in Messages : d # m => callback[d] \notin {"first", "second"}
  BY <1>2 DEF FramesInOrder
<1>4. n % 2 = 1 /\ out[n] = <<m, 1>>
  BY <1>2 DEF FramesInOrder
<1>5. \A i \in 1..n : /\ callback[out[i][1]] \in Begun
                      /\ out[i][1] = m => out[i][2] = 1
  BY <1>1, <1>2 DEF FramesInOrder
<1> HIDE DEF n
<1>6. (n + 1) % 2 = 0
  BY <1>1, <1>4
<1>7. \A d \in Messages : callback'[d] \notin {"first", "second"}
  BY <1>2, <1>3
<1>8. \A i \in DOMAIN out' : callback'[out'[i][1]] \in Begun
  <2>1. ASSUME NEW i \in 1..n PROVE callback'[out'[i][1]] \in Begun
    <3>1. out[i][1] \in Messages
      BY <1>1
    <3>2. QED
      BY <1>1, <1>2, <1>5, <3>1 DEF Begun
  <2>2. callback'[out'[n + 1][1]] \in Begun
    BY <1>1, <1>2 DEF Begun
  <2>3. QED
    BY <1>1, <2>1, <2>2
<1>9. \A i \in DOMAIN out' : out'[i][1] \in Messages
  BY <1>1
<1>10. Stdio!FramesWhole'
  <2>1. ASSUME NEW i \in 1..(n + 1), i % 2 = 1
        PROVE  out'[i][2] = 1 /\ (i < n + 1 => out'[i + 1] = <<out'[i][1], 2>>)
    <3>1. i \in 1..n
      BY <1>1, <1>6, <2>1
    <3>2. CASE i = n
      BY <1>1, <1>4, <3>1, <3>2
    <3>3. CASE i # n
      <4>1. i < n /\ i + 1 \in 1..n
        BY <1>1, <3>1, <3>3
      <4>2. out[i][2] = 1 /\ out[i + 1] = <<out[i][1], 2>>
        BY <1>1, <2>1, <3>1, <4>1 DEF FramesInOrder, Stdio!FramesWhole, n
      <4>3. QED
        BY <1>1, <3>1, <4>1, <4>2
    <3>4. QED
      BY <3>2, <3>3
  <2>2. ASSUME NEW i \in 1..(n + 1), NEW j \in 1..(n + 1), out'[i] = out'[j] PROVE i = j
    <3>1. CASE i \in 1..n /\ j \in 1..n
      BY <1>1, <2>2, <3>1 DEF FramesInOrder, Stdio!FramesWhole
    <3>2. \A k \in 1..n : out'[k] # <<m, 2>>
      BY <1>1, <1>5
    <3>3. QED
      BY <1>1, <2>2, <3>1, <3>2
  <2>3. QED
    BY <1>1, <2>1, <2>2 DEF Stdio!FramesWhole
<1>11. QED
  BY <1>1, <1>6, <1>7, <1>8, <1>9, <1>10 DEF FramesInOrder

\* What the client reads stays written.
LEMMA WrittenStays ==
    ASSUME Stdio!TypeOK, StdioMoves, NEW m \in Messages, Stdio!Written(m)
    PROVE  Stdio!Written(m)'
<1>1. PICK i \in DOMAIN out : out[i] = <<m, 2>>
  BY DEF Stdio!Written
<1>2. ASSUME NEW e, out' = Append(out, e) PROVE i \in DOMAIN out' /\ out'[i] = out[i]
  BY <1>2, AppendProperties, LenProperties DEF Stdio!TypeOK
<1>3. CASE out' = out
  BY <1>1, <1>3 DEF Stdio!Written
<1>4. out' = out \/ \E d \in Messages : out' = Append(out, <<d, 1>>) \/ out' = Append(out, <<d, 2>>)
  BY DEF StdioMoves, Stdio!Client, Stdio!Read, Stdio!InputEnds, Stdio!ReaderRuns, Stdio!Submit,
     Stdio!Resume, Stdio!ReadEof, Stdio!Return, Stdio!Destroy, Stdio!Respond, Stdio!Complete,
     Stdio!LockOutput, Stdio!DumpThrows, Stdio!WriteFirst, Stdio!WriteSecond,
     Stdio!FinishPending, Stdio!response
<1>5. QED
  BY <1>1, <1>2, <1>3, <1>4 DEF Stdio!Written

\* One callback moves on without being finished.
LEMMA PendingKept ==
    ASSUME PendingExact, kind' = kind, pending' = pending,
           \A m \in Messages : kind[m] \in {"call", "note"} =>
                                   (callback'[m] = "done" <=> callback[m] = "done")
    PROVE  PendingExact'
<1>1. Unfinished' = Unfinished
  BY DEF Unfinished
<1>2. QED
  BY <1>1 DEF PendingExact

LEMMA PendingRead ==
    ASSUME Stdio!TypeOK, PendingExact, WorkDivided, NEW m \in Messages, NEW k \in Stdio!Kinds,
           Stdio!Read(m, k)
    PROVE  PendingExact'
<1>1. /\ kind[m] = "unread" /\ callback[m] = "none" /\ kind'[m] = k
      /\ \A d \in Messages : d # m => kind'[d] = kind[d] /\ callback'[d] = callback[d]
      /\ callback'[m] \in {"none", "locking"}
  BY DEF Stdio!Read, Stdio!TypeOK, WorkDivided, Silent
<1>2. m \notin Unfinished
  BY <1>1 DEF Unfinished
<1>3. CASE k \in {"call", "note"}
  <2>1. Unfinished' = Unfinished \cup {m}
    BY <1>1, <1>3 DEF Unfinished
  <2>2. pending' = pending + 1
    BY <1>3 DEF Stdio!Read, Stdio!Counted
  <2>3. QED
    BY <1>2, <2>1, <2>2, FS_AddElement DEF PendingExact
<1>4. CASE k \notin {"call", "note"}
  <2>1. Unfinished' = Unfinished
    BY <1>1, <1>4 DEF Unfinished
  <2>2. pending' = pending
    BY <1>4 DEF Stdio!Read, Stdio!Counted
  <2>3. QED
    BY <2>1, <2>2 DEF PendingExact
<1>5. QED
  BY <1>3, <1>4

LEMMA PendingFinished ==
    ASSUME Stdio!TypeOK, PendingExact, WorkDivided, NEW m \in Messages, Stdio!FinishPending(m)
    PROVE  PendingExact'
<1>1. /\ callback[m] = "finishing" /\ callback'[m] = "done" /\ kind' = kind
      /\ \A d \in Messages : d # m => callback'[d] = callback[d]
  BY DEF Stdio!FinishPending, Stdio!TypeOK
<1>2. m \in Unfinished
  BY <1>1 DEF Unfinished, WorkDivided, Stdio!TypeOK, Stdio!Kinds, Silent, Erroneous
<1>3. Unfinished' = Unfinished \ {m}
  BY <1>1 DEF Unfinished
<1>4. /\ IsFiniteSet(Unfinished') /\ Cardinality(Unfinished') = Cardinality(Unfinished) - 1
      /\ Cardinality(Unfinished) \in Nat /\ Cardinality(Unfinished') \in Nat
  BY <1>2, <1>3, FS_RemoveElement, FS_CardinalityType DEF PendingExact
<1>5. pending # 0
  BY <1>4 DEF PendingExact
<1>6. QED
  BY <1>4, <1>5 DEF PendingExact, Stdio!FinishPending

LEMMA PendingStaysExact ==
    ASSUME Stdio!TypeOK, PendingExact, WorkDivided, StdioMoves
    PROVE  PendingExact'
<1>1. ASSUME NEW m \in Messages, Stdio!Client(m) PROVE PendingExact'
  <2>1. CASE \E k \in Stdio!Kinds : Stdio!Read(m, k)
    BY <2>1, PendingRead
  <2>2. CASE \E s \in {"eof", "broken"} : Stdio!InputEnds(s)
    BY <2>2, PendingKept DEF Stdio!InputEnds, Stdio!response
  <2>3. QED
    BY <1>1, <2>1, <2>2 DEF Stdio!Client
<1>2. ASSUME NEW m \in Messages, Stdio!Submit(m) PROVE PendingExact'
  <2>1. callback[m] = "none" /\ \A d \in Messages : d # m => callback'[d] = callback[d]
    BY <1>2 DEF Stdio!Submit, WorkDivided, Stdio!TypeOK
  <2>2. QED
    BY <1>2, <2>1, PendingKept DEF Stdio!Submit, Stdio!TypeOK
<1>3. CASE Stdio!Resume \/ Stdio!ReadEof \/ Stdio!Return \/ Stdio!Destroy
  BY <1>3, PendingKept
  DEF Stdio!Resume, Stdio!ReadEof, Stdio!Return, Stdio!Destroy, Stdio!response
<1>4. ASSUME NEW m \in Messages, Stdio!FinishPending(m) PROVE PendingExact'
  BY <1>4, PendingFinished
<1>5. ASSUME NEW m \in Messages,
             \/ Stdio!Complete(m) \/ Stdio!LockOutput(m) \/ Stdio!DumpThrows(m)
             \/ Stdio!WriteFirst(m) \/ Stdio!WriteSecond(m)
      PROVE  PendingExact'
  <2>1. kind' = kind /\ pending' = pending
    BY <1>5 DEF Stdio!Complete, Stdio!LockOutput, Stdio!DumpThrows, Stdio!WriteFirst,
       Stdio!WriteSecond
  <2>2. /\ \A d \in Messages : d # m => callback'[d] = callback[d]
        /\ callback[m] # "done" /\ (kind[m] \in {"call", "note"} => callback'[m] # "done")
    <3>1. CASE Stdio!Complete(m) \/ Stdio!LockOutput(m) \/ Stdio!WriteFirst(m)
      BY <3>1 DEF Stdio!Complete, Stdio!LockOutput, Stdio!WriteFirst, Stdio!TypeOK
    <3>2. CASE Stdio!DumpThrows(m)
      BY <3>2 DEF Stdio!DumpThrows, Stdio!TypeOK
    <3>3. CASE Stdio!WriteSecond(m)
      BY <3>3 DEF Stdio!WriteSecond, Stdio!TypeOK, WorkDivided
    <3>4. QED
      BY <1>5, <3>1, <3>2, <3>3
  <2>3. QED
    BY <2>1, <2>2, PendingKept
<1>6. QED
  BY <1>1, <1>2, <1>3, <1>4, <1>5
  DEF StdioMoves, Stdio!ReaderRuns, Stdio!Respond

LEMMA WorkStaysDivided ==
    ASSUME Stdio!TypeOK, PendingExact, WorkDivided, StdioMoves
    PROVE  WorkDivided'
<1> USE NobodyAssumption DEF Silent, Erroneous
<1>1. \A m \in Messages : Stdio!Written(m) => Stdio!Written(m)'
  BY WrittenStays
<1>2. ASSUME NEW m \in Messages, NEW k \in Stdio!Kinds, Stdio!Read(m, k) PROVE WorkDivided'
  <2>1. /\ kind[m] = "unread" /\ callback[m] = "none" /\ kind'[m] = k
        /\ \A d \in Messages : d # m => kind'[d] = kind[d] /\ callback'[d] = callback[d]
        /\ reader = "reading" /\ alive' = alive /\ out' = out /\ mute' = mute
    BY <1>2 DEF Stdio!Read, Stdio!TypeOK, WorkDivided
  <2>2. CASE k \in {"call", "note"}
    <3>1. reader' = "begun" /\ current' = m /\ callback' = callback
      BY <1>2, <2>2 DEF Stdio!Read, Stdio!NextState
    <3>2. QED
      BY <1>1, <2>1, <2>2, <3>1 DEF WorkDivided
  <2>3. CASE k \in {"invalid", "garbage", "ill_formed"}
    <3>1. reader' = "erring" /\ current' = m /\ callback'[m] = "locking"
      BY <1>2, <2>3 DEF Stdio!Read, Stdio!NextState, Stdio!TypeOK
    <3>2. QED
      BY <1>1, <2>1, <2>3, <3>1 DEF WorkDivided
  <2>4. CASE k \in {"untimed", "cancel", "response", "bad_header", "oversized"}
    <3>1. reader' \in {"reading", "threw"} /\ callback' = callback
      BY <1>2, <2>4 DEF Stdio!Read, Stdio!NextState
    <3>2. QED
      BY <1>1, <2>1, <2>4, <3>1 DEF WorkDivided
  <2>5. QED
    BY <2>2, <2>3, <2>4 DEF Stdio!Kinds
<1>3. ASSUME NEW m \in Messages, Stdio!Submit(m) PROVE WorkDivided'
  <2>1. /\ kind[m] \in {"call", "note"} /\ callback[m] = "none" /\ callback'[m] = "queued"
        /\ \A d \in Messages : d # m => callback'[d] = callback[d]
        /\ reader = "begun" /\ reader' \in {"reading", "refused"}
    BY <1>3 DEF Stdio!Submit, Stdio!TypeOK, WorkDivided
  <2>2. kind' = kind /\ mute' = mute /\ alive' = alive
    BY <1>3 DEF Stdio!Submit
  <2>3. QED
    BY <1>1, <2>1, <2>2 DEF WorkDivided
<1>4. CASE Stdio!Resume
  BY <1>1, <1>4 DEF Stdio!Resume, Stdio!response, WorkDivided
<1>5. CASE Stdio!ReadEof
  BY <1>1, <1>5 DEF Stdio!ReadEof, Stdio!response, WorkDivided
<1>6. CASE Stdio!Return
  <2>1. Unfinished = {}
    BY <1>6, FS_EmptySet DEF Stdio!Return, Stdio!PendingDrained, PendingExact
  <2>2. Unfinished' = Unfinished
    BY <1>6 DEF Stdio!Return, Stdio!response, Unfinished
  <2>3. QED
    BY <1>1, <1>6, <2>1, <2>2 DEF Stdio!Return, Stdio!response, WorkDivided
<1>7. CASE Stdio!Destroy
  <2>1. Unfinished' = Unfinished
    BY <1>7 DEF Stdio!Destroy, Stdio!response, Unfinished
  <2>2. QED
    BY <1>1, <1>7, <2>1 DEF Stdio!Destroy, Stdio!response, WorkDivided
<1>8. ASSUME NEW m \in Messages, NEW s \in {"eof", "broken"}, Stdio!InputEnds(s)
      PROVE  WorkDivided'
  <2>1. Unfinished' = Unfinished
    BY <1>8 DEF Stdio!InputEnds, Stdio!response, Unfinished
  <2>2. QED
    BY <1>1, <1>8, <2>1 DEF Stdio!InputEnds, Stdio!response, WorkDivided
<1>9. ASSUME NEW m \in Messages, Stdio!Respond(m) PROVE WorkDivided'
  <2>1. /\ callback[m] \notin {"none", "done"} /\ kind' = kind /\ alive' = alive
        /\ current' = current /\ mute \subseteq mute'
        /\ \A d \in Messages : d # m => callback'[d] = callback[d]
    BY <1>9 DEF Stdio!Respond, Stdio!Complete, Stdio!LockOutput, Stdio!DumpThrows,
       Stdio!WriteFirst, Stdio!WriteSecond, Stdio!FinishPending, Stdio!TypeOK
  <2>2. kind[m] \notin Silent
    BY <2>1 DEF WorkDivided
  <2>3. /\ kind[m] = "note" => callback'[m] \in {"finishing", "done"}
        /\ kind[m] \in Erroneous => callback'[m] \in {"first", "second", "done"}
        /\ callback'[m] # "none"
    BY <1>9 DEF Stdio!Respond, Stdio!Complete, Stdio!LockOutput, Stdio!DumpThrows,
       Stdio!WriteFirst, Stdio!WriteSecond, Stdio!FinishPending, Stdio!TypeOK, WorkDivided
  <2>4. /\ reader' = reader \/ (reader' = "threw" /\ kind[m] = "ill_formed")
        /\ kind[m] \in Erroneous /\ callback'[m] # "done" => reader' = reader
    BY <1>9 DEF Stdio!Respond, Stdio!Complete, Stdio!LockOutput, Stdio!DumpThrows,
       Stdio!WriteFirst, Stdio!WriteSecond, Stdio!FinishPending, Stdio!TypeOK
  <2>5. callback'[m] \in {"finishing", "done"} /\ kind[m] \in {"call", "invalid", "garbage"}
          => Stdio!Written(m)' \/ m \in mute'
    <3>1. CASE Stdio!Complete(m) \/ Stdio!LockOutput(m) \/ Stdio!WriteFirst(m)
      BY <3>1 DEF Stdio!Complete, Stdio!LockOutput, Stdio!WriteFirst, Stdio!TypeOK
    <3>2. CASE Stdio!DumpThrows(m)
      BY <3>2 DEF Stdio!DumpThrows
    <3>3. CASE Stdio!WriteSecond(m)
      <4>1. Len(out') \in DOMAIN out' /\ out'[Len(out')] = <<m, 2>>
        BY <3>3, AppendProperties, LenProperties DEF Stdio!WriteSecond, Stdio!TypeOK
      <4>2. QED
        BY <4>1 DEF Stdio!Written
    <3>4. CASE Stdio!FinishPending(m)
      BY <1>1, <2>1, <3>4 DEF Stdio!FinishPending, WorkDivided
    <3>5. QED
      BY <1>9, <3>1, <3>2, <3>3, <3>4 DEF Stdio!Respond
  <2>6. reader' = "returned" => Unfinished' = {}
    <3>1. reader' = "returned" => m \notin Unfinished /\ Unfinished = {}
      BY <2>4 DEF WorkDivided
    <3>2. m \notin Unfinished => Unfinished' = Unfinished
      BY <2>1, <2>2, <2>4 DEF Unfinished
    <3>3. QED
      BY <3>1, <3>2
  <2>7. \A d \in Messages : kind'[d] \in Erroneous =>
           /\ callback'[d] \in {"locking", "first", "second", "done"}
           /\ callback'[d] = "done" \/ (reader' = "erring" /\ current' = d)
    <3>1. ASSUME NEW d \in Messages, kind[d] \in Erroneous, d # m, callback[d] # "done"
          PROVE  reader' = "erring"
      <4>1. reader = "erring" /\ current = d
        BY <3>1 DEF WorkDivided
      <4>2. kind[m] \notin Erroneous
        BY <2>1, <3>1, <4>1 DEF WorkDivided
      <4>3. QED
        BY <2>4, <4>1, <4>2
    <3>2. kind[m] \in Erroneous => reader = "erring" /\ current = m
      BY <2>1 DEF WorkDivided
    <3>3. QED
      BY <2>1, <2>3, <2>4, <3>1, <3>2 DEF WorkDivided
  <2>8. reader' = "begun" /\ current' \in Messages =>
           kind'[current'] \in {"call", "note"} /\ callback'[current'] = "none"
    BY <2>1, <2>4 DEF WorkDivided
  <2>9. ~alive' => reader' \in {"returned", "threw"}
    BY <2>1, <2>4 DEF WorkDivided
  <2>10. QED
    BY <1>1, <2>1, <2>2, <2>3, <2>5, <2>6, <2>7, <2>8, <2>9 DEF WorkDivided
<1>10. QED
  BY <1>2, <1>3, <1>4, <1>5, <1>6, <1>7, <1>8, <1>9
  DEF StdioMoves, Stdio!Client, Stdio!ReaderRuns

LEMMA FramesStayInOrder ==
    ASSUME Stdio!TypeOK, WorkDivided, FramesInOrder, StdioMoves
    PROVE  FramesInOrder'
<1>1. ASSUME NEW m \in Messages, NEW k \in Stdio!Kinds, Stdio!Read(m, k) PROVE FramesInOrder'
  <2>1. /\ callback[m] = "none" /\ callback'[m] \in {"none", "locking"}
        /\ \A d \in Messages : d # m => callback'[d] = callback[d]
    BY <1>1 DEF Stdio!Read, Stdio!TypeOK, WorkDivided, Silent
  <2>2. out' = out /\ lock' = lock
    BY <1>1 DEF Stdio!Read
  <2>3. QED
    BY <2>1, <2>2, FramesKept DEF FramesInOrder, Begun
<1>2. ASSUME NEW m \in Messages, Stdio!Submit(m) PROVE FramesInOrder'
  <2>1. /\ callback[m] = "none" /\ callback'[m] = "queued"
        /\ \A d \in Messages : d # m => callback'[d] = callback[d]
    BY <1>2 DEF Stdio!Submit, Stdio!TypeOK, WorkDivided
  <2>2. out' = out /\ lock' = lock
    BY <1>2 DEF Stdio!Submit
  <2>3. QED
    BY <2>1, <2>2, FramesKept DEF FramesInOrder, Begun
<1>3. CASE \/ Stdio!Resume \/ Stdio!ReadEof \/ Stdio!Return \/ Stdio!Destroy
           \/ \E s \in {"eof", "broken"} : Stdio!InputEnds(s)
  <2>1. out' = out /\ lock' = lock /\ callback' = callback
    BY <1>3 DEF Stdio!Resume, Stdio!ReadEof, Stdio!Return, Stdio!Destroy, Stdio!InputEnds,
       Stdio!response
  <2>2. QED
    BY <2>1, FramesKept DEF FramesInOrder
<1>4. ASSUME NEW m \in Messages, Stdio!Complete(m) \/ Stdio!DumpThrows(m) \/ Stdio!FinishPending(m)
      PROVE  FramesInOrder'
  <2>1. /\ callback[m] \notin {"first", "second"} /\ callback'[m] \notin {"first", "second"}
        /\ callback[m] \in Begun => callback'[m] \in Begun
        /\ \A d \in Messages : d # m => callback'[d] = callback[d]
        /\ out' = out /\ lock' = lock
    BY <1>4 DEF Stdio!Complete, Stdio!DumpThrows, Stdio!FinishPending, Stdio!TypeOK, Begun
  <2>2. QED
    BY <2>1, FramesKept DEF FramesInOrder
<1>5. ASSUME NEW m \in Messages, Stdio!LockOutput(m) PROVE FramesInOrder'
  <2>1. /\ callback[m] = "locking" /\ callback'[m] = "first" /\ lock = Nobody /\ lock' = m
        /\ \A d \in Messages : d # m => callback'[d] = callback[d]
        /\ out' = out
    BY <1>5 DEF Stdio!LockOutput, Stdio!OutputFree, Stdio!TypeOK
  <2>2. \A d \in Messages : callback[d] \notin {"first", "second"}
    BY <2>1, NobodyAssumption DEF FramesInOrder
  <2>3. QED
    BY <2>1, <2>2, FramesKept DEF Begun
<1>6. QED
  BY <1>1, <1>2, <1>3, <1>4, <1>5, FramesFirst, FramesSecond
  DEF StdioMoves, Stdio!Client, Stdio!ReaderRuns, Stdio!Respond

\* The invariant behind the promises of StdioServer, whatever the rest of the
\* process does.
StdioInv == PendingExact /\ WorkDivided /\ FramesInOrder

LEMMA StdioInvariant == Spec => []StdioInv
<1>1. Init => StdioInv
  <2> SUFFICES ASSUME Init PROVE StdioInv
    OBVIOUS
  <2> USE DEF Init, Stdio!Init
  <2>1. Unfinished = {}
    BY DEF Unfinished
  <2>2. PendingExact
    BY <2>1, FS_EmptySet DEF PendingExact
  <2>3. WorkDivided
    BY DEF WorkDivided, Silent, Erroneous
  <2>4. Len(out) = 0 /\ DOMAIN out = {}
    OBVIOUS
  <2>5. FramesInOrder
    BY <2>4 DEF FramesInOrder, Stdio!FramesWhole
  <2>6. QED
    BY <2>2, <2>3, <2>5 DEF StdioInv
<1>2. ASSUME TypeOK, StdioInv, [Next]_vars PROVE StdioInv'
  <2>1. CASE StdioMoves
    BY <1>2, <2>1, PendingStaysExact, WorkStaysDivided, FramesStayInOrder DEF TypeOK, StdioInv
  <2>2. CASE UNCHANGED stdioVars
    <3>1. Unfinished' = Unfinished
      BY <2>2 DEF stdioVars, Unfinished
    <3>2. QED
      BY <1>2, <2>2, <3>1 DEF stdioVars, StdioInv, PendingExact, WorkDivided, FramesInOrder,
         Stdio!FramesWhole, Stdio!Written
  <2>3. QED
    BY <1>2, <2>1, <2>2, StdioStep DEF TypeOK
<1>3. QED
  BY <1>1, <1>2, TypeCorrect, PTL DEF Spec

\* Frames on stdout are whole and come once each, however the reader's error
\* responses and the workers' callbacks interleave (writeMessage holds
\* output_mutex_ over both writes).
THEOREM FramesStayWhole == Spec => []StdioFramesWhole
<1>1. StdioInv => StdioFramesWhole
  BY DEF StdioInv, FramesInOrder, StdioFramesWhole
<1>2. QED
  BY <1>1, StdioInvariant, PTL

\* When run() returns, each request it read was answered on stdout, except those
\* whose response cannot be serialised: the counter run() waits for is exact.
THEOREM RunAnswersEveryRequest == Spec => []StdioAnsweredBeforeReturn
<1>1. StdioInv => StdioAnsweredBeforeReturn
  BY DEF StdioInv, WorkDivided, Unfinished, Erroneous, StdioAnsweredBeforeReturn,
     Stdio!AnsweredBeforeReturn
<1>2. QED
  BY <1>1, StdioInvariant, PTL

\* After a run() that returned, no callback is left that could use the destroyed
\* server (the wait at the end of run).
THEOREM NoCallbackOutlivesRun == Spec => []StdioCallbacksOnLiveServer
<1>1. TypeOK /\ StdioInv => StdioCallbacksOnLiveServer
  <2> SUFFICES ASSUME TypeOK, StdioInv, reader # "threw", NEW m \in Messages, ~alive,
                      callback[m] \notin {"none", "done"}
               PROVE  FALSE
    BY DEF TypeOK, Stdio!TypeOK, StdioCallbacksOnLiveServer, Stdio!CallbacksOnLiveServer
  <2>1. reader = "returned" /\ Unfinished = {}
    BY DEF StdioInv, WorkDivided
  <2>2. kind[m] \in Stdio!Kinds \cup {"unread"}
    BY DEF TypeOK, Stdio!TypeOK
  <2>3. QED
    BY <2>1, <2>2 DEF StdioInv, WorkDivided, Unfinished, Silent, Erroneous, Stdio!Kinds
<1>2. QED
  BY <1>1, StdioInvariant, TypeCorrect, PTL
===============================================================================
