----------------------------- MODULE Configuration -----------------------------
(***************************************************************************)
(* Config (config/config.cpp): what LoadFromFile leaves in config_data_    *)
(* and what the getters then return.  Pure operators; ServerProcess calls  *)
(* them from main.                                                         *)
(*                                                                         *)
(* The JSON document is abstracted to what the code distinguishes: whether *)
(* config_data_ is an object, whether each section is absent, an object or *)
(* something else, the integers of the numeric fields, and the fields that *)
(* hold a value of another JSON type.  log_level is one numeric field that *)
(* is 1 for a known level and 0 for any other word.  Of the other two      *)
(* logging options only the JSON type matters.                             *)
(***************************************************************************)
EXTENDS Integers, Functions

CONSTANTS
    IntWidth,   \* bits of int: a JSON number is narrowed to int by value()
    SizeWidth   \* bits of std::size_t

ASSUME WidthAssumption ==
    IntWidth \in Nat \ {0} /\ SizeWidth \in Nat /\ IntWidth < SizeWidth

\* What arithmetic says of these widths; the provers know nothing of powers.
ASSUME PowersAssumption ==
    0 < 2^(IntWidth - 1) /\ 2^(IntWidth - 1) < 2^IntWidth /\ 2^IntWidth < 2^SizeWidth

\* Every section is absent, a JSON object or a value of another type.
SectionShapes == {"absent", "object", "other"}

PoolSizes == {"worker_threads", "tool_workers", "resource_workers", "prompt_workers"}
QueueSizes == {"max_pending_tasks", "tool_max_pending_tasks",
               "resource_max_pending_tasks", "prompt_max_pending_tasks"}
SseLimits == {"sse_max_clients", "sse_max_pending_events_per_client",
              "sse_replay_buffer_events"}
Ports == {"port", "sse_port"}
Durations == {"request_timeout_ms", "tool_circuit_open_ms"}

ServerFields == PoolSizes \cup QueueSizes \cup SseLimits \cup Ports \cup Durations
                    \cup {"sse_workers", "tool_circuit_failure_threshold"}
LoggingFields == {"log_level", "log_file_size", "log_file_count"}
Fields == ServerFields \cup LoggingFields

\* A string and a boolean that ValidateConfig does not look at.
Unchecked == {"log_file_path", "log_console_output"}

\* The value SetDefaults inserts; the getters fall back to the same one.
Default(f) ==
    CASE f = "port" -> 8080
      [] f = "sse_port" -> 8090
      [] f = "worker_threads" -> 4
      [] f = "max_pending_tasks" -> 128
      [] f = "sse_max_clients" -> 16
      [] f = "sse_max_pending_events_per_client" -> 128
      [] f = "sse_replay_buffer_events" -> 256
      [] f \in Durations -> 30000
      [] f = "log_level" -> 1
      [] f = "log_file_size" -> 10 * 1024 * 1024
      [] f \in {"tool_circuit_failure_threshold", "log_file_count"} -> 5
      [] f \in QueueSizes \ {"max_pending_tasks"} -> 32
      [] OTHER -> 2

\* The greatest value ValidateConfig accepts; the least is 1.
Limit(f) ==
    CASE f \in Ports -> 65535
      [] f \in PoolSizes \cup {"sse_workers"} -> 1024
      [] f = "sse_max_clients" -> 100000
      [] f \in Durations -> 3600000
      [] OTHER -> 1000000

\* An int holds every limit.
ASSUME LimitAssumption == \A f \in Fields : Limit(f) < 2^(IntWidth - 1)

-------------------------------------------------------------------------------
(* config_data_.  "ill" are the fields that are present with a value that    *)
(* value() cannot convert.                                                   *)

NoData == [object |-> FALSE, server |-> "absent", logging |-> "absent",
           fields |-> <<>>, ill |-> {}]

IsDocument(d) ==
    d \in [object : BOOLEAN, server : SectionShapes, logging : SectionShapes,
           fields : [DOMAIN d.fields -> Int], ill : SUBSET (Fields \cup Unchecked)]

\* value(f, default): the stored number narrowed to int.
ToInt(v) == ((v + 2^(IntWidth - 1)) % 2^IntWidth) - 2^(IntWidth - 1)
ToSize(v) == v % 2^SizeWidth
Value(data, f) == IF f \in DOMAIN data.fields THEN ToInt(data.fields[f]) ELSE Default(f)

\* SetDefaults adds what is missing; it throws when it reaches a "logging" that
\* is no object, with the server section complete.
MissingFields(data) ==
    (IF data.logging = "other" THEN ServerFields ELSE Fields) \ (DOMAIN data.fields \cup data.ill)
SetDefaults(data) ==
    [data EXCEPT !.logging = IF @ = "other" THEN @ ELSE "object",
                 !.fields = [f \in DOMAIN @ \cup MissingFields(data) |->
                                IF f \in DOMAIN data.fields THEN data.fields[f] ELSE Default(f)]]

InRange(data, f) == Value(data, f) >= 1 /\ Value(data, f) <= Limit(f)

\* Faulty: the two ports are validated one by one only.
ServerValidOneByOne(data) == \A f \in ServerFields : InRange(data, f)
ServerValid(data) ==
    /\ \A f \in ServerFields : InRange(data, f)
    /\ Value(data, "sse_port") # Value(data, "port")

LoggingValid(data) ==
    /\ Value(data, "log_level") = 1
    /\ ToSize(Value(data, "log_file_size")) # 0
    /\ Value(data, "log_file_count") > 0

\* A field that value() cannot convert makes ValidateConfig throw, which
\* LoadFromFile turns into a failure as well, if it is one that is looked at.
ValidateConfig(data) ==
    data.ill \cap Fields = {} /\ ServerValid(data) /\ LoggingValid(data)

(* What LoadFromFile makes of a file: the result, and the config_data_ it    *)
(* leaves behind in either case.  A file that cannot be opened leaves the    *)
(* data alone; one that is not JSON leaves the part that was parsed.         *)
LoadFromFile(file) ==
    CASE file.kind = "missing" -> [loaded |-> FALSE, data |-> NoData]
      [] file.kind = "not_json" -> [loaded |-> FALSE, data |-> file.data]
      [] file.kind = "json" /\ (~file.data.object \/ file.data.server # "object") ->
            [loaded |-> FALSE, data |-> file.data]
      [] OTHER -> [loaded |-> /\ file.data.logging # "other"
                              /\ ValidateConfig(SetDefaults(file.data)),
                   data |-> SetDefaults(file.data)]

-------------------------------------------------------------------------------
(* The getters.  Most of them look whether there is a server section first.  *)

HasServer(data) == data.object /\ data.server = "object"

\* An unsigned getter converts the validated int to std::size_t.
Unsigned == PoolSizes \cup QueueSizes \cup SseLimits
                \cup {"sse_workers", "tool_circuit_failure_threshold"}

Get(data, f) ==
    IF ~HasServer(data) THEN Default(f)
    ELSE IF f \in Unsigned THEN ToSize(Value(data, f)) ELSE Value(data, f)

Throws(data, f) == HasServer(data) /\ f \in data.ill

(* GetServerPort and the logging getters read their section unguarded: on    *)
(* anything that is not an object they throw, and on an object without the   *)
(* section operator[] has no defined result.                                 *)
Section(data, f) ==
    IF f \in LoggingFields \cup Unchecked THEN data.logging ELSE data.server
UnguardedThrows(data, f) ==
    ~data.object \/ Section(data, f) = "other" \/ f \in data.ill
UnguardedUndefined(data, f) == data.object /\ Section(data, f) = "absent"

-------------------------------------------------------------------------------
(* What the checks secure for an accepted configuration: no getter of a      *)
(* server field, of the log level or of the size and number of log files     *)
(* throws; the server getters return a value of their range, with different  *)
(* ports for the two listeners; the level is known and there is a log file.  *)
(* Nothing is said of the size of a log file, which may be negative, and of  *)
(* the Unchecked options, whose getters may throw.                           *)
Usable(data) ==
    /\ HasServer(data)
    /\ \A f \in ServerFields : ~Throws(data, f) /\ Get(data, f) >= 1 /\ Get(data, f) <= Limit(f)
    /\ Get(data, "port") # Get(data, "sse_port")
    /\ \A f \in LoggingFields \cup {"port"} : ~UnguardedThrows(data, f) /\ ~UnguardedUndefined(data, f)
    /\ Value(data, "log_level") = 1 /\ Value(data, "log_file_count") >= 1
===============================================================================
