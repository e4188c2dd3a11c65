---------------------------- MODULE MCServerProcess ----------------------------
(* A small instance of ServerProcess: every mode, one SSE client, two stdin   *)
(* frames, and configuration files that differ from the defaults in at most   *)
(* two places.                                                                *)
EXTENDS ServerProcess

CONSTANTS m1, m2, ann

\* Values around the limits, and numbers that an int does not hold.
Probes(f) == {0, 1, Limit(f), Limit(f) + 1, 0 - 1, 2^IntWidth + 7, Default("port")}

Document(fields, ill) ==
    [object |-> TRUE, server |-> "object", logging |-> "object", fields |-> fields, ill |-> ill]
Parsed(data) == [kind |-> "json", data |-> data]

\* Two fields that are written down, all the others left to their defaults.
TwoFields ==
    {Parsed(Document([f \in {g, h} |-> IF f = g THEN v ELSE w], {})) :
        g \in {"sse_port"}, h \in {"port"}, v \in Probes("port"), w \in Probes("port")}
OneField == UNION {{Parsed(Document([g \in {f} |-> v], {})) : v \in Probes(f)} : f \in Fields}
WrongTypes ==
    {Parsed(Document(<<>>, {f})) :
        f \in {"port", "tool_workers", "sse_workers", "request_timeout_ms", "log_level"} \cup Unchecked}

\* Documents whose sections are not what they should be, read to the end or not.
Shapes == {[NoData EXCEPT !.object = TRUE, !.server = s, !.logging = l] :
              s \in SectionShapes, l \in SectionShapes}
OddFiles ==
    {[kind |-> "missing", data |-> NoData], [kind |-> "not_json", data |-> NoData], Parsed(NoData)}
        \cup {[kind |-> k, data |-> d] : k \in {"json", "not_json"}, d \in Shapes}

SentInMode == [m \in Modes |-> CASE m = "stdio" -> {m1, m2} [] m = "both" -> {m1} [] m = "http" -> {}]

DefaultsOnly == {Parsed(Document(<<>>, {}))}
AllFiles == OneField \cup TwoFields \cup WrongTypes \cup OddFiles
===============================================================================
