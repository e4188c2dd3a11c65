---------------------------- MODULE MCTaskRuntime ----------------------------
(* Small instances of TaskRuntime: two or three tasks in two lanes, one       *)
(* worker per lane, possibly a second one for tools, one-place queues.        *)
EXTENDS TaskRuntime, TLC

CONSTANTS t1, t2, t3, w1, w2, w3, w4, w5, k1, k2, k3

\* t1 and t2 are tool calls, t3 is a light request of the default lane.
MethodOf == [t \in Tasks |-> IF t = t3 THEN "tools/list" ELSE "tools/call"]

PoolAssignment ==
    [w \in Workers |-> CASE w \in {w1, w2} -> "Tool"
                         [] w = w3         -> "Default"
                         [] w = w4         -> "Resource"
                         [] w = w5         -> "Prompt"]
ToolWorkerSymmetry == Permutations({w1, w2})

OnePlaceEach == [l \in Lanes |-> 1]

AllCallable == [t \in Tasks |-> "callable"]
OwnKeys     == [t \in Tasks |-> CASE t = t1 -> k1 [] t = t2 -> k2 [] t = t3 -> k3]

\* A synchronous tool call, an asynchronous call of an unknown tool method and
\* a malformed notification that nobody waits for.
MixedEntries == [t \in Tasks |-> CASE t = t1 -> "wait" [] t = t2 -> "callback" [] t = t3 -> "detached"]
MixedKeys    == [t \in Tasks |-> CASE t = t1 -> k1 [] t = t2 -> k2 [] t = t3 -> NoKey]
MixedShapes  == [t \in Tasks |-> CASE t = t1 -> "callable" [] t = t2 -> "unknown" [] t = t3 -> "malformed"]

\* HTTP: every request waits.  stdio: every request has a callback.
AllWait     == [t \in Tasks |-> "wait"]
AllCallback == [t \in Tasks |-> "callback"]

\* One client that gives both its tool calls the same id.
SameKey == [t \in Tasks |-> k1]
==============================================================================
