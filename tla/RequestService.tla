--------------------------- MODULE RequestService ---------------------------
(***************************************************************************)
(* What JsonRpcTaskRuntime promises about one request, whatever queues,    *)
(* workers and waiting threads it uses: a submitted request is either      *)
(* refused at once or accepted, it is resolved exactly once, and the       *)
(* verdict is honest: "cancelled" only for a request somebody cancelled,   *)
(* "timeout" only after its deadline, "shutting_down" only for a request   *)
(* that was never accepted and arrived after the shutdown had begun.       *)
(***************************************************************************)
CONSTANTS Requests, Unresolved

Refusals == {"busy", "shutting_down"}

\* "silent" is the absent response of a notification, refused or executed.
Verdicts == {"ok", "silent", "invalid", "cancelled", "timeout", "not_found",
             "failed", "unhandled"}

VARIABLES stage,       \* "absent", "open", "accepted" or "resolved"
          verdict,     \* the value the request's future was given
          cancelled,   \* requests for which a cancellation was signalled
          late,        \* requests whose deadline has passed
          accepting    \* no shutdown has begun

vars == <<stage, verdict, cancelled, late, accepting>>

Init ==
    /\ stage = [r \in Requests |-> "absent"]
    /\ verdict = [r \in Requests |-> Unresolved]
    /\ cancelled = {}
    /\ late = {}
    /\ accepting = TRUE

Submit(r) ==
    /\ stage[r] = "absent"
    /\ stage' = [stage EXCEPT ![r] = "open"]
    /\ UNCHANGED <<verdict, cancelled, late, accepting>>

Accept(r) ==
    /\ stage[r] = "open"
    /\ stage' = [stage EXCEPT ![r] = "accepted"]
    /\ UNCHANGED <<verdict, cancelled, late, accepting>>

Refuse(r, v) ==
    /\ stage[r] = "open"
    /\ v = "shutting_down" => ~accepting
    /\ stage' = [stage EXCEPT ![r] = "resolved"]
    /\ verdict' = [verdict EXCEPT ![r] = v]
    /\ UNCHANGED <<cancelled, late, accepting>>

Resolve(r, v) ==
    /\ stage[r] = "accepted"
    /\ v = "cancelled" => r \in cancelled
    /\ v = "timeout" => r \in late
    /\ stage' = [stage EXCEPT ![r] = "resolved"]
    /\ verdict' = [verdict EXCEPT ![r] = v]
    /\ UNCHANGED <<cancelled, late, accepting>>

Cancel(r) ==
    /\ stage[r] # "absent"
    /\ cancelled' = cancelled \cup {r}
    /\ UNCHANGED <<stage, verdict, late, accepting>>

Expire(r) ==
    /\ stage[r] # "absent"
    /\ late' = late \cup {r}
    /\ UNCHANGED <<stage, verdict, cancelled, accepting>>

BeginShutdown ==
    /\ accepting' = FALSE
    /\ UNCHANGED <<stage, verdict, cancelled, late>>

Decide(r) ==
    \/ Accept(r)
    \/ \E v \in Refusals \cup {"silent"} : Refuse(r, v)
    \/ \E v \in Verdicts : Resolve(r, v)

Next ==
    \/ \E r \in Requests : Submit(r) \/ Decide(r) \/ Cancel(r) \/ Expire(r)
    \/ BeginShutdown

\* Every submitted request is resolved.
Fairness == \A r \in Requests : WF_vars(Decide(r))

Spec == Init /\ [][Next]_vars /\ Fairness
=============================================================================
