-------------------------- MODULE ToolCircuitBreaker --------------------------
(***************************************************************************)
(* ToolCircuitBreaker (tool_circuit_breaker.cpp) together with its one     *)
(* user, the tools/call handler of mcp_server_main.cpp, which brackets     *)
(* call_tool between allow_call and record_success / record_failure.       *)
(*                                                                         *)
(* A caller is a thread of the tool lane; it executes one tools/call after *)
(* another.  Calls overlap, so a call admitted in one state of the breaker *)
(* may report in another.  Time is abstracted to two facts: whether        *)
(* open_duration_ has elapsed since opened_at, and whether the deadline of *)
(* a call has passed.                                                      *)
(***************************************************************************)
EXTENDS Naturals, FiniteSets

CONSTANTS
    Tools,        \* the names of tools/call
    Throwing,     \* those whose call_tool may end by an exception
    Callers,      \* worker threads of the tool lane
    HttpCallers,  \* those whose caller waits in wait_for_result
    Threshold,    \* failure_threshold_
    ClientCancels \* whether clients send $/cancelRequest

\* The constructor raises the threshold to at least 1.
ASSUME ThresholdAssumption == Threshold \in Nat \ {0}
ASSUME CallersAssumption ==
    /\ HttpCallers \subseteq Callers
    /\ Throwing \subseteq Tools
    /\ ClientCancels \in BOOLEAN

VARIABLES
    state,      \* Entry::state of each tool
    failures,   \* Entry::consecutive_failures
    cooled,     \* open_duration_ has elapsed since opened_at
    pc,         \* where each caller is in the handler
    tool,       \* the tool it calls
    probe,      \* allow_call admitted it as the HalfOpen probe
    isError,    \* ToolResult::is_error of its call
    overdue,    \* its deadline has passed
    cancelled,  \* its cancellation token is set
    abandoned   \* tools whose last probe left without recording (history)

vars == <<state, failures, cooled, pc, tool, probe, isError, overdue, cancelled,
          abandoned>>
breaker == <<state, failures, cooled>>

States == {"Closed", "Open", "HalfOpen"}

\* Before allow_call; inside call_tool; back from it; about to record.
Locations == {"idle", "calling", "returned", "to_fail", "to_succeed"}

Init ==
    /\ state = [t \in Tools |-> "Closed"]
    /\ failures = [t \in Tools |-> 0]
    /\ cooled = [t \in Tools |-> FALSE]
    /\ pc = [c \in Callers |-> "idle"]
    /\ tool \in [Callers -> Tools]
    /\ probe = [c \in Callers |-> FALSE]
    /\ isError = [c \in Callers |-> FALSE]
    /\ overdue = [c \in Callers |-> FALSE]
    /\ cancelled = [c \in Callers |-> FALSE]
    /\ abandoned = {}

-------------------------------------------------------------------------------
\* A caller that enters call_tool starts a fresh request.
Enter(c, t, asProbe) ==
    /\ pc' = [pc EXCEPT ![c] = "calling"]
    /\ tool' = [tool EXCEPT ![c] = t]
    /\ probe' = [probe EXCEPT ![c] = asProbe]
    /\ UNCHANGED <<isError, overdue, cancelled>>

\* What the request carried is forgotten when its handler returns.
Leave(c) ==
    /\ pc' = [pc EXCEPT ![c] = "idle"]
    /\ probe' = [probe EXCEPT ![c] = FALSE]
    /\ isError' = [isError EXCEPT ![c] = FALSE]
    /\ overdue' = [overdue EXCEPT ![c] = FALSE]
    /\ cancelled' = [cancelled EXCEPT ![c] = FALSE]
    /\ UNCHANGED tool

(* allow_call returns true for a closed circuit. *)
AllowClosed(c, t) ==
    /\ pc[c] = "idle"
    /\ state[t] = "Closed"
    /\ Enter(c, t, FALSE)
    /\ UNCHANGED <<breaker, abandoned>>

(* allow_call after the cool-down: this call becomes the probe. *)
AllowProbe(c, t) ==
    /\ pc[c] = "idle"
    /\ state[t] = "Open" /\ cooled[t]
    /\ state' = [state EXCEPT ![t] = "HalfOpen"]
    /\ Enter(c, t, TRUE)
    /\ abandoned' = abandoned \ {t}
    /\ UNCHANGED <<failures, cooled>>

\* Otherwise allow_call returns false and the handler answers
\* "Tool temporarily unavailable" without touching the breaker: a stutter.

(* call_tool returns its final result. *)
ToolReturns(c, error) ==
    /\ pc[c] = "calling"
    /\ pc' = [pc EXCEPT ![c] = "returned"]
    /\ isError' = [isError EXCEPT ![c] = error]
    /\ UNCHANGED <<breaker, tool, probe, overdue, cancelled, abandoned>>

(* An exception of call_tool (no such tool, or one that call_tool itself does *)
(* not catch) leaves the handler without recording.                           *)
ToolThrows(c) ==
    /\ pc[c] = "calling"
    /\ tool[c] \in Throwing
    /\ abandoned' = IF probe[c] THEN abandoned \cup {tool[c]} ELSE abandoned
    /\ Leave(c)
    /\ UNCHANGED breaker

(* The handler finds its token cancelled and returns without recording. *)
SkipCancelled(c) ==
    /\ pc[c] = "returned"
    /\ cancelled[c]
    /\ abandoned' = IF probe[c] THEN abandoned \cup {tool[c]} ELSE abandoned
    /\ Leave(c)
    /\ UNCHANGED breaker

(* The handler finds its token unset and chooses what to record. *)
Judge(c) ==
    /\ pc[c] = "returned"
    /\ ~cancelled[c]
    /\ pc' = [pc EXCEPT ![c] = IF isError[c] \/ overdue[c] THEN "to_fail" ELSE "to_succeed"]
    /\ UNCHANGED <<breaker, tool, probe, isError, overdue, cancelled, abandoned>>

\* The failure count after a success; faulty: a success takes back one failure
\* only, or none.
CountDown(t) == failures[t] - 1
CountKept(t) == failures[t]
CountAfterSuccess(t) == 0

RecordSuccess(c) ==
    /\ pc[c] = "to_succeed"
    /\ state' = [state EXCEPT ![tool[c]] = "Closed"]
    /\ failures' = [failures EXCEPT ![tool[c]] = CountAfterSuccess(tool[c])]
    /\ Leave(c)
    /\ UNCHANGED <<cooled, abandoned>>

\* The failure count after a failure: a failed probe reaches the threshold at
\* once; faulty: a failed probe starts a new count.
CountRestarted(t) == IF state[t] = "HalfOpen" THEN 1 ELSE failures[t] + 1
CountAfterFailure(t) == IF state[t] = "HalfOpen" THEN Threshold ELSE failures[t] + 1

Trips(count) == count >= Threshold

(* Reaching the threshold opens the circuit and restarts the cool-down, also *)
(* when it is already open.                                                  *)
RecordFailure(c) ==
    LET t == tool[c]
        count == CountAfterFailure(t) IN
    /\ pc[c] = "to_fail"
    /\ failures' = [failures EXCEPT ![t] = count]
    /\ IF Trips(count)
       THEN /\ state' = [state EXCEPT ![t] = "Open"]
            /\ cooled' = [cooled EXCEPT ![t] = FALSE]
       ELSE UNCHANGED <<state, cooled>>
    /\ Leave(c)
    /\ UNCHANGED abandoned

-------------------------------------------------------------------------------
(* The environment: time and the waiting side of the request. *)

CoolDown(t) ==
    /\ state[t] = "Open" /\ ~cooled[t]
    /\ cooled' = [cooled EXCEPT ![t] = TRUE]
    /\ UNCHANGED <<state, failures, pc, tool, probe, isError, overdue, cancelled,
                   abandoned>>

DeadlinePasses(c) ==
    /\ pc[c] # "idle" /\ ~overdue[c]
    /\ overdue' = [overdue EXCEPT ![c] = TRUE]
    /\ UNCHANGED <<breaker, pc, tool, probe, isError, cancelled, abandoned>>

\* wait_for_result cancels the token of a request it stops waiting for.
WaiterCancels(c) ==
    /\ c \in HttpCallers
    /\ pc[c] # "idle" /\ overdue[c] /\ ~cancelled[c]
    /\ cancelled' = [cancelled EXCEPT ![c] = TRUE]
    /\ UNCHANGED <<breaker, pc, tool, probe, isError, overdue, abandoned>>

ClientCancel(c) ==
    /\ ClientCancels
    /\ pc[c] # "idle" /\ ~cancelled[c]
    /\ cancelled' = [cancelled EXCEPT ![c] = TRUE]
    /\ UNCHANGED <<breaker, pc, tool, probe, isError, overdue, abandoned>>

-------------------------------------------------------------------------------
Call(c) == \E t \in Tools : AllowClosed(c, t) \/ AllowProbe(c, t)

Finish(c) ==
    \/ \E e \in BOOLEAN : ToolReturns(c, e)
    \/ ToolThrows(c) \/ SkipCancelled(c) \/ Judge(c) \/ RecordSuccess(c) \/ RecordFailure(c)

Next ==
    \/ \E c \in Callers : Call(c) \/ Finish(c)
    \/ \E c \in Callers : DeadlinePasses(c) \/ WaiterCancels(c) \/ ClientCancel(c)
    \/ \E t \in Tools : CoolDown(t)

\* A tool call returns and its handler runs to the end; nobody has to call a tool.
Fairness == \A c \in Callers : WF_vars(Finish(c))

Spec == Init /\ [][Next]_vars /\ Fairness

-------------------------------------------------------------------------------
TypeOK ==
    /\ state \in [Tools -> States]
    /\ failures \in [Tools -> Nat]
    /\ cooled \in [Tools -> BOOLEAN]
    /\ pc \in [Callers -> Locations]
    /\ tool \in [Callers -> Tools]
    /\ probe \in [Callers -> BOOLEAN]
    /\ isError \in [Callers -> BOOLEAN]
    /\ overdue \in [Callers -> BOOLEAN]
    /\ cancelled \in [Callers -> BOOLEAN]
    /\ abandoned \subseteq Tools

\* The circuit is closed exactly while fewer than Threshold failures have been
\* recorded since the last success, whatever overlapping calls of the tool were
\* admitted earlier and report late.
ClosedBelowThreshold ==
    \A t \in Tools : state[t] = "Closed" <=> failures[t] < Threshold

\* A half-open circuit is waiting for a probe that is still going to report,
\* unless the probe left without recording: cancelled, or by an exception.  This
\* is what its recovery depends on, since allow_call refuses everybody else.
HalfOpenHasProbe ==
    \A t \in Tools : state[t] = "HalfOpen" /\ t \notin abandoned =>
        \E c \in Callers : pc[c] # "idle" /\ probe[c] /\ tool[c] = t

\* README: a circuit that opened is probed and leaves the half-open state again.
HalfOpenIsTransient == \A t \in Tools : state[t] = "HalfOpen" ~> state[t] # "HalfOpen"
===============================================================================
