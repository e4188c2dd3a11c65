-------------------------------- MODULE ToolCall --------------------------------
(***************************************************************************)
(* McpServer::call_tool (mcp_server.cpp), the retry loop around a tool     *)
(* handler, and the handler with side effects, write_file                  *)
(* (mcp_server_main.cpp).                                                  *)
(*                                                                         *)
(* Every call runs on a worker of the tool lane.  A call should stop when  *)
(* its token is cancelled, its request's deadline or the tool's own time   *)
(* budget is over; the code asks for the disjunction only, and so does the *)
(* model.  A handler other than write_file is any code that returns or     *)
(* throws.  Files are seen through their content: the old one, nothing,    *)
(* what one call wrote, a part of it, or parts of several.                 *)
(***************************************************************************)
EXTENDS Integers, Sequences, FiniteSets

CONSTANTS
    Calls,
    Writers,      \* calls of write_file
    PoliciesOf,   \* the execution policies tried for the tool of each call
    HasCallback,  \* whether set_sse_callback was called (mode http or both)
    Files,
    FileOf,       \* the file each writer's path denotes
    LockOf,       \* the stripe of g_file_write_locks its normalised path hashes to
    Free          \* a stripe nobody holds

Stripes == {LockOf[c] : c \in Writers}
Contents == {"old", "empty", "short", "mixed"} \* other than what one call wrote

ASSUME CallsAssumption ==
    /\ Writers \subseteq Calls
    /\ \A c \in Calls : PoliciesOf[c] \subseteq [idempotent : BOOLEAN, max_retries : Int]
    /\ \A c \in Writers : \A p \in PoliciesOf[c] : ~p.idempotent
    /\ HasCallback \in BOOLEAN
    /\ FileOf \in [Writers -> Files]
    /\ Free \notin Calls
    /\ Calls \cap Contents = {}
\* A file is written under one normalised path; links that give it a second one
\* are outside of what the locks can see.
ASSUME OnePathPerFile ==
    \A c, d \in Writers : FileOf[c] = FileOf[d] => LockOf[c] = LockOf[d]

VARIABLES
    policy,    \* execution_policy of the tool it calls
    pc,        \* where each call is
    stopped,   \* should_stop() is true for it
    attempt,   \* the attempt the retry loop is at, from 0
    runs,      \* handler invocations (history)
    outcome,   \* what the handler returned
    result,    \* what call_tool returned
    events,    \* SSE events published for the call
    holder,    \* holder of each stripe
    content    \* content of each file

vars == <<policy, pc, stopped, attempt, runs, outcome, result, events, holder, content>>
files == <<holder, content>>
loop == <<attempt, runs, result, events>>

\* In call_tool; inside write_file; inside another handler; afterwards.
LoopLocations == {"entry", "announce", "check", "returned", "retryable", "threw", "backoff", "done"}
WriteLocations == {"w_check", "w_lock", "w_recheck", "w_open", "w_opened", "w_write"}
Locations == LoopLocations \cup WriteLocations \cup {"handler"}

Outcomes == {"none", "ok", "error", "not_written"}
Results == {"none", "ok", "error", "not_written", "cancelled", "thrown"}
Events == {"start", "end_ok", "end_failed", "error"}

Init ==
    /\ policy \in [Calls -> UNION {PoliciesOf[c] : c \in Calls}]
    /\ \A c \in Calls : policy[c] \in PoliciesOf[c]
    /\ pc = [c \in Calls |-> "entry"]
    /\ stopped = [c \in Calls |-> FALSE]
    /\ attempt = [c \in Calls |-> 0]
    /\ runs = [c \in Calls |-> 0]
    /\ outcome = [c \in Calls |-> "none"]
    /\ result = [c \in Calls |-> "none"]
    /\ events = [c \in Calls |-> <<>>]
    /\ holder = [s \in Stripes |-> Free]
    /\ content = [f \in Files |-> "old"]

-------------------------------------------------------------------------------
At(c, location) == pc[c] = location
Goto(c, location) == pc' = [pc EXCEPT ![c] = location]
Return(c, value) == Goto(c, "done") /\ result' = [result EXCEPT ![c] = value]
Publish(c, event) == events' = IF HasCallback THEN [events EXCEPT ![c] = Append(@, event)] ELSE events

(* The lookup, which throws for an unknown tool, and the first check. *)
Enter(c) ==
    /\ At(c, "entry")
    /\ IF stopped[c] THEN Return(c, "cancelled") ELSE Goto(c, "announce") /\ UNCHANGED result
    /\ UNCHANGED <<policy, stopped, attempt, runs, outcome, events, files>>

EnterUnknown(c) ==
    /\ At(c, "entry") /\ c \notin Writers
    /\ Return(c, "thrown")
    /\ UNCHANGED <<policy, stopped, attempt, runs, outcome, events, files>>

Announce(c) ==
    /\ At(c, "announce")
    /\ Goto(c, "check")
    /\ Publish(c, "start")
    /\ UNCHANGED <<policy, stopped, attempt, runs, outcome, result, files>>

AtLeastZero(n) == IF n > 0 THEN n ELSE 0
\* Faulty: tools that are not idempotent are retried as well.
RetriesOfPolicy(c) == AtLeastZero(policy[c].max_retries)
RetriesAllowed(c) == IF policy[c].idempotent THEN AtLeastZero(policy[c].max_retries) ELSE 0

(* The check before an attempt; the handler is entered, or the call returns  *)
(* without an event.                                                         *)
BeginAttempt(c) ==
    /\ At(c, "check")
    /\ IF stopped[c]
       THEN Return(c, "cancelled") /\ UNCHANGED runs
       ELSE /\ Goto(c, IF c \in Writers THEN "w_check" ELSE "handler")
            /\ runs' = [runs EXCEPT ![c] = @ + 1]
            /\ UNCHANGED result
    /\ UNCHANGED <<policy, stopped, attempt, outcome, events, files>>

(* A handler other than write_file returns a result, throws RetryableToolError, *)
(* another std::exception, or something else, which leaves call_tool.           *)
HandlerReturns(c) ==
    /\ At(c, "handler")
    /\ Goto(c, "returned")
    /\ \E o \in {"ok", "error"} : outcome' = [outcome EXCEPT ![c] = o]
    /\ UNCHANGED <<policy, stopped, loop, files>>

HandlerThrows(c) ==
    /\ At(c, "handler")
    /\ \/ (Goto(c, "retryable") \/ Goto(c, "threw")) /\ UNCHANGED result
       \/ Return(c, "thrown")
    /\ UNCHANGED <<policy, stopped, attempt, runs, outcome, events, files>>

\* The event reports the result; faulty: what the handler returned, although
\* the call was stopped meanwhile.
OutcomeReported(c, final) == IF outcome[c] = "ok" THEN "end_ok" ELSE "end_failed"
EndReported(c, final) == IF final = "ok" THEN "end_ok" ELSE "end_failed"

(* The result of a call that was stopped meanwhile is replaced. *)
Complete(c) ==
    LET final == IF stopped[c] THEN "cancelled" ELSE outcome[c] IN
    /\ At(c, "returned")
    /\ Return(c, final)
    /\ Publish(c, EndReported(c, final))
    /\ UNCHANGED <<policy, stopped, attempt, runs, outcome, files>>

Fail(c) ==
    /\ \/ At(c, "threw")
       \/ At(c, "retryable") /\ (attempt[c] >= RetriesAllowed(c) \/ stopped[c])
    /\ Return(c, "error")
    /\ Publish(c, "error")
    /\ UNCHANGED <<policy, stopped, attempt, runs, outcome, files>>

Retry(c) ==
    /\ At(c, "retryable")
    /\ attempt[c] < RetriesAllowed(c) /\ ~stopped[c]
    /\ Goto(c, "backoff")
    /\ UNCHANGED <<policy, stopped, loop, outcome, files>>

\* Faulty: the attempts are counted down.
PreviousAttempt(c) == attempt[c] - 1
NextAttempt(c) == attempt[c] + 1

(* wait_for_retry_backoff: the delay elapses, or the call is stopped. *)
BackoffElapses(c) ==
    /\ At(c, "backoff") /\ ~stopped[c]
    /\ Goto(c, "check")
    /\ attempt' = [attempt EXCEPT ![c] = NextAttempt(c)]
    /\ UNCHANGED <<policy, stopped, runs, outcome, result, events, files>>

BackoffStops(c) ==
    /\ At(c, "backoff") /\ stopped[c]
    /\ Return(c, "cancelled")
    /\ UNCHANGED <<policy, stopped, attempt, runs, outcome, events, files>>

-------------------------------------------------------------------------------
(* write_file *)

WriteReturns(c, o) == Goto(c, "returned") /\ outcome' = [outcome EXCEPT ![c] = o]

\* Faulty: an early return keeps the stripe.
KeepStripe(c) == holder' = holder
ReleaseStripe(c) == holder' = [holder EXCEPT ![LockOf[c]] = Free]

WriteCheck(c) ==
    /\ At(c, "w_check")
    /\ IF stopped[c] THEN WriteReturns(c, "not_written") ELSE Goto(c, "w_lock") /\ UNCHANGED outcome
    /\ UNCHANGED <<policy, stopped, loop, files>>

\* An argument is missing, which throws, or the path cannot be made absolute.
WriteRejected(c) ==
    /\ At(c, "w_check")
    /\ \/ Goto(c, "threw") /\ UNCHANGED outcome
       \/ ~stopped[c] /\ WriteReturns(c, "error")
    /\ UNCHANGED <<policy, stopped, loop, files>>

\* Faulty: writers do not wait for each other.
StripeIgnored(c) == TRUE
StripeFree(c) == holder[LockOf[c]] = Free

WriteLock(c) ==
    /\ At(c, "w_lock") /\ StripeFree(c)
    /\ holder' = [holder EXCEPT ![LockOf[c]] = c]
    /\ Goto(c, "w_recheck")
    /\ UNCHANGED <<policy, stopped, loop, outcome, content>>

WriteRecheck(c) ==
    /\ At(c, "w_recheck")
    /\ IF stopped[c]
       THEN WriteReturns(c, "not_written") /\ ReleaseStripe(c)
       ELSE Goto(c, "w_open") /\ UNCHANGED <<outcome, holder>>
    /\ UNCHANGED <<policy, stopped, loop, content>>

(* The stream truncates the file it opens. *)
WriteOpen(c) ==
    /\ At(c, "w_open")
    /\ Goto(c, "w_opened")
    /\ content' = [content EXCEPT ![FileOf[c]] = "empty"]
    /\ UNCHANGED <<policy, stopped, loop, outcome, holder>>

WriteOpenFails(c) ==
    /\ At(c, "w_open")
    /\ WriteReturns(c, "error") /\ ReleaseStripe(c)
    /\ UNCHANGED <<policy, stopped, loop, content>>

WriteOpened(c) ==
    /\ At(c, "w_opened")
    /\ IF stopped[c]
       THEN WriteReturns(c, "not_written") /\ ReleaseStripe(c)
       ELSE Goto(c, "w_write") /\ UNCHANGED <<outcome, holder>>
    /\ UNCHANGED <<policy, stopped, loop, content>>

(* The content is written and the file closed; that a write may come out short *)
(* is not looked at.                                                           *)
WriteContent(c) ==
    /\ At(c, "w_write")
    /\ WriteReturns(c, "ok") /\ ReleaseStripe(c)
    /\ \E written \in {c, "short"} :
           content' = [content EXCEPT ![FileOf[c]] = IF @ = "empty" THEN written ELSE "mixed"]
    /\ UNCHANGED <<policy, stopped, loop>>

-------------------------------------------------------------------------------
\* The client cancels, or a deadline passes.
Stop(c) ==
    /\ ~stopped[c] /\ pc[c] # "done"
    /\ stopped' = [stopped EXCEPT ![c] = TRUE]
    /\ UNCHANGED <<policy, pc, loop, outcome, files>>

Write(c) ==
    \/ WriteCheck(c) \/ WriteRejected(c) \/ WriteLock(c) \/ WriteRecheck(c) \/ WriteOpen(c)
    \/ WriteOpenFails(c) \/ WriteOpened(c) \/ WriteContent(c)

Step(c) ==
    \/ Enter(c) \/ EnterUnknown(c) \/ Announce(c) \/ BeginAttempt(c)
    \/ HandlerReturns(c) \/ HandlerThrows(c) \/ Complete(c) \/ Fail(c) \/ Retry(c) \/ BackoffElapses(c) \/ BackoffStops(c)
    \/ c \in Writers /\ Write(c)

Next == \E c \in Calls : Step(c) \/ Stop(c)

\* Workers keep running and handlers return; a stripe is contended by finitely
\* many calls.
Fairness == \A c \in Calls : WF_vars(Step(c))

Spec == Init /\ [][Next]_vars /\ Fairness

-------------------------------------------------------------------------------
TypeOK ==
    /\ policy \in [Calls -> [idempotent : BOOLEAN, max_retries : Int]]
    /\ pc \in [Calls -> Locations]
    /\ stopped \in [Calls -> BOOLEAN]
    /\ attempt \in [Calls -> Nat]
    /\ runs \in [Calls -> Nat]
    /\ outcome \in [Calls -> Outcomes]
    /\ result \in [Calls -> Results]
    /\ events \in [Calls -> Seq(Events)]
    /\ holder \in [Stripes -> Calls \cup {Free}]
    /\ content \in [Files -> Calls \cup Contents]

Returned(c) == pc[c] = "done"

\* The events of a call and its result tell the same story: a call that announced
\* itself reports its end once, as a success exactly if it was one; only a call
\* that was stopped between two attempts, or whose handler threw something that
\* is no std::exception, never reports an end.
EventsMatchResult ==
    \A c \in Calls : Returned(c) /\ HasCallback =>
        CASE result[c] = "ok" -> events[c] = <<"start", "end_ok">>
          [] result[c] \in {"error", "not_written"} ->
                events[c] \in {<<"start", "end_failed">>, <<"start", "error">>}
          [] result[c] = "cancelled" ->
                /\ stopped[c]
                /\ events[c] \in {<<>>, <<"start">>, <<"start", "end_failed">>}
          [] OTHER -> events[c] \in {<<>>, <<"start">>}

\* A handler runs once, or once more for every retry its policy allows, and a tool
\* that is not idempotent never runs twice (retries of write_file would repeat
\* its side effect), however stops and failures fall.
AttemptsBounded ==
    \A c \in Calls :
        /\ runs[c] <= 1 + AtLeastZero(policy[c].max_retries)
        /\ ~policy[c].idempotent => runs[c] <= 1

\* Calls that write the same file do not mix their contents, and what a call that
\* holds the stripe has opened stays as it left it.
ContentNotMixed ==
    /\ \A f \in Files : content[f] # "mixed"
    /\ \A c \in Writers : pc[c] \in {"w_opened", "w_write"} => content[FileOf[c]] = "empty"

\* Every call returns, whoever holds the stripe of its file meanwhile.
CallsReturn == \A c \in Calls : <>[]Returned(c)
===============================================================================
