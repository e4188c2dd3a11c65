----------------------------- MODULE ToolCall_proofs -----------------------------
(***************************************************************************)
(* Proofs about ToolCall, for any number of calls, writers, files and lock *)
(* stripes and any execution policies.                                     *)
(***************************************************************************)
EXTENDS ToolCall, TLAPS

-------------------------------------------------------------------------------
(* Types *)

\* The stripe of a writer is one of the stripes.
LEMMA StripeOfWriter == ASSUME NEW c \in Writers PROVE LockOf[c] \in Stripes
BY DEF Stripes

\* The policy of a call is one a policy set may hold.
LEMMA PoliciesTyped ==
    ASSUME NEW c \in Calls, NEW q \in PoliciesOf[c]
    PROVE  q \in [idempotent : BOOLEAN, max_retries : Int]
BY CallsAssumption

\* A step keeps the types.
LEMMA TypesStep == TypeOK /\ [Next]_vars => TypeOK'
<1>1. SUFFICES ASSUME TypeOK, [Next]_vars PROVE TypeOK'
  OBVIOUS
<1>2. CASE UNCHANGED vars
  BY <1>1, <1>2 DEF TypeOK, Locations, LoopLocations, WriteLocations, Outcomes, Results, Events, Contents, vars, files
<1>3. ASSUME NEW c \in Calls, Step(c) \/ Stop(c) PROVE TypeOK'
  <2> USE DEF TypeOK, Locations, LoopLocations, WriteLocations, Outcomes, Results, Events, Contents, At, Goto
  <2>1. CASE Enter(c)
    BY <1>1, <2>1 DEF Enter, Return, files
  <2>2. CASE EnterUnknown(c)
    BY <1>1, <2>2 DEF EnterUnknown, Return, files
  <2>3. CASE Announce(c)
    BY <1>1, <2>3 DEF Announce, Publish, files
  <2>4. CASE BeginAttempt(c)
    <3>1. CASE stopped[c]
      BY <1>1, <2>4, <3>1 DEF BeginAttempt, Return, files
    <3>2. CASE ~stopped[c]
      <4>1. pc' \in [Calls -> Locations]
        BY <1>1, <2>4, <3>2 DEF BeginAttempt, Return, files
      <4>2. runs' \in [Calls -> Nat]
        BY <1>1, <2>4, <3>2 DEF BeginAttempt, Return, files
      <4> QED
        BY <1>1, <2>4, <3>2, <4>1, <4>2 DEF BeginAttempt, files
    <3> QED
      BY <3>1, <3>2
  <2>5. CASE HandlerReturns(c)
    BY <1>1, <2>5 DEF HandlerReturns, loop, files
  <2>6. CASE HandlerThrows(c)
    BY <1>1, <2>6 DEF HandlerThrows, Return, files
  <2>7. CASE Complete(c)
    BY <1>1, <2>7 DEF Complete, Return, Publish, EndReported, files
  <2>8. CASE Fail(c)
    BY <1>1, <2>8 DEF Fail, Return, Publish, files
  <2>9. CASE Retry(c)
    BY <1>1, <2>9 DEF Retry, loop, files
  <2>10. CASE BackoffElapses(c)
    BY <1>1, <2>10 DEF BackoffElapses, NextAttempt, files
  <2>11. CASE BackoffStops(c)
    BY <1>1, <2>11 DEF BackoffStops, Return, files
  <2>12. CASE c \in Writers /\ WriteCheck(c)
    BY <1>1, <2>12 DEF WriteCheck, WriteReturns, loop, files
  <2>13. CASE c \in Writers /\ WriteRejected(c)
    BY <1>1, <2>13 DEF WriteRejected, WriteReturns, loop, files
  <2>14. CASE c \in Writers /\ WriteLock(c)
    BY <1>1, <2>14 DEF WriteLock, StripeFree, loop
  <2>15. CASE c \in Writers /\ WriteRecheck(c)
    BY <1>1, <2>15 DEF WriteRecheck, WriteReturns, ReleaseStripe, loop
  <2>16. CASE c \in Writers /\ WriteOpen(c)
    BY <1>1, <2>16 DEF WriteOpen, loop
  <2>17. CASE c \in Writers /\ WriteOpenFails(c)
    BY <1>1, <2>17 DEF WriteOpenFails, WriteReturns, ReleaseStripe, loop
  <2>18. CASE c \in Writers /\ WriteOpened(c)
    BY <1>1, <2>18 DEF WriteOpened, WriteReturns, ReleaseStripe, loop
  <2>19. CASE c \in Writers /\ WriteContent(c)
    <3>1. content' \in [Files -> Calls \cup Contents]
      <4>1. PICK written \in {c, "short"} :
                content' = [content EXCEPT ![FileOf[c]] = IF content[FileOf[c]] = "empty" THEN written ELSE "mixed"]
        BY <2>19 DEF WriteContent
      <4> QED
        BY <1>1, <4>1
    <3>2. holder' \in [Stripes -> Calls \cup {Free}]
      BY <1>1, <2>19 DEF WriteContent, WriteReturns, ReleaseStripe, loop
    <3> QED
      BY <1>1, <2>19, <3>1, <3>2 DEF WriteContent, WriteReturns, ReleaseStripe, loop
  <2>20. CASE Stop(c)
    BY <1>1, <2>20 DEF Stop, loop, files
  <2> QED
    BY <1>3, <2>1, <2>2, <2>3, <2>4, <2>5, <2>6, <2>7, <2>8, <2>9, <2>10, <2>11, <2>12, <2>13, <2>14, <2>15, <2>16, <2>17, <2>18, <2>19, <2>20 DEF Step, Write
<1> QED
  BY <1>1, <1>2, <1>3 DEF Next

\* Every variable keeps its type: the retry loop of call_tool and the handler of
\* write_file stay within their positions, outcomes and events.
THEOREM TypesHold == Spec => []TypeOK
<1>1. Init => TypeOK
  <2>1. SUFFICES ASSUME Init PROVE TypeOK
    OBVIOUS
  <2>2. policy \in [Calls -> [idempotent : BOOLEAN, max_retries : Int]]
    BY <2>1, PoliciesTyped DEF Init
  <2> QED
    BY <2>1, <2>2 DEF Init, TypeOK, Locations, LoopLocations, WriteLocations, Outcomes, Results, Events, Contents
<1> QED
  BY <1>1, TypesStep, PTL DEF Spec

-------------------------------------------------------------------------------
(* Attempts *)

InHandler == {"handler", "returned", "retryable", "threw", "backoff"} \cup WriteLocations

\* Where a call is tells how often its handler was entered.
RunsCounted ==
    \A c \in Calls :
        /\ pc[c] \in {"entry", "announce"} => runs[c] = 0 /\ attempt[c] = 0
        /\ pc[c] = "check" => runs[c] = attempt[c]
        /\ pc[c] \in InHandler => runs[c] = attempt[c] + 1
        /\ runs[c] <= attempt[c] + 1
        /\ attempt[c] <= RetriesAllowed(c)
        /\ pc[c] = "backoff" => attempt[c] < RetriesAllowed(c)

\* The number of retries a policy allows is a natural number.
LEMMA RetriesAreNatural == ASSUME TypeOK, NEW c \in Calls PROVE RetriesAllowed(c) \in Nat
BY DEF TypeOK, RetriesAllowed, AtLeastZero

\* The loop counts an attempt for each entry of the handler and backs off only
\* with a retry left.
LEMMA RunsStep == TypeOK /\ RunsCounted /\ [Next]_vars => RunsCounted'
<1>1. SUFFICES ASSUME TypeOK /\ RunsCounted, [Next]_vars PROVE RunsCounted'
  OBVIOUS
<1>2. CASE UNCHANGED vars
  BY <1>1, <1>2 DEF TypeOK, RunsCounted, InHandler, WriteLocations, RetriesAllowed, vars, files
<1>3. ASSUME NEW c \in Calls, Step(c) \/ Stop(c) PROVE RunsCounted'
  <2> USE DEF TypeOK, RunsCounted, InHandler, WriteLocations, At, Goto
  <2>1. CASE Enter(c)
    BY <1>1, <2>1 DEF Enter, Return, files, RetriesAllowed
  <2>2. CASE EnterUnknown(c)
    BY <1>1, <2>2 DEF EnterUnknown, Return, files, RetriesAllowed
  <2>3. CASE Announce(c)
    BY <1>1, <2>3 DEF Announce, Publish, files, RetriesAllowed
  <2>4. CASE BeginAttempt(c)
    BY <1>1, <2>4 DEF BeginAttempt, Return, files, RetriesAllowed
  <2>5. CASE HandlerReturns(c)
    BY <1>1, <2>5 DEF HandlerReturns, loop, files, RetriesAllowed
  <2>6. CASE HandlerThrows(c)
    BY <1>1, <2>6 DEF HandlerThrows, Return, files, RetriesAllowed
  <2>7. CASE Complete(c)
    BY <1>1, <2>7 DEF Complete, Return, Publish, EndReported, files, RetriesAllowed
  <2>8. CASE Fail(c)
    BY <1>1, <2>8 DEF Fail, Return, Publish, files, RetriesAllowed
  <2>9. CASE Retry(c)
    BY <1>1, <2>9 DEF Retry, loop, files, RetriesAllowed
  <2>10. CASE BackoffElapses(c)
    <3>1. RetriesAllowed(c) \in Nat /\ RetriesAllowed(c)' = RetriesAllowed(c)
      BY <1>1, <2>10, RetriesAreNatural DEF BackoffElapses, NextAttempt, files, RetriesAllowed
    <3>2. attempt[c] + 1 <= RetriesAllowed(c) /\ runs[c] = attempt[c] + 1
      BY <1>1, <2>10, <3>1 DEF BackoffElapses, NextAttempt, files
    <3>3. \A d \in Calls \ {c} : pc'[d] = pc[d] /\ attempt'[d] = attempt[d]
      BY <1>1, <2>10 DEF BackoffElapses, NextAttempt, files
    <3>4. pc'[c] = "check" /\ attempt'[c] = attempt[c] + 1 /\ runs' = runs
      BY <1>1, <2>10 DEF BackoffElapses, NextAttempt, files
    <3>5. \A d \in Calls : RetriesAllowed(d)' = RetriesAllowed(d)
      BY <2>10 DEF BackoffElapses, NextAttempt, files, RetriesAllowed
    <3> QED
      BY <1>1, <3>1, <3>2, <3>3, <3>4, <3>5
  <2>11. CASE BackoffStops(c)
    BY <1>1, <2>11 DEF BackoffStops, Return, files, RetriesAllowed
  <2>12. CASE c \in Writers /\ WriteCheck(c)
    BY <1>1, <2>12 DEF WriteCheck, WriteReturns, loop, files, RetriesAllowed
  <2>13. CASE c \in Writers /\ WriteRejected(c)
    BY <1>1, <2>13 DEF WriteRejected, WriteReturns, loop, files, RetriesAllowed
  <2>14. CASE c \in Writers /\ WriteLock(c)
    BY <1>1, <2>14 DEF WriteLock, StripeFree, loop, RetriesAllowed
  <2>15. CASE c \in Writers /\ WriteRecheck(c)
    BY <1>1, <2>15 DEF WriteRecheck, WriteReturns, ReleaseStripe, loop, RetriesAllowed
  <2>16. CASE c \in Writers /\ WriteOpen(c)
    BY <1>1, <2>16 DEF WriteOpen, loop, RetriesAllowed
  <2>17. CASE c \in Writers /\ WriteOpenFails(c)
    BY <1>1, <2>17 DEF WriteOpenFails, WriteReturns, ReleaseStripe, loop, RetriesAllowed
  <2>18. CASE c \in Writers /\ WriteOpened(c)
    BY <1>1, <2>18 DEF WriteOpened, WriteReturns, ReleaseStripe, loop, RetriesAllowed
  <2>19. CASE c \in Writers /\ WriteContent(c)
    BY <1>1, <2>19 DEF WriteContent, WriteReturns, ReleaseStripe, loop, RetriesAllowed
  <2>20. CASE Stop(c)
    BY <1>1, <2>20 DEF Stop, loop, files, RetriesAllowed
  <2> QED
    BY <1>3, <2>1, <2>2, <2>3, <2>4, <2>5, <2>6, <2>7, <2>8, <2>9, <2>10, <2>11, <2>12, <2>13, <2>14, <2>15, <2>16, <2>17, <2>18, <2>19, <2>20 DEF Step, Write
<1> QED
  BY <1>1, <1>2, <1>3 DEF Next

\* A handler runs at most once more than its policy allows retries, and a tool that
\* is not idempotent runs at most once, whenever a call is stopped or fails.
THEOREM AttemptsStayBounded == Spec => []AttemptsBounded
<1>1. Init /\ TypeOK => RunsCounted
  BY DEF Init, TypeOK, RunsCounted, InHandler, WriteLocations, RetriesAllowed, AtLeastZero
<1>2. TypeOK /\ RunsCounted => AttemptsBounded
  BY DEF TypeOK, RunsCounted, AttemptsBounded, RetriesAllowed, AtLeastZero
<1> QED
  BY <1>1, <1>2, RunsStep, TypesHold, PTL DEF Spec

-------------------------------------------------------------------------------
(* Files *)

Inside == {"w_recheck", "w_open", "w_opened", "w_write"}

\* A writer between locking and returning holds its stripe.
StripesHeld == \A c \in Writers : pc[c] \in Inside => holder[LockOf[c]] = c
FilesInv == StripesHeld /\ ContentNotMixed

\* A call that moves outside of the guarded region leaves the invariant alone.
LEMMA OutsideStep ==
    ASSUME TypeOK, FilesInv, NEW c \in Calls, NEW l \in Locations \ Inside, Goto(c, l), UNCHANGED files
    PROVE  FilesInv'
<1>1. \A d \in Calls : pc'[d] \in Inside => pc'[d] = pc[d]
  BY DEF TypeOK, Goto
<1>2. holder' = holder /\ content' = content
  BY DEF files
<1> QED
  BY <1>1, <1>2, CallsAssumption DEF FilesInv, StripesHeld, ContentNotMixed, Inside

\* Two writers in the guarded region have different stripes, hence different files.
LEMMA InsideApart ==
    ASSUME FilesInv, NEW c \in Writers, pc[c] \in Inside, NEW d \in Writers, pc[d] \in Inside, d # c
    PROVE  LockOf[d] # LockOf[c] /\ FileOf[d] # FileOf[c]
BY OnePathPerFile DEF FilesInv, StripesHeld

\* A writer that leaves the guarded region gives its own stripe back.
LEMMA LeaveStep ==
    ASSUME TypeOK, FilesInv, NEW c \in Writers, pc[c] \in Inside,
           NEW l \in Locations \ Inside, Goto(c, l), ReleaseStripe(c)
    PROVE  StripesHeld'
<1>1. SUFFICES ASSUME NEW d \in Writers, pc'[d] \in Inside PROVE holder'[LockOf[d]] = d
  BY DEF StripesHeld
<1>2. d # c /\ pc[d] = pc'[d]
  BY <1>1, CallsAssumption DEF TypeOK, Goto
<1>3. LockOf[d] # LockOf[c] /\ holder[LockOf[d]] = d
  BY <1>1, <1>2, InsideApart DEF FilesInv, StripesHeld
<1> QED
  BY <1>3, StripeOfWriter DEF TypeOK, ReleaseStripe

\* A writer that goes on in the guarded region keeps its stripe.
LEMMA StayStep ==
    ASSUME TypeOK, FilesInv, NEW c \in Writers, pc[c] \in Inside,
           NEW l \in Inside, Goto(c, l), UNCHANGED holder
    PROVE  StripesHeld'
BY CallsAssumption DEF TypeOK, FilesInv, StripesHeld, Goto

\* What is in the files that a writer inside has not opened does not change.
LEMMA ContentStep ==
    ASSUME TypeOK, FilesInv, NEW c \in Writers, NEW l \in Locations, Goto(c, l), UNCHANGED content,
           l \in {"w_opened", "w_write"} => pc[c] \in {"w_opened", "w_write"}
    PROVE  ContentNotMixed'
BY CallsAssumption DEF TypeOK, FilesInv, ContentNotMixed, Goto

\* While a writer has its file open, nobody else has: they share a stripe.
LEMMA FilesStep == TypeOK /\ FilesInv /\ [Next]_vars => FilesInv'
<1>1. SUFFICES ASSUME TypeOK, FilesInv, [Next]_vars PROVE FilesInv'
  OBVIOUS
<1>2. CASE UNCHANGED vars
  BY <1>1, <1>2 DEF FilesInv, StripesHeld, ContentNotMixed, vars, files
<1>3. ASSUME NEW c \in Calls, Step(c) PROVE FilesInv'
  <2>1. ASSUME UNCHANGED files, NEW l \in Locations \ Inside, Goto(c, l) PROVE FilesInv'
    BY <1>1, <2>1, OutsideStep
  <2>2. CASE \/ Enter(c) \/ EnterUnknown(c) \/ Announce(c) \/ HandlerReturns(c) \/ HandlerThrows(c)
    BY <2>1, <2>2
       DEF Enter, EnterUnknown, Announce, HandlerReturns, HandlerThrows, Return, Locations, LoopLocations, Inside
  <2>3. CASE \/ Complete(c) \/ Fail(c) \/ Retry(c) \/ BackoffElapses(c) \/ BackoffStops(c)
    BY <2>1, <2>3
       DEF Complete, Fail, Retry, BackoffElapses, BackoffStops, Return, Locations, LoopLocations, Inside
  <2>4. CASE BeginAttempt(c)
    BY <2>1, <2>4 DEF BeginAttempt, Return, Locations, LoopLocations, WriteLocations, Inside
  <2>5. CASE WriteCheck(c) \/ WriteRejected(c)
    BY <2>1, <2>5 DEF WriteCheck, WriteRejected, WriteReturns, Locations, LoopLocations, WriteLocations, Inside
  <2>6. CASE c \in Writers /\ WriteLock(c)
    <3>1. StripesHeld'
      <4>1. SUFFICES ASSUME NEW d \in Writers, pc'[d] \in Inside PROVE holder'[LockOf[d]] = d
        BY DEF StripesHeld
      <4>2. CASE d = c
        BY <1>1, <2>6, <4>2, StripeOfWriter DEF TypeOK, WriteLock
      <4>3. CASE d # c
        <5>1. pc[d] \in Inside /\ holder[LockOf[d]] = d
          BY <1>1, <2>6, <4>1, <4>3, CallsAssumption DEF TypeOK, FilesInv, StripesHeld, WriteLock, Goto
        <5>2. LockOf[d] # LockOf[c]
          BY <2>6, <5>1, CallsAssumption DEF WriteLock, StripeFree
        <5> QED
          BY <1>1, <2>6, <5>1, <5>2, StripeOfWriter DEF TypeOK, WriteLock
      <4> QED
        BY <4>2, <4>3
    <3>2. ContentNotMixed'
      BY <1>1, <2>6, ContentStep DEF WriteLock, Locations, WriteLocations
    <3> QED
      BY <3>1, <3>2 DEF FilesInv
  <2>7. CASE c \in Writers /\ (WriteRecheck(c) \/ WriteOpenFails(c) \/ WriteOpened(c))
    <3>1. pc[c] \in Inside /\ UNCHANGED content
      BY <2>7 DEF WriteRecheck, WriteOpenFails, WriteOpened, At, Inside
    <3>2. CASE Goto(c, "returned") /\ ReleaseStripe(c)
      <4>1. "returned" \in Locations \ Inside /\ "returned" \notin {"w_opened", "w_write"}
        BY DEF Locations, LoopLocations, Inside
      <4> QED
        BY <1>1, <2>7, <3>1, <3>2, <4>1, LeaveStep, ContentStep DEF FilesInv
    <3>3. CASE Goto(c, "w_open") /\ UNCHANGED holder
      BY <1>1, <2>7, <3>1, <3>3, StayStep, ContentStep DEF FilesInv, Inside, Locations, WriteLocations
    <3>4. CASE At(c, "w_opened") /\ Goto(c, "w_write") /\ UNCHANGED holder
      BY <1>1, <2>7, <3>1, <3>4, StayStep, ContentStep DEF FilesInv, Inside, Locations, WriteLocations, At
    <3>5. CASE WriteRecheck(c)
      BY <3>2, <3>3, <3>5 DEF WriteRecheck, WriteReturns
    <3>6. CASE WriteOpenFails(c)
      BY <3>2, <3>6 DEF WriteOpenFails, WriteReturns
    <3>7. CASE WriteOpened(c)
      BY <3>2, <3>4, <3>7 DEF WriteOpened, WriteReturns
    <3> QED
      BY <2>7, <3>5, <3>6, <3>7
  <2>8. CASE c \in Writers /\ (WriteOpen(c) \/ WriteContent(c))
    <3>1. pc[c] \in Inside /\ FileOf[c] \in Files
      BY <2>8, CallsAssumption DEF WriteOpen, WriteContent, At, Inside
    <3>2. StripesHeld'
      <4>1. CASE WriteOpen(c)
        BY <1>1, <2>8, <3>1, <4>1, StayStep DEF WriteOpen, Inside
      <4>2. CASE WriteContent(c)
        BY <1>1, <2>8, <3>1, <4>2, LeaveStep DEF WriteContent, WriteReturns, Inside, Locations, LoopLocations
      <4> QED
        BY <2>8, <4>1, <4>2
    <3>3. content'[FileOf[c]] # "mixed" /\ (pc'[c] \in {"w_opened", "w_write"} => content'[FileOf[c]] = "empty")
      <4>1. CASE WriteOpen(c)
        BY <1>1, <3>1, <4>1 DEF TypeOK, WriteOpen
      <4>2. CASE WriteContent(c)
        <5>1. content[FileOf[c]] = "empty"
          BY <1>1, <2>8, <4>2 DEF FilesInv, ContentNotMixed, WriteContent, At
        <5>2. pc'[c] = "returned"
          BY <1>1, <4>2 DEF TypeOK, WriteContent, WriteReturns, Goto
        <5>3. PICK written \in {c, "short"} : content'[FileOf[c]] = written
          BY <1>1, <3>1, <4>2, <5>1 DEF TypeOK, WriteContent
        <5> QED
          BY <5>2, <5>3, CallsAssumption DEF Contents
      <4> QED
        BY <2>8, <4>1, <4>2
    <3>4. \A f \in Files : f # FileOf[c] => content'[f] = content[f]
      BY <1>1, <2>8 DEF TypeOK, WriteOpen, WriteContent
    <3>5. ASSUME NEW d \in Writers, d # c, pc'[d] \in {"w_opened", "w_write"}
          PROVE  content'[FileOf[d]] = "empty"
      <4>1. pc[d] = pc'[d]
        BY <1>1, <2>8, <3>5, CallsAssumption DEF TypeOK, WriteOpen, WriteContent, WriteReturns, Goto
      <4>2. FileOf[d] # FileOf[c] /\ FileOf[d] \in Files
        BY <1>1, <2>8, <3>1, <3>5, <4>1, InsideApart, CallsAssumption DEF Inside
      <4> QED
        BY <1>1, <3>4, <3>5, <4>1, <4>2 DEF FilesInv, ContentNotMixed
    <3>6. ContentNotMixed'
      BY <1>1, <3>3, <3>4, <3>5 DEF FilesInv, ContentNotMixed
    <3> QED
      BY <3>2, <3>6 DEF FilesInv
  <2> QED
    BY <1>3, <2>2, <2>3, <2>4, <2>5, <2>6, <2>7, <2>8 DEF Step, Write
<1>4. ASSUME NEW c \in Calls, Stop(c) PROVE FilesInv'
  BY <1>1, <1>4 DEF Stop, files, FilesInv, StripesHeld, ContentNotMixed
<1> QED
  BY <1>1, <1>2, <1>3, <1>4 DEF Next

\* The contents of two calls of write_file are never mixed, for any files and any
\* hash of paths to stripes.
THEOREM ContentsStayApart == Spec => []ContentNotMixed
<1>1. Init => FilesInv
  BY CallsAssumption DEF Init, FilesInv, StripesHeld, Inside, ContentNotMixed
<1>2. FilesInv => ContentNotMixed
  BY DEF FilesInv
<1> QED
  BY <1>1, <1>2, FilesStep, TypesHold, PTL DEF Spec

-------------------------------------------------------------------------------
(* Events *)

\* What has been published for a call is told by where it is, and at the end by
\* its result.
Told(c) ==
    /\ pc[c] \in {"entry", "announce"} => events[c] = <<>>
    /\ pc[c] \in InHandler \cup {"check"} => events[c] = <<"start">>
    /\ pc[c] = "returned" => outcome[c] \in {"ok", "error", "not_written"}
    /\ pc[c] = "done" =>
          CASE result[c] = "ok" -> events[c] = <<"start", "end_ok">>
            [] result[c] \in {"error", "not_written"} ->
                  events[c] \in {<<"start", "end_failed">>, <<"start", "error">>}
            [] result[c] = "cancelled" ->
                  /\ stopped[c]
                  /\ events[c] \in {<<>>, <<"start">>, <<"start", "end_failed">>}
            [] OTHER -> events[c] \in {<<>>, <<"start">>}
EventsTold == HasCallback => \A c \in Calls : Told(c)

\* A step of a call changes nothing that is said of another one.
LEMMA OthersAsBefore ==
    ASSUME TypeOK, NEW c \in Calls, Step(c) \/ Stop(c), NEW d \in Calls, d # c
    PROVE  /\ pc'[d] = pc[d] /\ events'[d] = events[d] /\ outcome'[d] = outcome[d]
           /\ result'[d] = result[d] /\ stopped'[d] = stopped[d]
<1> USE DEF TypeOK, Goto
<1>1. CASE \/ Enter(c) \/ EnterUnknown(c) \/ Announce(c) \/ BeginAttempt(c)
  BY <1>1 DEF Enter, EnterUnknown, Announce, BeginAttempt, Return, Publish
<1>2. CASE \/ HandlerReturns(c) \/ HandlerThrows(c) \/ Complete(c) \/ Fail(c)
  BY <1>2 DEF HandlerReturns, HandlerThrows, Complete, Fail, Return, Publish, loop
<1>3. CASE \/ Retry(c) \/ BackoffElapses(c) \/ BackoffStops(c) \/ Stop(c)
  BY <1>3 DEF Retry, BackoffElapses, BackoffStops, Stop, Return, loop
<1>4. CASE \/ WriteCheck(c) \/ WriteRejected(c) \/ WriteLock(c) \/ WriteRecheck(c)
  BY <1>4 DEF WriteCheck, WriteRejected, WriteLock, WriteRecheck, WriteReturns, loop
<1>5. CASE \/ WriteOpen(c) \/ WriteOpenFails(c) \/ WriteOpened(c) \/ WriteContent(c)
  BY <1>5 DEF WriteOpen, WriteOpenFails, WriteOpened, WriteContent, WriteReturns, loop
<1> QED
  BY <1>1, <1>2, <1>3, <1>4, <1>5 DEF Step, Write

\* What a published event makes of the events before it.
LEMMA PublishedAfter ==
    ASSUME TypeOK, HasCallback, NEW c \in Calls, NEW e \in Events, Publish(c, e)
    PROVE  /\ events[c] = <<>> => events'[c] = <<e>>
           /\ events[c] = <<"start">> => events'[c] = <<"start", e>>
<1>1. events'[c] = Append(events[c], e)
  BY DEF TypeOK, Publish
<1>2. Append(<<>>, e) = <<e>>
  OBVIOUS
<1>3. Append(<<"start">>, e) = <<"start", e>>
  <2> DEFINE longer == Append(<<"start">>, e)
  <2>1. longer \in Seq(Events) /\ Len(longer) = 2 /\ longer[1] = "start" /\ longer[2] = e
    BY DEF Events
  <2>2. <<"start", e>> \in Seq(Events) /\ Len(<<"start", e>>) = 2
    BY DEF Events
  <2> HIDE DEF longer
  <2>3. longer = <<"start", e>>
    BY <2>1, <2>2
  <2> QED
    BY <2>3 DEF longer
<1> QED
  BY <1>1, <1>2, <1>3

\* Each position of the loop is left with the event that belongs to it.
LEMMA EventsStep == TypeOK /\ EventsTold /\ [Next]_vars => EventsTold'
<1>1. SUFFICES ASSUME TypeOK, EventsTold, [Next]_vars, HasCallback, NEW d \in Calls PROVE Told(d)'
  BY DEF EventsTold
<1>2. CASE UNCHANGED vars
  BY <1>1, <1>2 DEF EventsTold, Told, vars
<1>3. ASSUME NEW c \in Calls, Step(c) \/ Stop(c), d # c PROVE Told(d)'
  BY <1>1, <1>3, OthersAsBefore DEF EventsTold, Told
<1>4. ASSUME Step(d) \/ Stop(d) PROVE Told(d)'
  <2> USE DEF TypeOK, Told, InHandler, WriteLocations, At, Goto
  <2>1. Told(d)
    BY <1>1 DEF EventsTold
  <2>2. CASE Enter(d) \/ EnterUnknown(d)
    BY <1>1, <2>1, <2>2 DEF Enter, EnterUnknown, Return
  <2>3. CASE Announce(d)
    <3>1. "start" \in Events
      BY DEF Events
    <3>2. events'[d] = <<"start">>
      BY <1>1, <2>1, <2>3, <3>1, PublishedAfter DEF Announce
    <3> QED
      BY <1>1, <2>3, <3>2 DEF Announce
  <2>4. CASE BeginAttempt(d)
    <3>1. CASE stopped[d]
      BY <1>1, <2>1, <2>4, <3>1 DEF BeginAttempt, Return
    <3>2. CASE ~stopped[d]
      BY <1>1, <2>1, <2>4, <3>2 DEF BeginAttempt
    <3> QED
      BY <3>1, <3>2
  <2>5. CASE HandlerReturns(d)
    BY <1>1, <2>1, <2>5 DEF HandlerReturns, loop
  <2>6. CASE HandlerThrows(d)
    <3>1. events'[d] = <<"start">>
      BY <2>1, <2>6 DEF HandlerThrows
    <3>2. CASE Return(d, "thrown")
      BY <1>1, <3>1, <3>2 DEF Return
    <3>3. CASE Goto(d, "retryable") \/ Goto(d, "threw")
      BY <1>1, <3>1, <3>3
    <3> QED
      BY <2>6, <3>2, <3>3 DEF HandlerThrows
  <2>7. CASE Complete(d)
    <3> DEFINE final == IF stopped[d] THEN "cancelled" ELSE outcome[d]
    <3>1. events[d] = <<"start">> /\ outcome[d] \in {"ok", "error", "not_written"}
      BY <2>1, <2>7 DEF Complete
    <3>2. Return(d, final) /\ Publish(d, EndReported(d, final)) /\ UNCHANGED stopped
      BY <2>7 DEF Complete
    <3>3. EndReported(d, final) \in Events
      BY DEF EndReported, Events
    <3>4. events'[d] = <<"start", EndReported(d, final)>>
      BY <1>1, <3>1, <3>2, <3>3, PublishedAfter
    <3>5. pc'[d] = "done" /\ result'[d] = final
      BY <1>1, <3>2 DEF Return
    <3>6. CASE stopped[d]
      BY <3>2, <3>4, <3>5, <3>6 DEF EndReported
    <3>7. CASE ~stopped[d]
      BY <3>1, <3>4, <3>5, <3>7 DEF EndReported
    <3> QED
      BY <3>6, <3>7
  <2>8. CASE Fail(d)
    <3>1. events[d] = <<"start">> /\ "error" \in Events
      BY <2>1, <2>8 DEF Fail, Events
    <3>2. events'[d] = <<"start", "error">>
      BY <1>1, <2>8, <3>1, PublishedAfter DEF Fail
    <3> QED
      BY <1>1, <2>8, <3>2 DEF Fail, Return
  <2>9. CASE Retry(d) \/ BackoffElapses(d) \/ BackoffStops(d)
    BY <1>1, <2>1, <2>9 DEF Retry, BackoffElapses, BackoffStops, Return, loop
  <2>10. CASE d \in Writers /\ (WriteCheck(d) \/ WriteRejected(d) \/ WriteLock(d) \/ WriteRecheck(d))
    BY <1>1, <2>1, <2>10 DEF WriteCheck, WriteRejected, WriteLock, WriteRecheck, WriteReturns, loop
  <2>11. CASE d \in Writers /\ (WriteOpen(d) \/ WriteOpenFails(d) \/ WriteOpened(d) \/ WriteContent(d))
    BY <1>1, <2>1, <2>11 DEF WriteOpen, WriteOpenFails, WriteOpened, WriteContent, WriteReturns, loop
  <2>12. CASE Stop(d)
    BY <1>1, <2>1, <2>12 DEF Stop, loop
  <2> QED
    BY <1>4, <2>2, <2>3, <2>4, <2>5, <2>6, <2>7, <2>8, <2>9, <2>10, <2>11, <2>12 DEF Step, Write
<1> QED
  BY <1>1, <1>2, <1>3, <1>4 DEF Next

\* The events of a call and its result tell the same story for any handlers,
\* stops and retries.
THEOREM EventsAgree == Spec => []EventsMatchResult
<1>1. Init => EventsTold
  BY DEF Init, EventsTold, Told, InHandler, WriteLocations
<1>2. EventsTold => EventsMatchResult
  BY DEF EventsTold, Told, EventsMatchResult, Returned
<1> QED
  BY <1>1, <1>2, EventsStep, TypesHold, PTL DEF Spec
===============================================================================
