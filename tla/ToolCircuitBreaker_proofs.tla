---------------------- MODULE ToolCircuitBreaker_proofs ----------------------
(***************************************************************************)
(* Proofs about ToolCircuitBreaker, for every number of tools and callers  *)
(* and every threshold.                                                    *)
(***************************************************************************)
EXTENDS ToolCircuitBreaker, TLAPS

\* The variables keep their types.
THEOREM TypeCorrect == Spec => []TypeOK
<1>1. Init => TypeOK
  BY ThresholdAssumption DEF Init, TypeOK, States, Locations
<1>2. TypeOK /\ [Next]_vars => TypeOK'
  <2> SUFFICES ASSUME TypeOK, [Next]_vars PROVE TypeOK'
    OBVIOUS
  <2> USE ThresholdAssumption DEF TypeOK, States, Locations
  <2>1. ASSUME NEW c \in Callers, NEW t \in Tools, AllowClosed(c, t) PROVE TypeOK'
    BY <2>1 DEF AllowClosed, Enter, breaker
  <2>2. ASSUME NEW c \in Callers, NEW t \in Tools, AllowProbe(c, t) PROVE TypeOK'
    BY <2>2 DEF AllowProbe, Enter
  <2>3. ASSUME NEW c \in Callers, NEW e \in BOOLEAN, ToolReturns(c, e) PROVE TypeOK'
    BY <2>3 DEF ToolReturns, breaker
  <2>4. ASSUME NEW c \in Callers, ToolThrows(c) \/ SkipCancelled(c) PROVE TypeOK'
    <3>1. CASE ToolThrows(c)
      BY <3>1 DEF ToolThrows, Leave, breaker
    <3>2. CASE SkipCancelled(c)
      BY <3>2 DEF SkipCancelled, Leave, breaker
    <3>3. QED
      BY <2>4, <3>1, <3>2
  <2>5. ASSUME NEW c \in Callers, Judge(c) PROVE TypeOK'
    BY <2>5 DEF Judge, breaker
  <2>6. ASSUME NEW c \in Callers, RecordSuccess(c) PROVE TypeOK'
    BY <2>6 DEF RecordSuccess, CountAfterSuccess, Leave
  <2>7. ASSUME NEW c \in Callers, RecordFailure(c) PROVE TypeOK'
    <3> DEFINE t == tool[c]
               count == IF state[t] = "HalfOpen" THEN Threshold ELSE failures[t] + 1
    <3>1. t \in Tools /\ count \in Nat
      OBVIOUS
    <3> HIDE DEF count, t
    <3>2. /\ state' = state \/ state' = [state EXCEPT ![t] = "Open"]
          /\ cooled' = cooled \/ cooled' = [cooled EXCEPT ![t] = FALSE]
          /\ failures' = [failures EXCEPT ![t] = count]
      BY <2>7 DEF RecordFailure, CountAfterFailure, Trips, count, t
    <3>3. state' \in [Tools -> States] /\ cooled' \in [Tools -> BOOLEAN]
            /\ failures' \in [Tools -> Nat]
      BY <3>1, <3>2
    <3>4. QED
      BY <2>7, <3>3 DEF RecordFailure, CountAfterFailure, Trips, Leave
  <2>8. ASSUME NEW c \in Callers, DeadlinePasses(c) \/ WaiterCancels(c) \/ ClientCancel(c)
        PROVE  TypeOK'
    BY <2>8 DEF DeadlinePasses, WaiterCancels, ClientCancel, breaker
  <2>9. ASSUME NEW t \in Tools, CoolDown(t) PROVE TypeOK'
    BY <2>9 DEF CoolDown
  <2>10. CASE UNCHANGED vars
    BY <2>10 DEF vars
  <2>11. QED
    BY <2>1, <2>2, <2>3, <2>4, <2>5, <2>6, <2>7, <2>8, <2>9, <2>10 DEF Next, Call, Finish
<1>3. QED
  BY <1>1, <1>2, PTL DEF Spec

-------------------------------------------------------------------------------
\* The state of a circuit and its failure count agree, however calls that were
\* admitted in different states of the circuit overlap (allow_call,
\* record_success, record_failure).
THEOREM CircuitStateMatchesFailures == Spec => []ClosedBelowThreshold
<1>1. Init => ClosedBelowThreshold
  BY ThresholdAssumption DEF Init, ClosedBelowThreshold
<1>2. TypeOK /\ ClosedBelowThreshold /\ [Next]_vars => ClosedBelowThreshold'
  <2> SUFFICES ASSUME TypeOK, ClosedBelowThreshold, [Next]_vars
               PROVE  ClosedBelowThreshold'
    OBVIOUS
  <2> USE ThresholdAssumption DEF TypeOK, States, ClosedBelowThreshold
  <2>1. CASE UNCHANGED <<state, failures>>
    BY <2>1
  <2>2. ASSUME NEW c \in Callers, NEW t \in Tools, AllowProbe(c, t)
        PROVE  ClosedBelowThreshold'
    BY <2>2 DEF AllowProbe
  <2>3. ASSUME NEW c \in Callers, RecordSuccess(c) PROVE ClosedBelowThreshold'
    BY <2>3 DEF RecordSuccess, CountAfterSuccess
  <2>4. ASSUME NEW c \in Callers, RecordFailure(c) PROVE ClosedBelowThreshold'
    BY <2>4 DEF RecordFailure, CountAfterFailure, Trips
  <2>5. QED
    BY <2>1, <2>2, <2>3, <2>4
    DEF Next, Call, Finish, AllowClosed, ToolReturns, ToolThrows, SkipCancelled, Judge,
        DeadlinePasses, WaiterCancels, ClientCancel, CoolDown, breaker, vars
<1>3. QED
  BY <1>1, <1>2, TypeCorrect, PTL DEF Spec

-------------------------------------------------------------------------------
\* A half-open circuit always has a probe on its way to record_success or
\* record_failure, unless its probe left without recording (a cancelled call, or
\* an exception of call_tool): every other call is refused by allow_call, so only
\* such a probe leaves a circuit half-open for good.
THEOREM HalfOpenIsAlwaysProbed == Spec => []HalfOpenHasProbe
<1>1. Init => HalfOpenHasProbe
  BY DEF Init, HalfOpenHasProbe
<1>2. TypeOK /\ HalfOpenHasProbe /\ [Next]_vars => HalfOpenHasProbe'
  <2> SUFFICES ASSUME TypeOK, HalfOpenHasProbe, [Next]_vars, NEW t \in Tools,
                      state'[t] = "HalfOpen", t \notin abandoned'
               PROVE  \E c \in Callers : pc'[c] # "idle" /\ probe'[c] /\ tool'[c] = t
    BY DEF HalfOpenHasProbe
  <2> USE DEF TypeOK, States, Locations, HalfOpenHasProbe
  <2>1. ASSUME NEW c \in Callers, NEW u \in Tools, AllowClosed(c, u)
        PROVE  \E d \in Callers : pc'[d] # "idle" /\ probe'[d] /\ tool'[d] = t
    BY <2>1 DEF AllowClosed, Enter, breaker
  <2>2. ASSUME NEW c \in Callers, NEW u \in Tools, AllowProbe(c, u)
        PROVE  \E d \in Callers : pc'[d] # "idle" /\ probe'[d] /\ tool'[d] = t
    BY <2>2 DEF AllowProbe, Enter
  <2>3. ASSUME NEW c \in Callers, NEW e \in BOOLEAN, ToolReturns(c, e) \/ Judge(c)
        PROVE  \E d \in Callers : pc'[d] # "idle" /\ probe'[d] /\ tool'[d] = t
    BY <2>3 DEF ToolReturns, Judge, breaker
  <2>4. ASSUME NEW c \in Callers, ToolThrows(c) \/ SkipCancelled(c)
        PROVE  \E d \in Callers : pc'[d] # "idle" /\ probe'[d] /\ tool'[d] = t
    <3>1. state[t] = "HalfOpen" /\ t \notin abandoned
      BY <2>4 DEF ToolThrows, SkipCancelled, breaker
    <3>2. PICK d \in Callers : pc[d] # "idle" /\ probe[d] /\ tool[d] = t
      BY <3>1
    <3>3. d # c
      BY <2>4, <3>2 DEF ToolThrows, SkipCancelled
    <3>4. QED
      BY <2>4, <3>2, <3>3 DEF ToolThrows, SkipCancelled, Leave
  <2>5. ASSUME NEW c \in Callers, RecordSuccess(c) \/ RecordFailure(c)
        PROVE  \E d \in Callers : pc'[d] # "idle" /\ probe'[d] /\ tool'[d] = t
    <3>1. tool[c] # t /\ state[t] = "HalfOpen" /\ t \notin abandoned
      BY <2>5, ThresholdAssumption
      DEF RecordSuccess, CountAfterSuccess, RecordFailure, CountAfterFailure, Trips
    <3>2. PICK d \in Callers : pc[d] # "idle" /\ probe[d] /\ tool[d] = t
      BY <3>1
    <3>3. d # c
      BY <3>1, <3>2
    <3>4. pc'[d] = pc[d] /\ probe'[d] = probe[d] /\ tool'[d] = tool[d]
      BY <2>5, <3>3 DEF RecordSuccess, RecordFailure, Leave
    <3>5. QED
      BY <3>2, <3>4
  <2>6. ASSUME NEW c \in Callers, DeadlinePasses(c) \/ WaiterCancels(c) \/ ClientCancel(c)
        PROVE  \E d \in Callers : pc'[d] # "idle" /\ probe'[d] /\ tool'[d] = t
    BY <2>6 DEF DeadlinePasses, WaiterCancels, ClientCancel, breaker
  <2>7. ASSUME NEW u \in Tools, CoolDown(u)
        PROVE  \E d \in Callers : pc'[d] # "idle" /\ probe'[d] /\ tool'[d] = t
    BY <2>7 DEF CoolDown
  <2>8. CASE UNCHANGED vars
    BY <2>8 DEF vars
  <2>9. QED
    BY <2>1, <2>2, <2>3, <2>4, <2>5, <2>6, <2>7, <2>8 DEF Next, Call, Finish
<1>3. QED
  BY <1>1, <1>2, TypeCorrect, PTL DEF Spec
===============================================================================
