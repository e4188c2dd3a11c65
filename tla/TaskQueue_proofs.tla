--------------------------- MODULE TaskQueue_proofs ---------------------------
(***************************************************************************)
(* The safety of the condition-variable queue for any number of items,     *)
(* workers and closers and any capacity.                                   *)
(***************************************************************************)
EXTENDS TaskQueue, FiniteSetTheorems, SequenceTheorems, TLAPS

(* The variables keep their types; every other proof starts from it.       *)
THEOREM TypeCorrect == Spec => []TypeOK
<1>1. Init => TypeOK
  <2> SUFFICES ASSUME Init
               PROVE  TypeOK
    OBVIOUS
  <2>1. /\ producer \in [Items -> ProducerStates]
        /\ consumer \in [Consumers -> ConsumerStates]
        /\ closer \in [Closers -> CloserStates]
        /\ held \in [Consumers -> Items \cup {NoItem}]
    BY DEF Init, ProducerStates, ConsumerStates, CloserStates
  <2>2. queue \in Seq(Items) /\ closed \in BOOLEAN
    BY EmptySeq DEF Init
  <2>3. QED
    BY <2>1, <2>2 DEF TypeOK
<1>2. TypeOK /\ [Next]_vars => TypeOK'
  <2> SUFFICES ASSUME TypeOK, [Next]_vars
               PROVE  TypeOK'
    OBVIOUS
  <2> USE DEF TypeOK, ProducerStates, ConsumerStates, CloserStates
  <2>1. ASSUME NEW i \in Items, PushAccepted(i)
        PROVE  TypeOK'
    BY <2>1 DEF PushAccepted
  <2>2. ASSUME NEW i \in Items, PushRefused(i)
        PROVE  TypeOK'
    BY <2>2 DEF PushRefused
  <2>3. ASSUME NEW i \in Items, NotifyOne(i)
        PROVE  TypeOK'
    BY <2>3 DEF NotifyOne, ConsumersIn
  <2>4. ASSUME NEW c \in Consumers, Sleep(c)
        PROVE  TypeOK'
    BY <2>4 DEF Sleep
  <2>5. ASSUME NEW c \in Consumers, Pop(c)
        PROVE  TypeOK'
    BY <2>5 DEF Pop
  <2>6. ASSUME NEW c \in Consumers, PopNothing(c)
        PROVE  TypeOK'
    BY <2>6 DEF PopNothing
  <2>7. ASSUME NEW c \in Consumers, Loop(c)
        PROVE  TypeOK'
    BY <2>7 DEF Loop
  <2>8. ASSUME NEW c \in Consumers, SpuriousWakeup(c)
        PROVE  TypeOK'
    BY <2>8 DEF SpuriousWakeup
  <2>9. ASSUME NEW k \in Closers, Close(k)
        PROVE  TypeOK'
    BY <2>9 DEF Close
  <2>10. ASSUME NEW k \in Closers, NotifyAll(k)
         PROVE  TypeOK'
    BY <2>10 DEF NotifyAll
  <2>11. CASE UNCHANGED vars
    BY <2>11 DEF vars
  <2>12. QED
    BY <2>1, <2>2, <2>3, <2>4, <2>5, <2>6, <2>7, <2>8, <2>9, <2>10, <2>11 DEF Next
<1>3. QED
  BY <1>1, <1>2, PTL DEF Spec

-------------------------------------------------------------------------------
(* try_push tests the size and pushes in one critical section, so the      *)
(* capacity is never exceeded however many producers race for the last     *)
(* free place.                                                             *)
THEOREM CapacityIsRespected == Spec => []WithinCapacity
<1>1. Init => WithinCapacity
  BY CapacityAssumption DEF Init, WithinCapacity
<1>2. TypeOK /\ WithinCapacity /\ [Next]_vars => WithinCapacity'
  <2> SUFFICES ASSUME TypeOK, WithinCapacity, [Next]_vars
               PROVE  WithinCapacity'
    OBVIOUS
  <2> USE CapacityAssumption DEF TypeOK, WithinCapacity
  <2>1. ASSUME NEW i \in Items, PushAccepted(i)
        PROVE  WithinCapacity'
    BY <2>1 DEF PushAccepted
  <2>2. ASSUME NEW c \in Consumers, Pop(c)
        PROVE  WithinCapacity'
    BY <2>2 DEF Pop
  <2>3. CASE UNCHANGED queue
    BY <2>3
  <2>4. QED
    BY <2>1, <2>2, <2>3
    DEF Next, vars, PushRefused, NotifyOne, Sleep, PopNothing, Loop,
        SpuriousWakeup, Close, NotifyAll
<1>3. QED
  BY <1>1, <1>2, TypeCorrect, PTL DEF Spec

-------------------------------------------------------------------------------
(* A worker that has left worker_loop saw the queue closed and empty, and  *)
(* a closed queue accepts nothing, so no accepted envelope is abandoned.   *)
THEOREM ShutdownDrains == Spec => []StoppedMeansDrained
<1>1. Init => StoppedMeansDrained
  BY DEF Init, StoppedMeansDrained, ConsumersIn
<1>2. TypeOK /\ StoppedMeansDrained /\ [Next]_vars => StoppedMeansDrained'
  <2> SUFFICES ASSUME TypeOK, StoppedMeansDrained, [Next]_vars
               PROVE  StoppedMeansDrained'
    OBVIOUS
  <2> USE DEF TypeOK, StoppedMeansDrained, ConsumersIn
  <2>1. ASSUME NEW i \in Items, PushAccepted(i) \/ PushRefused(i)
        PROVE  StoppedMeansDrained'
    BY <2>1 DEF PushAccepted, PushRefused
  <2>2. ASSUME NEW i \in Items, NotifyOne(i)
        PROVE  StoppedMeansDrained'
    BY <2>2 DEF NotifyOne
  <2>3. ASSUME NEW c \in Consumers, Sleep(c) \/ Loop(c) \/ SpuriousWakeup(c)
        PROVE  StoppedMeansDrained'
    BY <2>3 DEF Sleep, Loop, SpuriousWakeup
  <2>4. ASSUME NEW c \in Consumers, Pop(c)
        PROVE  StoppedMeansDrained'
    BY <2>4 DEF Pop
  <2>5. ASSUME NEW c \in Consumers, PopNothing(c)
        PROVE  StoppedMeansDrained'
    BY <2>5 DEF PopNothing
  <2>6. ASSUME NEW k \in Closers, Close(k)
        PROVE  StoppedMeansDrained'
    BY <2>6 DEF Close
  <2>7. ASSUME NEW k \in Closers, NotifyAll(k)
        PROVE  StoppedMeansDrained'
    BY <2>7 DEF NotifyAll
  <2>8. CASE UNCHANGED vars
    BY <2>8 DEF vars
  <2>9. QED
    BY <2>1, <2>2, <2>3, <2>4, <2>5, <2>6, <2>7, <2>8 DEF Next
<1>3. QED
  BY <1>1, <1>2, TypeCorrect, PTL DEF Spec

-------------------------------------------------------------------------------
(* Only the caller that set closed_ calls notify_all, and it does so after *)
(* the flag is visible: no worker can fall asleep behind it.               *)
THEOREM CloseWakesEverySleeper == Spec => []NoSleeperLeftBehind
<1>1. Init => NoSleeperLeftBehind
  BY DEF Init, NoSleeperLeftBehind
<1>2. TypeOK /\ NoSleeperLeftBehind /\ [Next]_vars => NoSleeperLeftBehind'
  <2> SUFFICES ASSUME TypeOK, NoSleeperLeftBehind, [Next]_vars
               PROVE  NoSleeperLeftBehind'
    OBVIOUS
  <2> USE DEF TypeOK, NoSleeperLeftBehind, ConsumersIn, ClosersIn
  <2>1. ASSUME NEW i \in Items, PushAccepted(i) \/ PushRefused(i)
        PROVE  NoSleeperLeftBehind'
    BY <2>1 DEF PushAccepted, PushRefused
  <2>2. ASSUME NEW i \in Items, NotifyOne(i)
        PROVE  NoSleeperLeftBehind'
    BY <2>2 DEF NotifyOne
  <2>3. ASSUME NEW c \in Consumers, Sleep(c)
        PROVE  NoSleeperLeftBehind'
    BY <2>3 DEF Sleep
  <2>4. ASSUME NEW c \in Consumers,
               Pop(c) \/ PopNothing(c) \/ Loop(c) \/ SpuriousWakeup(c)
        PROVE  NoSleeperLeftBehind'
    BY <2>4 DEF Pop, PopNothing, Loop, SpuriousWakeup
  <2>5. ASSUME NEW k \in Closers, Close(k)
        PROVE  NoSleeperLeftBehind'
    BY <2>5 DEF Close, CloserStates
  <2>6. ASSUME NEW k \in Closers, NotifyAll(k)
        PROVE  NoSleeperLeftBehind'
    BY <2>6 DEF NotifyAll
  <2>7. CASE UNCHANGED vars
    BY <2>7 DEF vars
  <2>8. QED
    BY <2>1, <2>2, <2>3, <2>4, <2>5, <2>6, <2>7 DEF Next
<1>3. QED
  BY <1>1, <1>2, TypeCorrect, PTL DEF Spec

-------------------------------------------------------------------------------
(* Counting facts the wakeup argument needs: changing the state of one     *)
(* thread adds it to one counted set and removes it from another.          *)
LEMMA FiniteThreadSets ==
  /\ \A s : IsFiniteSet(ProducersIn(s)) /\ Cardinality(ProducersIn(s)) \in Nat
  /\ \A s : IsFiniteSet(ConsumersIn(s)) /\ Cardinality(ConsumersIn(s)) \in Nat
<1>1. ASSUME NEW s
      PROVE  IsFiniteSet(ProducersIn(s)) /\ IsFiniteSet(ConsumersIn(s))
  <2>1. ProducersIn(s) \in SUBSET Items /\ ConsumersIn(s) \in SUBSET Consumers
    BY DEF ProducersIn, ConsumersIn
  <2>2. QED
    BY <2>1, FS_Subset, FinitenessAssumption
<1>2. QED
  BY <1>1, FS_CardinalityType

(* Every queued envelope keeps a wakeup in flight as long as a worker      *)
(* sleeps.  notify_one runs after the unlock, when another worker may have *)
(* taken the envelope or a new one may have arrived, and the matching      *)
(* survives each of these orders.                                          *)
THEOREM NoWakeupIsLost == Spec => []NoLostWakeup
<1>1. Init => NoLostWakeup
  BY DEF Init, NoLostWakeup, ConsumersIn
<1>2. TypeOK /\ NoLostWakeup /\ [Next]_vars => NoLostWakeup'
  <2> SUFFICES ASSUME TypeOK, NoLostWakeup, [Next]_vars
               PROVE  NoLostWakeup'
    OBVIOUS
  <2> USE DEF TypeOK, ProducerStates, ConsumerStates
  <2>n. /\ Cardinality(ProducersIn("pushed")) \in Nat
        /\ Cardinality(ConsumersIn("ready")) \in Nat
        /\ Len(queue) \in Nat
    BY FiniteThreadSets
  <2>1. ASSUME NEW i \in Items, PushAccepted(i)
        PROVE  NoLostWakeup'
    <3>1. ConsumersIn("waiting")' = ConsumersIn("waiting")
          /\ ConsumersIn("ready")' = ConsumersIn("ready")
      BY <2>1 DEF PushAccepted, ConsumersIn
    <3>2. /\ ProducersIn("pushed")' = ProducersIn("pushed") \cup {i}
          /\ i \notin ProducersIn("pushed")
      BY <2>1 DEF PushAccepted, ProducersIn
    <3>3. Cardinality(ProducersIn("pushed"))' = Cardinality(ProducersIn("pushed")) + 1
      BY <3>2, FS_AddElement, FiniteThreadSets
    <3>4. Len(queue)' = Len(queue) + 1
      BY <2>1 DEF PushAccepted
    <3>5. QED
      BY <3>1, <3>3, <3>4, <2>n DEF NoLostWakeup
  <2>2. ASSUME NEW i \in Items, NotifyOne(i)
        PROVE  NoLostWakeup'
    <3>1. CASE ConsumersIn("waiting") = {}
      <4>1. ConsumersIn("waiting")' = {}
        BY <2>2, <3>1 DEF NotifyOne, ConsumersIn
      <4>2. QED
        BY <4>1 DEF NoLostWakeup
    <3>2. CASE ConsumersIn("waiting") # {}
      <4>1. PICK c \in ConsumersIn("waiting") :
                consumer' = [consumer EXCEPT ![c] = "ready"]
        BY <2>2, <3>2 DEF NotifyOne
      <4>2. /\ ConsumersIn("ready")' = ConsumersIn("ready") \cup {c}
            /\ c \notin ConsumersIn("ready")
        BY <4>1 DEF ConsumersIn
      <4>3. Cardinality(ConsumersIn("ready"))' = Cardinality(ConsumersIn("ready")) + 1
        BY <4>2, FS_AddElement, FiniteThreadSets
      <4>4. /\ ProducersIn("pushed")' = ProducersIn("pushed") \ {i}
            /\ i \in ProducersIn("pushed")
        BY <2>2 DEF NotifyOne, ProducersIn
      <4>5. Cardinality(ProducersIn("pushed"))' = Cardinality(ProducersIn("pushed")) - 1
        BY <4>4, FS_RemoveElement, FiniteThreadSets
      <4>6. Len(queue)' = Len(queue)
        BY <2>2 DEF NotifyOne
      <4>7. QED
        BY <3>2, <4>3, <4>5, <4>6, <2>n DEF NoLostWakeup
    <3>3. QED
      BY <3>1, <3>2
  <2>3. ASSUME NEW c \in Consumers, Sleep(c)
        PROVE  NoLostWakeup'
    <3>1. Len(queue)' = 0
      BY <2>3 DEF Sleep
    <3>2. Cardinality(ProducersIn("pushed"))' = Cardinality(ProducersIn("pushed"))
      BY <2>3 DEF Sleep, ProducersIn
    <3>3. ConsumersIn("ready")' = ConsumersIn("ready") \ {c}
      BY <2>3 DEF Sleep, ConsumersIn
    <3>4. Cardinality(ConsumersIn("ready"))' \in Nat
      BY <3>3, FS_RemoveElement, FiniteThreadSets, FS_CardinalityType
    <3>5. QED
      BY <3>1, <3>2, <3>4, <2>n DEF NoLostWakeup
  <2>4. ASSUME NEW c \in Consumers, Pop(c)
        PROVE  NoLostWakeup'
    <3>1. ConsumersIn("waiting")' = ConsumersIn("waiting")
      BY <2>4 DEF Pop, ConsumersIn
    <3>2. /\ ConsumersIn("ready")' = ConsumersIn("ready") \ {c}
          /\ c \in ConsumersIn("ready")
      BY <2>4 DEF Pop, ConsumersIn
    <3>3. Cardinality(ConsumersIn("ready"))' = Cardinality(ConsumersIn("ready")) - 1
      BY <3>2, FS_RemoveElement, FiniteThreadSets
    <3>4. Cardinality(ProducersIn("pushed"))' = Cardinality(ProducersIn("pushed"))
      BY <2>4 DEF Pop, ProducersIn
    <3>5. Len(queue)' = Len(queue) - 1
      BY <2>4 DEF Pop
    <3>6. QED
      BY <3>1, <3>3, <3>4, <3>5, <2>n DEF NoLostWakeup
  <2>5. ASSUME NEW c \in Consumers, PopNothing(c)
        PROVE  NoLostWakeup'
    <3>1. Len(queue)' = 0
      BY <2>5 DEF PopNothing
    <3>2. Cardinality(ProducersIn("pushed"))' = Cardinality(ProducersIn("pushed"))
      BY <2>5 DEF PopNothing, ProducersIn
    <3>3. ConsumersIn("ready")' = ConsumersIn("ready") \ {c}
      BY <2>5 DEF PopNothing, ConsumersIn
    <3>4. Cardinality(ConsumersIn("ready"))' \in Nat
      BY <3>3, FS_RemoveElement, FiniteThreadSets, FS_CardinalityType
    <3>5. QED
      BY <3>1, <3>2, <3>4, <2>n DEF NoLostWakeup
  <2>6. ASSUME NEW c \in Consumers, Loop(c) \/ SpuriousWakeup(c)
        PROVE  NoLostWakeup'
    <3>1. ConsumersIn("waiting")' \subseteq ConsumersIn("waiting")
      BY <2>6 DEF Loop, SpuriousWakeup, ConsumersIn
    <3>2. /\ ConsumersIn("ready")' = ConsumersIn("ready") \cup {c}
          /\ c \notin ConsumersIn("ready")
      BY <2>6 DEF Loop, SpuriousWakeup, ConsumersIn
    <3>3. Cardinality(ConsumersIn("ready"))' = Cardinality(ConsumersIn("ready")) + 1
      BY <3>2, FS_AddElement, FiniteThreadSets
    <3>4. /\ Cardinality(ProducersIn("pushed"))' = Cardinality(ProducersIn("pushed"))
          /\ Len(queue)' = Len(queue)
      BY <2>6 DEF Loop, SpuriousWakeup, ProducersIn
    <3>5. QED
      BY <3>1, <3>3, <3>4, <2>n DEF NoLostWakeup
  <2>7. ASSUME NEW i \in Items, PushRefused(i)
        PROVE  NoLostWakeup'
    <3>1. /\ ConsumersIn("waiting")' = ConsumersIn("waiting")
          /\ ConsumersIn("ready")' = ConsumersIn("ready")
          /\ ProducersIn("pushed")' = ProducersIn("pushed")
          /\ Len(queue)' = Len(queue)
      BY <2>7 DEF PushRefused, ConsumersIn, ProducersIn
    <3>2. QED
      BY <3>1 DEF NoLostWakeup
  <2>8. ASSUME NEW k \in Closers, NotifyAll(k)
        PROVE  NoLostWakeup'
    <3>1. ConsumersIn("waiting")' = {}
      BY <2>8 DEF NotifyAll, ConsumersIn
    <3>2. QED
      BY <3>1 DEF NoLostWakeup
  <2>9. CASE UNCHANGED <<queue, producer, consumer>>
    BY <2>9 DEF NoLostWakeup, ConsumersIn, ProducersIn
  <2>10. QED
    BY <2>1, <2>2, <2>3, <2>4, <2>5, <2>6, <2>7, <2>8, <2>9 DEF Next, vars, Close
<1>3. QED
  BY <1>1, <1>2, TypeCorrect, PTL DEF Spec

-------------------------------------------------------------------------------
(* Each step of the queue with its condition variable is a step of the     *)
(* abstract bounded FIFO or leaves it unchanged: sleeping, waking up and   *)
(* notifying are invisible, and an item is handed out exactly once, in the *)
(* order of acceptance.                                                    *)
THEOREM ImplementsAbstractSafety ==
    Spec => Abstract!Init /\ [][Abstract!Next]_(Abstract!vars)
<1>1. Init => Abstract!Init
  BY DEF Init, Abstract!Init
<1>2. TypeOK /\ [Next]_vars => [Abstract!Next]_(Abstract!vars)
  <2> SUFFICES ASSUME TypeOK, [Next]_vars
               PROVE  [Abstract!Next]_(Abstract!vars)
    OBVIOUS
  <2> USE DEF TypeOK, ProducerStates, ConsumerStates
  <2>1. ASSUME NEW i \in Items, PushAccepted(i)
        PROVE  Abstract!Offer(i)
    BY <2>1 DEF PushAccepted, Abstract!Offer
  <2>2. ASSUME NEW i \in Items, PushRefused(i)
        PROVE  Abstract!Offer(i)
    BY <2>2 DEF PushRefused, Abstract!Offer
  <2>3. ASSUME NEW i \in Items, NotifyOne(i)
        PROVE  UNCHANGED Abstract!vars
    BY <2>3 DEF NotifyOne, ConsumersIn, Abstract!vars
  <2>4. ASSUME NEW c \in Consumers, Sleep(c) \/ SpuriousWakeup(c)
        PROVE  UNCHANGED Abstract!vars
    BY <2>4 DEF Sleep, SpuriousWakeup, Abstract!vars
  <2>5. ASSUME NEW c \in Consumers, Pop(c)
        PROVE  Abstract!Take(c)
    BY <2>5 DEF Pop, Abstract!Take
  <2>6. ASSUME NEW c \in Consumers, PopNothing(c)
        PROVE  Abstract!Stop(c)
    BY <2>6 DEF PopNothing, Abstract!Stop
  <2>7. ASSUME NEW c \in Consumers, Loop(c)
        PROVE  Abstract!Call(c)
    BY <2>7 DEF Loop, Abstract!Call
  <2>8. ASSUME NEW k \in Closers, Close(k)
        PROVE  Abstract!Close \/ UNCHANGED Abstract!vars
    BY <2>8 DEF Close, Abstract!Close, Abstract!vars
  <2>9. ASSUME NEW k \in Closers, NotifyAll(k)
        PROVE  UNCHANGED Abstract!vars
    BY <2>9 DEF NotifyAll, Abstract!vars
  <2>10. CASE UNCHANGED vars
    BY <2>10 DEF vars, Abstract!vars
  <2>11. QED
    BY <2>1, <2>2, <2>3, <2>4, <2>5, <2>6, <2>7, <2>8, <2>9, <2>10
    DEF Next, Abstract!Next
<1>3. QED
  BY <1>1, <1>2, TypeCorrect, PTL DEF Spec
===============================================================================
