-------------------------- MODULE SseEventHub_proofs --------------------------
(***************************************************************************)
(* Proofs about SseEventHub, for every number of clients, connections and  *)
(* events and every size of the buffers.                                   *)
(***************************************************************************)
EXTENDS SseEventHub, SequenceTheorems, TLAPS

-------------------------------------------------------------------------------
(* Sequences of ids *)

Elems(s) == {s[i] : i \in DOMAIN s}
Below(S, T) == \A x \in S, y \in T : x < y

LEMMA AppendId ==
    ASSUME NEW s \in Seq(Ids), NEW e \in Ids
    PROVE  /\ Append(s, e) \in Seq(Ids)
           /\ Elems(Append(s, e)) = Elems(s) \cup {e}
           /\ Increasing(s) /\ Below(Elems(s), {e}) => Increasing(Append(s, e))
<1> DEFINE t == Append(s, e)
           n == Len(s)
<1>1. /\ n \in Nat /\ DOMAIN s = 1..n /\ DOMAIN t = 1..(n + 1) /\ t \in Seq(Ids)
      /\ \A k \in 1..n : t[k] = s[k]
      /\ t[n + 1] = e
  BY AppendProperties, LenProperties
<1> HIDE DEF t, n
<1>2. Elems(t) = Elems(s) \cup {e}
  <2>1. ASSUME NEW x \in Elems(s) \cup {e} PROVE \E k \in 1..(n + 1) : t[k] = x
    <3>1. CASE x = e
      <4>1. n + 1 \in 1..(n + 1)
        BY <1>1
      <4>2. QED
        BY <1>1, <3>1, <4>1
    <3>2. CASE x \in Elems(s)
      <4>1. PICK k \in 1..n : s[k] = x
        BY <1>1, <3>2 DEF Elems
      <4>2. k \in 1..(n + 1) /\ t[k] = x
        BY <1>1, <4>1
      <4>3. QED
        BY <4>2
    <3>3. QED
      BY <3>1, <3>2
  <2>2. ASSUME NEW k \in 1..(n + 1) PROVE t[k] \in Elems(s) \cup {e}
    <3>1. k \in 1..n \/ k = n + 1
      BY <1>1
    <3>2. QED
      BY <1>1, <3>1 DEF Elems
  <2>3. QED
    BY <1>1, <2>1, <2>2 DEF Elems
<1>3. ASSUME Increasing(s), Below(Elems(s), {e}), NEW i \in 1..(n + 1), NEW j \in 1..(n + 1), i < j
      PROVE  t[i] < t[j]
  <2>1. i \in 1..n /\ t[i] = s[i] /\ s[i] \in Elems(s)
    BY <1>1, <1>3 DEF Elems
  <2>2. CASE j \in 1..n
    BY <1>1, <1>3, <2>1, <2>2 DEF Increasing
  <2>3. CASE j = n + 1
    BY <1>1, <1>3, <2>1, <2>3 DEF Below
  <2>4. QED
    BY <1>1, <2>2, <2>3
<1>4. QED
  BY <1>1, <1>2, <1>3 DEF Increasing, t

LEMMA TailOfIds ==
    ASSUME NEW s \in Seq(Ids), s # <<>>
    PROVE  /\ Tail(s) \in Seq(Ids) /\ Head(s) \in Ids
           /\ Len(Tail(s)) = Len(s) - 1 /\ \A i \in 1..Len(Tail(s)) : Tail(s)[i] = s[i + 1]
           /\ Elems(s) = {Head(s)} \cup Elems(Tail(s))
           /\ Increasing(s) => Increasing(Tail(s)) /\ Below({Head(s)}, Elems(Tail(s)))
<1> DEFINE t == Tail(s)
           n == Len(s)
<1>1. /\ n \in Nat \ {0} /\ DOMAIN s = 1..n /\ DOMAIN t = 1..(n - 1) /\ t \in Seq(Ids)
      /\ Len(t) = n - 1
      /\ \A k \in 1..(n - 1) : t[k] = s[k + 1]
      /\ Head(s) = s[1] /\ Head(s) \in Ids
  BY HeadTailProperties, LenProperties, EmptySeq
<1> HIDE DEF t, n
<1>2. Elems(s) = {Head(s)} \cup Elems(t)
  <2>1. ASSUME NEW k \in 1..n PROVE s[k] \in {Head(s)} \cup Elems(t)
    <3>1. CASE k = 1
      BY <1>1, <3>1
    <3>2. CASE k # 1
      <4>1. k - 1 \in 1..(n - 1) /\ k - 1 + 1 = k
        BY <1>1, <3>2
      <4>2. QED
        BY <1>1, <4>1 DEF Elems
    <3>3. QED
      BY <3>1, <3>2
  <2>2. ASSUME NEW x \in {Head(s)} \cup Elems(t) PROVE \E k \in 1..n : s[k] = x
    <3>1. CASE x = Head(s)
      <4>1. 1 \in 1..n
        BY <1>1
      <4>2. QED
        BY <1>1, <3>1, <4>1
    <3>2. CASE x \in Elems(t)
      <4>1. PICK k \in 1..(n - 1) : t[k] = x
        BY <1>1, <3>2 DEF Elems
      <4>2. k + 1 \in 1..n /\ s[k + 1] = x
        BY <1>1, <4>1
      <4>3. QED
        BY <4>2
    <3>3. QED
      BY <3>1, <3>2
  <2>3. \A x \in Elems(s) : x \in {Head(s)} \cup Elems(t)
    BY <1>1, <2>1 DEF Elems
  <2>4. \A x \in {Head(s)} \cup Elems(t) : x \in Elems(s)
    BY <1>1, <2>2 DEF Elems
  <2>5. QED
    BY <2>3, <2>4
<1>3. ASSUME Increasing(s) PROVE Increasing(t) /\ Below({Head(s)}, Elems(t))
  <2>1. \A k \in 1..(n - 1) : k + 1 \in 1..n /\ 1 \in 1..n /\ 1 < k + 1
    BY <1>1
  <2>2. \A i, j \in 1..(n - 1) : i < j => i + 1 < j + 1
    BY <1>1
  <2>3. \A i, j \in 1..n : i < j => s[i] < s[j]
    BY <1>1, <1>3 DEF Increasing
  <2>4. Increasing(t)
    BY <1>1, <2>1, <2>2, <2>3 DEF Increasing
  <2>5. \A k \in 1..(n - 1) : Head(s) < t[k]
    BY <1>1, <2>1, <2>3
  <2>6. QED
    BY <1>1, <2>4, <2>5 DEF Below, Elems
<1>4. QED
  BY <1>1, <1>2, <1>3 DEF t, n

LEMMA ConcatOfIds ==
    ASSUME NEW s \in Seq(Ids), NEW r \in Seq(Ids)
    PROVE  /\ s \o r \in Seq(Ids)
           /\ Elems(s \o r) = Elems(s) \cup Elems(r)
           /\ Increasing(s) /\ Increasing(r) /\ Below(Elems(s), Elems(r)) => Increasing(s \o r)
<1> DEFINE t == s \o r
           n == Len(s)
           m == Len(r)
<1>1. /\ n \in Nat /\ m \in Nat /\ DOMAIN s = 1..n /\ DOMAIN r = 1..m
      /\ t \in Seq(Ids) /\ DOMAIN t = 1..(n + m)
      /\ \A k \in 1..n : t[k] = s[k]
      /\ \A k \in 1..(n + m) : k > n => t[k] = r[k - n]
  BY ConcatProperties, LenProperties
<1> HIDE DEF t, n, m
<1>2. \A k \in 1..(n + m) : k > n => k - n \in 1..m
  BY <1>1
<1>3. \A k \in 1..n : k \in 1..(n + m)
  BY <1>1
<1>4. \A k \in 1..m : k + n \in 1..(n + m) /\ k + n > n /\ k + n - n = k
  BY <1>1
<1>5. \A k \in 1..(n + m) : k \in 1..n \/ k > n
  BY <1>1
<1>6. Elems(t) = Elems(s) \cup Elems(r)
  <2>1. ASSUME NEW k \in 1..(n + m) PROVE t[k] \in Elems(s) \cup Elems(r)
    BY <1>1, <1>2, <1>5 DEF Elems
  <2>2. ASSUME NEW x \in Elems(s) PROVE \E k \in 1..(n + m) : t[k] = x
    BY <1>1, <1>3 DEF Elems
  <2>3. ASSUME NEW x \in Elems(r) PROVE \E k \in 1..(n + m) : t[k] = x
    <3>1. PICK k \in 1..m : r[k] = x
      BY <1>1 DEF Elems
    <3>2. t[k + n] = x
      BY <1>1, <1>4, <3>1
    <3>3. QED
      BY <1>4, <3>2
  <2>4. \A x \in Elems(t) : x \in Elems(s) \cup Elems(r)
    BY <1>1, <2>1 DEF Elems
  <2>5. \A x \in Elems(s) \cup Elems(r) : x \in Elems(t)
    BY <1>1, <2>2, <2>3 DEF Elems
  <2>6. QED
    BY <2>4, <2>5
<1>7. ASSUME Increasing(s), Increasing(r), Below(Elems(s), Elems(r)),
             NEW i \in 1..(n + m), NEW j \in 1..(n + m), i < j
      PROVE  t[i] < t[j]
  <2>1. CASE j \in 1..n
    <3>1. i \in 1..n
      BY <1>1, <1>7, <2>1
    <3>2. QED
      BY <1>1, <1>7, <2>1, <3>1 DEF Increasing
  <2>2. CASE i \in 1..n /\ j > n
    BY <1>1, <1>2, <1>7, <2>2 DEF Below, Elems
  <2>3. CASE i > n /\ j > n
    <3>1. i - n \in 1..m /\ j - n \in 1..m /\ i - n < j - n
      BY <1>1, <1>2, <1>7, <2>3
    <3>2. QED
      BY <1>1, <1>7, <2>3, <3>1 DEF Increasing
  <2>4. QED
    BY <1>1, <1>5, <1>7, <2>1, <2>2, <2>3
<1>8. QED
  BY <1>1, <1>6, <1>7 DEF Increasing, t

LEMMA NewestOfIds ==
    ASSUME NEW s \in Seq(Ids), Increasing(s)
    PROVE  /\ Newest(s) \in {0} \cup Elems(s)
           /\ \A x \in Elems(s) : x <= Newest(s)
<1> DEFINE n == Len(s)
<1>1. n \in Nat /\ DOMAIN s = 1..n /\ \A k \in 1..n : s[k] \in Nat
  <2>1. n \in Nat /\ DOMAIN s = 1..n /\ \A k \in 1..n : s[k] \in Ids
    BY LenProperties, ElementOfSeq
  <2>2. \A x \in Ids : x \in Nat
    BY LimitsAssumption DEF Ids
  <2>3. QED
    BY <2>1, <2>2
<1>2. CASE s = <<>>
  BY <1>2, EmptySeq DEF Newest, Elems
<1>3. CASE s # <<>>
  <2>1. n \in 1..n /\ Newest(s) = s[n]
    BY <1>1, <1>3, EmptySeq DEF Newest
  <2> HIDE DEF n
  <2>2. ASSUME NEW k \in 1..n PROVE s[k] <= s[n]
    <3>1. k < n \/ k = n
      BY <1>1
    <3>2. QED
      BY <1>1, <2>1, <3>1 DEF Increasing
  <2>3. QED
    BY <1>1, <2>1, <2>2 DEF Elems
<1>4. QED
  BY <1>2, <1>3

\* The ids up to n, without a gap.
Run(s, n) == Len(s) <= n /\ \A i \in 1..Len(s) : s[i] = n - Len(s) + i

LEMMA RunOfIds ==
    ASSUME NEW s \in Seq(Ids), NEW n \in Nat, Run(s, n)
    PROVE  Elems(s) = (n - Len(s) + 1)..n /\ Increasing(s)
<1> DEFINE l == Len(s)
<1>1. l \in Nat /\ l <= n /\ DOMAIN s = 1..l /\ \A i \in 1..l : s[i] = n - l + i
  BY LenProperties DEF Run
<1> HIDE DEF l
<1>2. ASSUME NEW x \in Elems(s) PROVE x \in (n - l + 1)..n
  BY <1>1 DEF Elems
<1>3. ASSUME NEW x \in (n - l + 1)..n PROVE x \in Elems(s)
  <2>1. x - n + l \in 1..l /\ n - l + (x - n + l) = x
    BY <1>1
  <2>2. QED
    BY <1>1, <2>1 DEF Elems
<1>4. Increasing(s)
  BY <1>1 DEF Increasing
<1>5. QED
  BY <1>2, <1>3, <1>4 DEF l

LEMMA EmptyRun == ASSUME NEW n \in Nat PROVE Run(<<>>, n) /\ Elems(<<>>) = {} /\ Increasing(<<>>)
  BY EmptySeq DEF Run, Elems, Increasing

LEMMA TailOfRun ==
    ASSUME NEW s \in Seq(Ids), NEW n \in Nat, Run(s, n), s # <<>>
    PROVE  Run(Tail(s), n)
<1> DEFINE t == Tail(s)
<1>1. Len(t) = Len(s) - 1 /\ Len(s) \in Nat /\ t \in Seq(Ids) /\ \A i \in 1..Len(t) : t[i] = s[i + 1]
  BY TailOfIds, LenProperties
<1> HIDE DEF t
<1>2. QED
  BY <1>1 DEF Run, t

LEMMA EndOfRun ==
    ASSUME NEW s \in Seq(Ids), NEW n \in Nat, Run(s, n), NEW j \in 1..Len(s)
    PROVE  LET t == SubSeq(s, j, Len(s)) IN
           t \in Seq(Ids) /\ Run(t, n) /\ Len(t) = Len(s) - j + 1
<1> DEFINE l == Len(s)
           t == SubSeq(s, j, Len(s))
<1>1. l \in Nat /\ l <= n /\ \A i \in 1..l : s[i] = n - l + i
  BY LenProperties DEF Run
<1>2. /\ t \in Seq(Ids) /\ Len(t) = l - j + 1
      /\ \A i \in 1..(l - j + 1) : t[i] = s[j + i - 1]
  <2>1. \A i \in j..l : s[i] \in Ids
    <3>1. \A i \in j..l : i \in 1..l
      BY <1>1
    <3>2. QED
      BY <3>1, ElementOfSeq
  <2>2. QED
    BY <1>1, <2>1, SubSeqProperties
<1> HIDE DEF t, l
<1>3. Run(t, n)
  BY <1>1, <1>2 DEF Run, l
<1>4. QED
  BY <1>2, <1>3 DEF t, l

LEMMA PushOnRun ==
    ASSUME NEW s \in Seq(Ids), NEW n \in Nat, n + 1 \in Ids, NEW m \in Nat \ {0},
           Run(s, n), Len(s) <= m
    PROVE  LET t == PushBounded(s, n + 1, m) IN
           /\ t \in Seq(Ids) /\ Run(t, n + 1) /\ Len(t) <= m
           /\ Len(t) < m => Len(t) = Len(s) + 1
           /\ \A e \in Elems(s) \cup {n + 1} : e > n + 1 - m => e \in Elems(t)
           /\ Elems(t) \subseteq Elems(s) \cup {n + 1}
<1> DEFINE r == IF Len(s) >= m THEN Tail(s) ELSE s
           t == PushBounded(s, n + 1, m)
<1>1. Len(s) \in Nat
  BY LenProperties
<1>2. /\ r \in Seq(Ids) /\ Run(r, n)
      /\ Len(r) = IF Len(s) >= m THEN Len(s) - 1 ELSE Len(s)
  <2>1. CASE Len(s) >= m
    <3>1. s # <<>>
      BY <1>1, <2>1, EmptySeq
    <3>2. QED
      BY <2>1, <3>1, TailOfIds, TailOfRun
  <2>2. CASE ~(Len(s) >= m)
    BY <2>2
  <2>3. QED
    BY <2>1, <2>2
<1>3. t = Append(r, n + 1)
  BY DEF PushBounded
<1> HIDE DEF r, t
<1>4. /\ t \in Seq(Ids) /\ Len(t) = Len(r) + 1
      /\ \A i \in 1..Len(r) : t[i] = r[i]
      /\ t[Len(r) + 1] = n + 1
  BY <1>2, <1>3, AppendProperties
<1>5. Len(r) \in Nat /\ Len(r) <= Len(s) /\ Len(r) < m
  BY <1>1, <1>2
<1>6. Run(t, n + 1)
  <2>1. ASSUME NEW i \in 1..Len(t) PROVE t[i] = n + 1 - Len(t) + i
    <3>1. CASE i \in 1..Len(r)
      <4>1. t[i] = n - Len(r) + i
        BY <1>2, <1>4, <3>1 DEF Run
      <4>2. QED
        BY <1>4, <1>5, <3>1, <4>1
    <3>2. CASE i = Len(r) + 1
      BY <1>4, <1>5, <3>2
    <3>3. QED
      BY <1>4, <1>5, <3>1, <3>2
  <2>2. Len(t) <= n + 1
    BY <1>2, <1>4, <1>5 DEF Run
  <2>3. QED
    BY <2>1, <2>2 DEF Run
<1>7. Elems(t) = (n + 1 - Len(t) + 1)..(n + 1) /\ Elems(s) = (n - Len(s) + 1)..n
  BY <1>4, <1>6, RunOfIds
<1>8. QED
  BY <1>1, <1>2, <1>4, <1>5, <1>6, <1>7 DEF t

\* The last m of a run.
LEMMA LastOfRun ==
    ASSUME NEW s \in Seq(Ids), NEW n \in Nat, NEW m \in Nat \ {0}, Run(s, n)
    PROVE  LET t == LastOf(s, m) IN
           /\ t \in Seq(Ids) /\ Run(t, n) /\ Len(t) <= m
           /\ Elems(t) = {e \in Elems(s) : e > n - m}
<1> DEFINE t == LastOf(s, m)
<1>1. Len(s) \in Nat /\ Len(s) <= n /\ Elems(s) = (n - Len(s) + 1)..n
  BY LenProperties, RunOfIds DEF Run
<1>2. /\ t \in Seq(Ids) /\ Run(t, n)
      /\ Len(t) = IF Len(s) > m THEN m ELSE Len(s)
  <2>1. CASE Len(s) > m
    <3>1. Len(s) - m + 1 \in 1..Len(s) /\ t = SubSeq(s, Len(s) - m + 1, Len(s))
      BY <1>1, <2>1 DEF LastOf
    <3> HIDE DEF t
    <3>2. QED
      BY <1>1, <2>1, <3>1, EndOfRun
  <2>2. CASE ~(Len(s) > m)
    BY <2>2 DEF LastOf
  <2>3. QED
    BY <2>1, <2>2
<1> HIDE DEF t
<1>3. Elems(t) = (n - Len(t) + 1)..n
  BY <1>2, RunOfIds
<1>4. PICK k \in Nat, l \in Nat :
         k = Len(t) /\ l = Len(s) /\ l <= n /\ k <= m /\ k <= l /\ (k = m \/ k = l)
  BY <1>1, <1>2
<1>5. Elems(t) = (n - k + 1)..n /\ Elems(s) = (n - l + 1)..n
  BY <1>1, <1>3, <1>4
<1>6. \A e \in (n - k + 1)..n : e \in (n - l + 1)..n /\ e > n - m
  BY <1>4
<1>7. \A e \in (n - l + 1)..n : e > n - m => e \in (n - k + 1)..n
  BY <1>4
<1>8. Elems(t) = {e \in Elems(s) : e > n - m}
  BY <1>5, <1>6, <1>7
<1>9. QED
  BY <1>2, <1>4, <1>8 DEF t

\* What subscribe hands to a client that comes back.
LEMMA Replayed ==
    ASSUME replay \in Seq(Ids), NEW n \in Nat, Run(replay, n), NEW id \in Nat
    PROVE  LET t == ReplayAfter(id) IN
           /\ t \in Seq(Ids) /\ Run(t, n) /\ Len(t) <= MaxPending
           /\ Elems(t) = IF id = 0 THEN {} ELSE {e \in Elems(replay) : e > id /\ e > n - MaxPending}
<1> DEFINE newer == {i \in DOMAIN replay : replay[i] > id}
           first == CHOOSE i \in newer : \A j \in newer : i <= j
           l == Len(replay)
<1>1. /\ l \in Nat /\ l <= n /\ DOMAIN replay = 1..l /\ \A i \in 1..l : replay[i] = n - l + i
      /\ Elems(replay) = (n - l + 1)..n
  BY LenProperties, RunOfIds DEF Run
<1>2. CASE id = 0
  BY <1>2, EmptyRun, EmptySeq, LimitsAssumption DEF ReplayAfter
<1>3. CASE id # 0 /\ newer = {}
  <2>1. ReplayAfter(id) = <<>>
    BY <1>3 DEF ReplayAfter, HistoryFrom
  <2>2. \A e \in Elems(replay) : ~(e > id)
    BY <1>3 DEF Elems
  <2>3. QED
    BY <1>3, <2>1, <2>2, EmptyRun, EmptySeq, LimitsAssumption
<1>4. CASE id # 0 /\ newer # {}
  <2>1. ReplayAfter(id) = LastOf(SubSeq(replay, first, l), MaxPending)
    BY <1>4 DEF ReplayAfter, HistoryFrom
  <2>2. newer = {i \in 1..l : n - l + i > id}
    BY <1>1
  <2> HIDE DEF l, newer
  <2>3. \E i \in newer : \A j \in newer : i <= j
    <3>1. PICK k \in newer : TRUE
      BY <1>4
    <3>2. CASE n - l + 1 > id
      <4>1. 1 \in newer
        BY <1>1, <2>2, <3>1, <3>2
      <4>2. QED
        BY <1>1, <2>2, <4>1
    <3>3. CASE ~(n - l + 1 > id)
      <4>1. k \in 1..l /\ n - l + k > id
        BY <2>2, <3>1
      <4>2. id - n + l + 1 \in 1..l
        BY <1>1, <3>3, <4>1
      <4>3. PICK i \in 1..l : i = id - n + l + 1
        BY <4>2
      <4>4. n - l + i > id
        BY <1>1, <4>3
      <4>5. i \in newer /\ i = id - n + l + 1
        BY <2>2, <4>3, <4>4
      <4>6. ASSUME NEW j \in newer PROVE i <= j
        <5>1. j \in Nat /\ n - l + j > id
          BY <1>1, <2>2
        <5>2. QED
          BY <1>1, <4>5, <5>1
      <4>7. QED
        BY <4>5, <4>6
    <3>4. QED
      BY <3>2, <3>3
  <2>4. first \in newer /\ \A j \in newer : first <= j
    BY <2>3
  <2> HIDE DEF first
  <2> DEFINE s == SubSeq(replay, first, l)
  <2>5. first \in 1..l
    BY <2>2, <2>4
  <2>6. s \in Seq(Ids) /\ Run(s, n) /\ Len(s) = l - first + 1
    BY <2>5, EndOfRun DEF l
  <2> HIDE DEF s
  <2>7. Elems(s) = (n - (l - first + 1) + 1)..n
    BY <2>6, RunOfIds
  <2>8. Elems(s) = {e \in Elems(replay) : e > id}
    <3>1. n - l + first > id
      BY <2>2, <2>4
    <3>2. ASSUME NEW e \in Elems(replay), e > id PROVE e \in Elems(s)
      <4>1. e - n + l \in newer
        BY <1>1, <2>2, <3>2
      <4>2. first <= e - n + l
        BY <2>4, <4>1
      <4>3. QED
        BY <1>1, <2>5, <2>7, <4>2
    <3>3. ASSUME NEW e \in Elems(s) PROVE e \in Elems(replay) /\ e > id
      BY <1>1, <2>5, <2>7, <3>1
    <3>4. QED
      BY <3>2, <3>3
  <2>9. LET t == LastOf(s, MaxPending) IN
        /\ t \in Seq(Ids) /\ Run(t, n) /\ Len(t) <= MaxPending
        /\ Elems(t) = {e \in Elems(s) : e > n - MaxPending}
    BY <2>6, LastOfRun, LimitsAssumption
  <2>10. QED
    BY <1>4, <2>1, <2>8, <2>9 DEF s
<1>5. QED
  BY <1>2, <1>3, <1>4

-------------------------------------------------------------------------------
(* Types, and the history of the hub *)

\* The history holds the latest events, as many as it has room for.
HistoryExact ==
    /\ Run(replay, nextId - 1) /\ Len(replay) <= MaxReplay
    /\ Len(replay) < MaxReplay => Len(replay) = nextId - 1

LEMMA IdsAreNumbers == Ids \subseteq Nat /\ 0 \in Ids
  BY LimitsAssumption DEF Ids

LEMMA NextIdType ==
    ASSUME TypeOK
    PROVE  /\ nextId - 1 \in Ids /\ nextId - 1 \in Nat /\ nextId \in Nat
           /\ nextId <= MaxEvents => nextId \in Ids
  BY LimitsAssumption DEF TypeOK, Ids

LEMMA TypesKept ==
    ASSUME TypeOK, HistoryExact, [Next]_vars
    PROVE  TypeOK'
<1> USE DEF server, hub, network, history, Goto, Phases
<1>1. CASE Publish
  <2>1. nextId \in Ids /\ nextId - 1 \in Nat /\ nextId - 1 + 1 = nextId /\ nextId' \in 1..(MaxEvents + 1)
    BY <1>1, NextIdType, LimitsAssumption DEF Publish, TypeOK
  <2>2. \A s \in Seq(Ids), m \in Nat \ {0} : PushBounded(s, nextId, m) \in Seq(Ids)
    <3> SUFFICES ASSUME NEW s \in Seq(Ids), NEW m \in Nat \ {0} PROVE PushBounded(s, nextId, m) \in Seq(Ids)
      OBVIOUS
    <3>1. CASE Len(s) >= m
      <4>1. Tail(s) \in Seq(Ids)
        BY <3>1, EmptySeq, TailOfIds
      <4>2. QED
        BY <2>1, <3>1, <4>1, AppendId DEF PushBounded
    <3>2. CASE ~(Len(s) >= m)
      BY <2>1, <3>2, AppendId DEF PushBounded
    <3>3. QED
      BY <3>1, <3>2
  <2>3. replay' \in Seq(Ids)
    BY <1>1, <2>2, LimitsAssumption DEF Publish, TypeOK
  <2>4. pending' \in [Connections -> Seq(Ids)]
    BY <1>1, <2>2, LimitsAssumption DEF Publish, TypeOK
  <2>5. QED
    BY <1>1, <2>1, <2>3, <2>4 DEF Publish, TypeOK
<1>2. ASSUME NEW c \in Connections, NEW u \in Clients, Connect(c, u) PROVE TypeOK'
  <2>1. Newest(got[u]) \in Ids
    <3>1. CASE got[u] = <<>>
      BY <3>1, IdsAreNumbers DEF Newest
    <3>2. CASE got[u] # <<>>
      <4>1. got[u] \in Seq(Ids)
        BY DEF TypeOK
      <4>2. Len(got[u]) \in 1..Len(got[u])
        BY <3>2, <4>1, EmptySeq, LenProperties
      <4>3. QED
        BY <3>2, <4>1, <4>2, ElementOfSeq DEF Newest
    <3>3. QED
      BY <3>1, <3>2
  <2>2. <<>> \in Seq(Ids)
    BY EmptySeq
  <2>3. QED
    BY <1>2, <2>1, <2>2 DEF Connect, TypeOK
<1>3. ASSUME NEW c \in Connections, Receive(c) PROVE TypeOK'
  <2>1. wire[c] \in Seq(Ids) /\ wire[c] # <<>> /\ got[user[c]] \in Seq(Ids) /\ user[c] \in Clients
    BY <1>3 DEF Receive, TypeOK
  <2>2. Head(wire[c]) \in Ids /\ Tail(wire[c]) \in Seq(Ids)
    BY <2>1, TailOfIds
  <2>3. Append(got[user[c]], Head(wire[c])) \in Seq(Ids)
    BY <2>1, <2>2, AppendId
  <2>4. QED
    BY <1>3, <2>1, <2>2, <2>3 DEF Receive, TypeOK
<1>4. ASSUME NEW c \in Connections, Disconnect(c) PROVE TypeOK'
  BY <1>4, EmptySeq DEF Disconnect, TypeOK
<1>5. ASSUME NEW c \in Connections,
             Accept(c) \/ CallProvider(c) \/ Close(c) \/ Refuse(c) \/ SendRefusal(c) \/ SendGreeting(c)
             \/ EnterWait(c) \/ WaitTimesOut(c)
      PROVE  TypeOK'
  BY <1>5
  DEF Accept, CallProvider, Close, Refuse, SendRefusal, SendGreeting, EnterWait, WaitTimesOut, TypeOK
<1>6. ASSUME NEW c \in Connections, Subscribe(c) PROVE TypeOK'
  <2>1. ReplayAfter(lastId[c]) \in Seq(Ids)
    BY NextIdType, IdsAreNumbers, Replayed DEF HistoryExact, TypeOK
  <2>2. QED
    BY <1>6, <2>1, NextIdType DEF Subscribe, TypeOK
<1>7. ASSUME NEW c \in Connections, WaitAndPop(c) PROVE TypeOK'
  <2>1. Head(pending[c]) \in Ids /\ Tail(pending[c]) \in Seq(Ids)
    BY <1>7, TailOfIds DEF WaitAndPop, TypeOK
  <2>2. QED
    BY <1>7, <2>1 DEF WaitAndPop, TypeOK
<1>8. ASSUME NEW c \in Connections, SendEvent(c) PROVE TypeOK'
  <2>1. Append(wire[c], hand[c]) \in Seq(Ids)
    BY AppendId DEF TypeOK
  <2>2. QED
    BY <1>8, <2>1, IdsAreNumbers DEF SendEvent, TypeOK
<1>9. ASSUME NEW c \in Connections, Unsubscribe(c) PROVE TypeOK'
  BY <1>9, EmptySeq DEF Unsubscribe, TypeOK
<1>10. CASE Signal \/ StopServer \/ UNCHANGED vars
  BY <1>10 DEF Signal, StopServer, vars, TypeOK
<1>11. QED
  BY <1>1, <1>2, <1>3, <1>4, <1>5, <1>6, <1>7, <1>8, <1>9, <1>10 DEF Next, Serve

\* Only publish changes the history.
LEMMA HubKept ==
    ASSUME [Next]_vars, ~Publish
    PROVE  nextId' = nextId /\ replay' = replay
  BY DEF Next, Serve, Connect, Receive, Disconnect, Accept, CallProvider, Close, Refuse, Subscribe,
     SendRefusal, SendGreeting, EnterWait, WaitAndPop, WaitTimesOut, SendEvent, Unsubscribe, Signal,
     StopServer, vars, hub

LEMMA HistoryKept ==
    ASSUME TypeOK, HistoryExact, [Next]_vars
    PROVE  HistoryExact'
<1>1. CASE ~Publish
  BY <1>1, HubKept DEF HistoryExact, Run
<1>2. CASE Publish
  <2>1. nextId \in Ids /\ nextId - 1 \in Nat /\ nextId - 1 + 1 = nextId
    BY <1>2, NextIdType DEF Publish
  <2>2. replay' = PushBounded(replay, nextId, MaxReplay) /\ nextId' = nextId + 1
    BY <1>2 DEF Publish
  <2>3. /\ Run(PushBounded(replay, nextId, MaxReplay), nextId)
        /\ Len(PushBounded(replay, nextId, MaxReplay)) <= MaxReplay
        /\ Len(PushBounded(replay, nextId, MaxReplay)) < MaxReplay
              => Len(PushBounded(replay, nextId, MaxReplay)) = Len(replay) + 1
    BY <2>1, PushOnRun, LimitsAssumption DEF HistoryExact, TypeOK
  <2>4. nextId' - 1 = nextId /\ Len(replay) \in Nat /\ MaxReplay \in Nat /\ nextId \in Nat
    BY <2>1, <2>2, LenProperties, LimitsAssumption, NextIdType DEF TypeOK
  <2>5. Len(replay') < MaxReplay => Len(replay') = nextId
    BY <2>1, <2>2, <2>3, <2>4 DEF HistoryExact
  <2>6. QED
    BY <2>2, <2>3, <2>4, <2>5 DEF HistoryExact, Run
<1>3. QED
  BY <1>1, <1>2

LEMMA HubInvariant == Spec => [](TypeOK /\ HistoryExact)
<1>1. Init => TypeOK /\ HistoryExact
  <2> SUFFICES ASSUME Init PROVE TypeOK /\ HistoryExact
    OBVIOUS
  <2>1. <<>> \in Seq(Ids) /\ Len(<<>>) = 0 /\ 0 \in Ids /\ 1 \in 1..(MaxEvents + 1)
    BY EmptySeq, IdsAreNumbers, LimitsAssumption
  <2>2. TypeOK
    BY <2>1 DEF Init, HubInit, TypeOK, Phases
  <2>3. HistoryExact
    BY <2>1, EmptyRun, LimitsAssumption DEF Init, HubInit, HistoryExact
  <2>4. QED
    BY <2>2, <2>3
<1>2. QED
  BY <1>1, TypesKept, HistoryKept, PTL DEF Spec

\* What each variable holds, whatever is published, lost and sent again.
THEOREM TypeCorrect == Spec => []TypeOK
  BY HubInvariant, PTL

-------------------------------------------------------------------------------
(* Streams *)

\* The events a client must have, or get.
Recent(u) == {e \in 1..(nextId - 1) : e > joined[u] /\ e >= nextId - Retained}

Given(c) == Elems(got[user[c]])
Sent(c) == Elems(wire[c])
Held(c) == IF phase[c] = "sending" THEN {hand[c]} ELSE {}
Seen(c) == Given(c) \cup Sent(c) \cup Held(c)

\* Nothing recent is missing before the end of S.
GapFree(S, u) == \A e \in Recent(u), d \in S : e <= d => e \in S

ClientAt(u) ==
    Increasing(got[u]) /\ Elems(got[u]) \subseteq 1..(nextId - 1) /\ GapFree(Elems(got[u]), u)

PendingAt(c) == Subscribed(c) => Run(pending[c], nextId - 1) /\ Len(pending[c]) <= MaxPending

OneLink == \A c, d \in link : user[c] = user[d] => c = d

\* What the client has, what is on the wire, what the thread holds and what is
\* pending follow each other without a gap, while the thread may still send.
OrderedAt(c) ==
    /\ Increasing(wire[c]) /\ Below(Given(c), Sent(c))
    /\ Below(Given(c) \cup Sent(c), Held(c))
    /\ Seen(c) \subseteq 1..(nextId - 1)
\* A thread that has not subscribed has sent nothing.
FreshAt(c) ==
    running /\ ~Subscribed(c) => wire[c] = <<>> /\ \A g \in Given(c) : g <= lastId[c]
WaitsAt(c) ==
    Subscribed(c) => \A e \in Recent(user[c]) : (\A d \in Seen(c) : d < e) => e \in Elems(pending[c])
AheadAt(c) ==
    Subscribed(c) /\ (running \/ phase[c] \in {"waiting", "sending"})
        => Below(Seen(c), Elems(pending[c]))
LinkAt(c) ==
    /\ phase[c] \notin {"closed", "failed"} /\ lastId[c] \in {0} \cup Given(c)
    /\ OrderedAt(c) /\ GapFree(Seen(c), user[c])
    /\ FreshAt(c) /\ WaitsAt(c) /\ AheadAt(c)

StreamInv ==
    /\ OneLink
    /\ \A u \in Clients : ClientAt(u)
    /\ \A c \in Connections : PendingAt(c)
    /\ \A c \in link : LinkAt(c)

LEMMA RecentMoves ==
    ASSUME TypeOK, [Next]_vars, NEW u \in Clients
    PROVE  /\ ~Publish => Recent(u)' \subseteq Recent(u)
           /\ Publish => Recent(u)' \subseteq Recent(u) \cup {nextId}
<1>1. nextId \in Nat /\ joined[u] \in Nat /\ joined'[u] \in Nat /\ Retained \in Nat
  <2>1. joined'[u] \in Ids
    BY NextIdType DEF TypeOK, Next, Publish, Serve, Connect, Receive, Disconnect, Accept, CallProvider, Close, Refuse,
     Subscribe, SendRefusal, SendGreeting, EnterWait, WaitAndPop, WaitTimesOut, SendEvent, Unsubscribe,
     Signal, StopServer, vars, history
  <2>2. QED
    BY <2>1, NextIdType, IdsAreNumbers, LimitsAssumption DEF TypeOK, Retained
<1>2. CASE Publish
  <2>1. nextId' = nextId + 1 /\ joined' = joined
    BY <1>2 DEF Publish, history
  <2>2. QED
    BY <1>1, <1>2, <2>1 DEF Recent
<1>3. CASE ~Publish
  <2>1. nextId' = nextId
    BY <1>3, HubKept
  <2>2. joined'[u] = joined[u] \/ joined'[u] = nextId - 1
    BY <1>3 DEF TypeOK, Next, Serve, Connect, Receive, Disconnect, Accept, CallProvider, Close, Refuse,
     Subscribe, SendRefusal, SendGreeting, EnterWait, WaitAndPop, WaitTimesOut, SendEvent, Unsubscribe,
     Signal, StopServer, vars, history
  <2>3. QED
    BY <1>1, <1>3, <2>1, <2>2 DEF Recent
<1>4. QED
  BY <1>2, <1>3

\* A connection that a step does not touch.
LEMMA LinkStays ==
    ASSUME TypeOK, NEW c \in Connections, LinkAt(c),
           phase'[c] = phase[c], wire'[c] = wire[c], user'[c] = user[c], lastId'[c] = lastId[c],
           hand'[c] = hand[c], pending'[c] = pending[c], got'[user[c]] = got[user[c]],
           nextId' = nextId, Recent(user[c])' \subseteq Recent(user[c]), running' => running
    PROVE  LinkAt(c)'
<1>1. /\ Given(c)' = Given(c) /\ Sent(c)' = Sent(c) /\ Held(c)' = Held(c) /\ Seen(c)' = Seen(c)
      /\ Subscribed(c)' = Subscribed(c)
  BY DEF Given, Sent, Held, Seen, Subscribed
<1>2. Recent(user[c])' \subseteq Recent(user[c])
  OBVIOUS
<1>3. OrderedAt(c)' /\ FreshAt(c)' /\ AheadAt(c)'
  BY <1>1 DEF LinkAt, OrderedAt, FreshAt, AheadAt
<1>4. GapFree(Seen(c), user[c])' /\ WaitsAt(c)'
  BY <1>1, <1>2 DEF LinkAt, GapFree, WaitsAt
<1>5. QED
  BY <1>1, <1>3, <1>4 DEF LinkAt

\* What a thread may do on behalf of one connection.
Moves(c) == (\E u \in Clients : Connect(c, u)) \/ Receive(c) \/ Disconnect(c) \/ Serve(c)

\* It leaves the other connections alone.
LEMMA OtherLinks ==
    ASSUME TypeOK, StreamInv, NEW d \in Connections, Moves(d), NEW c \in link', c # d
    PROVE  LinkAt(c)'
<1> USE DEF server, hub, network, history, Goto
<1>1. c \in link /\ c \in Connections
  BY DEF TypeOK, Moves, Serve, Connect, Receive, Disconnect, Accept, CallProvider, Close, Refuse,
     Subscribe, SendRefusal, SendGreeting, EnterWait, WaitAndPop, WaitTimesOut, SendEvent, Unsubscribe
<1>2. [Next]_vars /\ nextId' = nextId /\ running' = running
  BY DEF Moves, Next, Serve, Connect, Receive, Disconnect, Accept, CallProvider, Close, Refuse,
     Subscribe, SendRefusal, SendGreeting, EnterWait, WaitAndPop, WaitTimesOut, SendEvent, Unsubscribe
<1>3. ~Publish
  BY <1>2, NextIdType DEF Publish
<1>4. /\ phase'[c] = phase[c] /\ wire'[c] = wire[c] /\ user'[c] = user[c] /\ lastId'[c] = lastId[c]
      /\ hand'[c] = hand[c] /\ pending'[c] = pending[c]
  BY DEF TypeOK, Moves, Serve, Connect, Receive, Disconnect, Accept, CallProvider, Close, Refuse,
     Subscribe, SendRefusal, SendGreeting, EnterWait, WaitAndPop, WaitTimesOut, SendEvent, Unsubscribe
<1>5. got'[user[c]] = got[user[c]]
  <2>1. CASE Receive(d)
    <3>1. user[d] # user[c]
      BY <1>1, <2>1 DEF Receive, StreamInv, OneLink
    <3>2. QED
      BY <2>1, <3>1 DEF Receive, TypeOK
  <2>2. CASE ~Receive(d)
    BY <2>2 DEF Moves, Serve, Connect, Disconnect, Accept, CallProvider, Close, Refuse, Subscribe,
       SendRefusal, SendGreeting, EnterWait, WaitAndPop, WaitTimesOut, SendEvent, Unsubscribe
  <2>3. QED
    BY <2>1, <2>2
<1>6. Recent(user[c])' \subseteq Recent(user[c])
  <2>1. user[c] \in Clients
    BY <1>1 DEF TypeOK
  <2>2. PICK u \in Clients : u = user[c]
    BY <2>1
  <2>3. Recent(u)' \subseteq Recent(u)
    BY <1>2, <1>3, RecentMoves
  <2>4. QED
    BY <1>4, <2>2, <2>3 DEF Recent
<1>7. LinkAt(c)
  BY <1>1 DEF StreamInv
<1>8. QED
  BY <1>1, <1>2, <1>4, <1>5, <1>6, <1>7, LinkStays

\* A step that only moves the thread on.
LEMMA PhaseMoves ==
    ASSUME TypeOK, NEW c \in Connections, LinkAt(c),
           UNCHANGED <<server, hub, pending, hand, network, history>>,
           phase[c] # "sending", phase'[c] \notin {"closed", "failed", "sending"},
           Subscribed(c)' <=> Subscribed(c),
           phase'[c] = "waiting" => running \/ phase[c] = "waiting"
    PROVE  LinkAt(c)'
<1> USE DEF server, hub, network, history
<1>1. /\ Given(c)' = Given(c) /\ Sent(c)' = Sent(c) /\ Held(c)' = Held(c) /\ Seen(c)' = Seen(c)
      /\ Recent(user[c])' = Recent(user[c])
  BY DEF Given, Sent, Held, Seen, Recent
<1>2. OrderedAt(c)' /\ FreshAt(c)' /\ AheadAt(c)'
  BY <1>1 DEF LinkAt, OrderedAt, FreshAt, AheadAt
<1>3. GapFree(Seen(c), user[c])' /\ WaitsAt(c)'
  BY <1>1 DEF LinkAt, GapFree, WaitsAt
<1>4. QED
  BY <1>1, <1>2, <1>3 DEF LinkAt

\* What publish does to the queue of a subscriber.
LEMMA PublishPends ==
    ASSUME TypeOK, Publish, NEW c \in Connections, PendingAt(c), Subscribed(c)
    PROVE  /\ Run(pending[c], nextId - 1)' /\ Len(pending[c])' <= MaxPending
           /\ \A e \in Elems(pending[c]) \cup {nextId} : e > nextId - MaxPending => e \in Elems(pending[c])'
           /\ Elems(pending[c])' \subseteq Elems(pending[c]) \cup {nextId}
<1> DEFINE n == nextId - 1
<1>1. /\ n \in Nat /\ n + 1 = nextId /\ nextId \in Ids /\ nextId' = nextId + 1 /\ nextId \in Nat
      /\ MaxPending \in Nat \ {0} /\ pending[c] \in Seq(Ids)
  BY NextIdType, LimitsAssumption DEF Publish, TypeOK
<1>2. pending'[c] = PushBounded(pending[c], n + 1, MaxPending)
  BY <1>1 DEF Publish
<1>3. Run(pending[c], n) /\ Len(pending[c]) <= MaxPending
  BY DEF PendingAt
<1> HIDE DEF n
<1>4. PICK t : t = PushBounded(pending[c], n + 1, MaxPending)
  OBVIOUS
<1>5. /\ Run(t, n + 1) /\ Len(t) <= MaxPending
      /\ \A e \in Elems(pending[c]) \cup {n + 1} : e > n + 1 - MaxPending => e \in Elems(t)
      /\ Elems(t) \subseteq Elems(pending[c]) \cup {n + 1}
  BY <1>1, <1>3, <1>4, PushOnRun
<1>6. nextId' - 1 = n + 1 /\ nextId = n + 1 /\ t = pending'[c]
  BY <1>1, <1>2, <1>4
<1>7. Run(t, nextId' - 1)
  BY <1>5, <1>6
<1>8. \A e \in Elems(pending[c]) \cup {nextId} : e > nextId - MaxPending => e \in Elems(t)
  BY <1>1, <1>5, <1>6
<1>9. Elems(t) \subseteq Elems(pending[c]) \cup {nextId}
  BY <1>5, <1>6
<1>10. QED
  BY <1>5, <1>6, <1>7, <1>8, <1>9

LEMMA PublishReaches ==
    ASSUME TypeOK, StreamInv, Publish, NEW c \in link
    PROVE  LinkAt(c)' /\ PendingAt(c)'
<1> DEFINE n == nextId - 1
<1>1. c \in Connections /\ user[c] \in Clients
  BY DEF TypeOK
<1>2. /\ n \in Nat /\ n + 1 = nextId /\ nextId \in Ids /\ nextId' = nextId + 1 /\ nextId \in Nat
      /\ nextId' - 1 = nextId /\ MaxPending \in Nat \ {0} /\ pending[c] \in Seq(Ids)
      /\ Retained \in Nat /\ Retained <= MaxPending
  BY <1>1, NextIdType, LimitsAssumption DEF Publish, TypeOK, Retained
<1>3. LinkAt(c) /\ PendingAt(c)
  BY <1>1 DEF StreamInv
<1>4. /\ Given(c)' = Given(c) /\ Sent(c)' = Sent(c) /\ Held(c)' = Held(c) /\ Seen(c)' = Seen(c)
      /\ Subscribed(c)' = Subscribed(c) /\ user' = user /\ phase' = phase /\ lastId' = lastId
      /\ wire' = wire /\ running' = running
  BY DEF Publish, Given, Sent, Held, Seen, Subscribed, network, history, server
<1>5. Recent(user[c])' \subseteq Recent(user[c]) \cup {nextId}
      /\ \A e \in Recent(user[c])' : e >= nextId + 1 - MaxPending /\ e \in Nat
  <2>1. PICK u \in Clients : u = user[c]
    BY <1>1
  <2>2. Recent(u)' \subseteq Recent(u) \cup {nextId}
    BY RecentMoves DEF Next
  <2>3. \A e \in Recent(u)' : e >= nextId + 1 - MaxPending /\ e \in Nat
    BY <1>2 DEF Recent
  <2>4. QED
    BY <1>4, <2>1, <2>2, <2>3 DEF Recent
<1>6. Subscribed(c) =>
         /\ Run(pending[c], nextId - 1)' /\ Len(pending[c])' <= MaxPending
         /\ \A e \in Elems(pending[c]) \cup {nextId} : e > nextId - MaxPending => e \in Elems(pending[c])'
         /\ Elems(pending[c])' \subseteq Elems(pending[c]) \cup {nextId}
  BY <1>1, PublishPends DEF StreamInv
<1> HIDE DEF n
<1>7. PendingAt(c)'
  BY <1>4, <1>6 DEF PendingAt
<1>8. \A d \in Seen(c) : d \in Nat /\ d < nextId /\ d \in 1..nextId
  BY <1>2, <1>3 DEF LinkAt, OrderedAt
<1>9. OrderedAt(c)'
  BY <1>2, <1>3, <1>4, <1>8 DEF LinkAt, OrderedAt
<1>10. GapFree(Seen(c), user[c])'
  <2>1. \A e \in Recent(user[c])', d \in Seen(c) : e <= d => e \in Recent(user[c])
    BY <1>2, <1>5, <1>8
  <2>2. QED
    BY <1>3, <1>4, <2>1 DEF LinkAt, GapFree
<1>11. WaitsAt(c)'
  <2> SUFFICES ASSUME Subscribed(c), NEW e \in Recent(user[c])', \A d \in Seen(c) : d < e
               PROVE  e \in Elems(pending[c])'
    BY <1>4 DEF WaitsAt
  <2>1. e \in Elems(pending[c]) \cup {nextId}
    BY <1>3, <1>5 DEF LinkAt, WaitsAt
  <2>2. e > nextId - MaxPending
    BY <1>2, <1>5
  <2>3. QED
    BY <1>6, <2>1, <2>2
<1>12. AheadAt(c)'
  BY <1>3, <1>4, <1>6, <1>8 DEF LinkAt, AheadAt, Below
<1>13. FreshAt(c)'
  BY <1>3, <1>4 DEF LinkAt, FreshAt
<1>14. QED
  BY <1>3, <1>4, <1>7, <1>9, <1>10, <1>11, <1>12, <1>13 DEF LinkAt

LEMMA LinkOpens ==
    ASSUME TypeOK, StreamInv, NEW c \in Connections, NEW u \in Clients, Connect(c, u)
    PROVE  LinkAt(c)'
<1>1. /\ phase'[c] = "queued" /\ user'[c] = u /\ lastId'[c] = Newest(got[u]) /\ wire'[c] = <<>>
      /\ got' = got /\ joined' = joined /\ nextId' = nextId
  BY DEF Connect, Goto, TypeOK, hub, history
<1>2. ClientAt(u) /\ got[u] \in Seq(Ids)
  BY DEF StreamInv, TypeOK
<1>3. Given(c)' = Elems(got[u]) /\ Sent(c)' = {} /\ Held(c)' = {} /\ ~Subscribed(c)'
  BY <1>1, EmptySeq DEF Given, Sent, Held, Elems, Subscribed
<1>4. Seen(c)' = Elems(got[u])
  BY <1>3 DEF Seen
<1>5. OrderedAt(c)'
  BY <1>1, <1>2, <1>3, <1>4, EmptySeq DEF OrderedAt, ClientAt, Increasing, Below
<1>6. GapFree(Seen(c), user[c])'
  <2>1. Recent(user[c])' = Recent(u)
    BY <1>1 DEF Recent
  <2>2. QED
    BY <1>2, <1>4, <2>1 DEF ClientAt, GapFree
<1>7. lastId'[c] \in {0} \cup Given(c)' /\ \A g \in Given(c)' : g <= lastId'[c]
  BY <1>1, <1>2, <1>3, NewestOfIds DEF ClientAt
<1>8. QED
  BY <1>1, <1>3, <1>5, <1>6, <1>7 DEF LinkAt, FreshAt, WaitsAt, AheadAt

LEMMA LinkReceives ==
    ASSUME TypeOK, StreamInv, NEW c \in Connections, Receive(c)
    PROVE  LinkAt(c)' /\ ClientAt(user[c])'
<1> DEFINE u == user[c]
           h == Head(wire[c])
<1>1. /\ c \in link /\ u \in Clients /\ wire[c] \in Seq(Ids) /\ wire[c] # <<>> /\ got[u] \in Seq(Ids)
      /\ got'[u] = Append(got[u], h) /\ wire'[c] = Tail(wire[c])
      /\ UNCHANGED <<phase, hand, pending, user, lastId, running, nextId, joined>>
  BY DEF Receive, TypeOK, hub, server
<1>2. LinkAt(c) /\ ClientAt(u)
  BY <1>1 DEF StreamInv
<1>3. /\ h \in Ids /\ Sent(c) = {h} \cup Elems(Tail(wire[c]))
      /\ Increasing(Tail(wire[c])) /\ Below({h}, Elems(Tail(wire[c])))
  BY <1>1, <1>2, TailOfIds DEF Sent, LinkAt, OrderedAt
<1>4. Elems(Append(got[u], h)) = Given(c) \cup {h} /\ Increasing(Append(got[u], h))
  <2>1. Below(Elems(got[u]), {h})
    BY <1>2, <1>3 DEF LinkAt, OrderedAt, Given, Below
  <2>2. QED
    BY <1>1, <1>2, <1>3, <2>1, AppendId DEF Given, ClientAt
<1>5. /\ Given(c)' = Given(c) \cup {h} /\ Sent(c)' = Elems(Tail(wire[c])) /\ Held(c)' = Held(c)
      /\ Subscribed(c)' = Subscribed(c) /\ Recent(user[c])' = Recent(user[c])
  BY <1>1, <1>4 DEF Given, Sent, Held, Subscribed, Recent
<1> HIDE DEF h
<1>6. Seen(c)' = Seen(c)
  BY <1>3, <1>5 DEF Seen
<1>7. OrderedAt(c)'
  BY <1>1, <1>2, <1>3, <1>5, <1>6 DEF OrderedAt, LinkAt, Below
<1>8. GapFree(Seen(c), user[c])' /\ WaitsAt(c)' /\ AheadAt(c)'
  BY <1>1, <1>2, <1>5, <1>6 DEF LinkAt, GapFree, WaitsAt, AheadAt
<1>9. FreshAt(c)'
  BY <1>1, <1>2, <1>5 DEF LinkAt, FreshAt
<1>10. LinkAt(c)'
  BY <1>1, <1>2, <1>5, <1>7, <1>8, <1>9 DEF LinkAt
<1>11. ASSUME NEW e \in Recent(u), NEW d \in Given(c) \cup {h}, e <= d
       PROVE  e \in Given(c) \cup {h}
  <2>1. e \in Seen(c)
    BY <1>2, <1>3, <1>11 DEF LinkAt, GapFree, Seen
  <2>2. \A x \in Elems(Tail(wire[c])) \cup Held(c) : d < x
    BY <1>2, <1>3, <1>11 DEF LinkAt, OrderedAt, Below
  <2>3. e \in Int /\ d \in Int
    BY <1>2, <1>3, <1>11, IdsAreNumbers, NextIdType DEF LinkAt, OrderedAt, Seen, Recent
  <2>4. e \notin Elems(Tail(wire[c])) \cup Held(c)
    <3>1. ASSUME e \in Elems(Tail(wire[c])) \cup Held(c) PROVE FALSE
      <4>1. d < e
        BY <2>2, <3>1
      <4>2. QED
        BY <1>11, <2>3, <4>1
    <3>2. QED
      BY <3>1
  <2>5. QED
    BY <1>3, <2>1, <2>4 DEF Seen
<1>12. h \in 1..(nextId - 1)
  BY <1>2, <1>3 DEF LinkAt, OrderedAt, Seen
<1>13. ClientAt(user[c])'
  <2>1. /\ Elems(got'[u]) = Given(c) \cup {h} /\ Increasing(got'[u])
        /\ Given(c) \subseteq 1..(nextId - 1)
    BY <1>1, <1>2, <1>4 DEF Given, ClientAt, h
  <2>2. Recent(u)' = Recent(u)
    BY <1>1 DEF Recent
  <2>3. QED
    BY <1>1, <1>11, <1>12, <2>1, <2>2 DEF ClientAt, GapFree
<1>14. QED
  BY <1>10, <1>13

LEMMA LinkSubscribes ==
    ASSUME TypeOK, HistoryExact, StreamInv, NEW c \in link, Subscribe(c)
    PROVE  LinkAt(c)'
<1> DEFINE n == nextId - 1
           id == lastId[c]
           fresh == ReplayAfter(id)
<1>1. c \in Connections /\ user[c] \in Clients /\ n \in Nat /\ id \in Nat /\ replay \in Seq(Ids) /\ nextId \in Nat
  BY NextIdType, IdsAreNumbers DEF TypeOK
<1>2. /\ phase[c] = "opening" /\ phase'[c] = "greeting" /\ pending'[c] = fresh
      /\ UNCHANGED <<running, nextId, hand, wire, user, lastId, got>>
      /\ id = 0 => joined'[user[c]] = n
      /\ id # 0 => joined' = joined
  BY <1>1 DEF Subscribe, Goto, TypeOK, server, hub, network
<1>3. LinkAt(c)
  BY DEF StreamInv
<1>4. /\ Elems(fresh) = IF id = 0 THEN {} ELSE {e \in Elems(replay) : e > id /\ e > n - MaxPending}
  BY <1>1, Replayed DEF HistoryExact
<1> HIDE DEF fresh
<1>5. /\ Given(c)' = Given(c) /\ Sent(c)' = Sent(c) /\ Held(c)' = {} /\ Held(c) = {}
      /\ Seen(c)' = Seen(c) /\ ~Subscribed(c) /\ Subscribed(c)'
  BY <1>2 DEF Given, Sent, Held, Seen, Subscribed
<1>6. Recent(user[c])' \subseteq Recent(user[c]) /\ (id = 0 => Recent(user[c])' = {})
  <2>1. [Next]_vars /\ ~Publish
    <3>1. [Next]_vars
      BY <1>1 DEF Next, Serve
    <3>2. QED
      BY <1>1, <1>2, <3>1 DEF Publish
  <2>2. PICK u \in Clients : u = user[c]
    BY <1>1
  <2>3. Recent(u)' \subseteq Recent(u)
    BY <2>1, RecentMoves
  <2>4. id = 0 => Recent(u)' = {}
    BY <1>1, <1>2, <2>2 DEF Recent
  <2>5. QED
    BY <1>2, <2>2, <2>3, <2>4 DEF Recent
<1>7. OrderedAt(c)' /\ FreshAt(c)'
  BY <1>2, <1>3, <1>5 DEF LinkAt, OrderedAt, FreshAt
<1>8. GapFree(Seen(c), user[c])'
  BY <1>3, <1>5, <1>6 DEF LinkAt, GapFree
<1>9. WaitsAt(c)'
  <2> SUFFICES ASSUME NEW e \in Recent(user[c])', \A d \in Seen(c) : d < e
               PROVE  e \in Elems(fresh)
    BY <1>2, <1>5 DEF WaitsAt
  <2>1. e \in Recent(user[c]) /\ id # 0
    BY <1>6
  <2>2. id < e
    BY <1>3, <2>1 DEF LinkAt, Seen
  <2>3. e \in 1..n /\ e > n - MaxPending /\ e > n - MaxReplay
    BY <1>1, <2>1, LimitsAssumption DEF Recent, Retained
  <2>4. e \in Elems(replay)
    <3>1. Elems(replay) = (n - Len(replay) + 1)..n
      BY <1>1, RunOfIds DEF HistoryExact
    <3>2. Len(replay) \in Nat /\ (Len(replay) = MaxReplay \/ Len(replay) = n)
      BY <1>1, LenProperties, LimitsAssumption DEF HistoryExact
    <3>3. QED
      BY <1>1, <2>3, <3>1, <3>2, LimitsAssumption
  <2>5. QED
    BY <1>4, <2>1, <2>2, <2>3, <2>4
<1>10. AheadAt(c)'
  <2> SUFFICES ASSUME running, NEW d \in Seen(c), NEW p \in Elems(fresh) PROVE d < p
    BY <1>2, <1>5 DEF AheadAt, Below
  <2>1. p > id /\ id # 0 /\ p \in Int
    <3>1. Elems(replay) = (n - Len(replay) + 1)..n
      BY <1>1, RunOfIds DEF HistoryExact
    <3>2. QED
      BY <1>4, <3>1
  <2>2. d \in Given(c)
    BY <1>3, <1>5, EmptySeq DEF LinkAt, FreshAt, Seen, Sent, Elems
  <2>3. d <= id /\ d \in Int
    BY <1>3, <1>5, <2>2 DEF LinkAt, FreshAt, OrderedAt
  <2>4. QED
    BY <1>1, <2>1, <2>3
<1>11. QED
  BY <1>2, <1>3, <1>5, <1>7, <1>8, <1>9, <1>10 DEF LinkAt

LEMMA LinkPops ==
    ASSUME TypeOK, StreamInv, NEW c \in link, WaitAndPop(c)
    PROVE  LinkAt(c)'
<1> DEFINE P == pending[c]
           h == Head(P)
           n == nextId - 1
<1>1. c \in Connections /\ P \in Seq(Ids) /\ P # <<>> /\ n \in Nat
  BY NextIdType DEF TypeOK, WaitAndPop
<1>2. /\ phase[c] = "waiting" /\ phase'[c] = "sending" /\ hand'[c] = h /\ pending'[c] = Tail(P)
      /\ UNCHANGED <<running, nextId, wire, user, lastId, got, joined>>
  BY <1>1 DEF WaitAndPop, Goto, TypeOK, server, hub, network, history
<1>3. LinkAt(c) /\ Run(P, n)
  BY <1>1, <1>2 DEF StreamInv, PendingAt, Subscribed
<1>4. /\ Elems(P) = {h} \cup Elems(Tail(P)) /\ Below({h}, Elems(Tail(P)))
      /\ Elems(P) \subseteq 1..n
  <2>1. Increasing(P) /\ Elems(P) = (n - Len(P) + 1)..n /\ Len(P) \in Nat /\ Len(P) <= n
    BY <1>1, <1>3, RunOfIds, LenProperties DEF Run
  <2>2. Elems(P) \subseteq 1..n
    <3>1. (n - Len(P) + 1)..n \subseteq 1..n
      BY <1>1, <2>1
    <3>2. QED
      BY <2>1, <3>1
  <2>3. QED
    BY <1>1, <2>1, <2>2, TailOfIds
<1> DEFINE T == Elems(Tail(P))
<1>5. /\ Given(c)' = Given(c) /\ Sent(c)' = Sent(c) /\ Held(c)' = {h} /\ Held(c) = {}
      /\ Seen(c)' = Seen(c) \cup {h} /\ Subscribed(c) /\ Subscribed(c)'
      /\ Recent(user[c])' = Recent(user[c]) /\ Elems(pending[c])' = T
  BY <1>2 DEF Given, Sent, Held, Seen, Subscribed, Recent
<1> HIDE DEF h, T, P
<1>6. Below(Seen(c), Elems(P)) /\ \A e \in Recent(user[c]) : (\A d \in Seen(c) : d < e) => e \in Elems(P)
  BY <1>2, <1>3, <1>5 DEF LinkAt, AheadAt, WaitsAt, P
<1>7. Seen(c) \subseteq 1..n /\ h \in 1..n /\ T \subseteq 1..n
  BY <1>3, <1>4 DEF LinkAt, OrderedAt, T
<1>8. OrderedAt(c)'
  <2>1. Below(Given(c) \cup Sent(c), {h})
    BY <1>4, <1>6 DEF Below, Seen
  <2>2. QED
    BY <1>2, <1>3, <1>5, <1>7, <2>1 DEF LinkAt, OrderedAt
<1>9. ASSUME NEW e \in Recent(user[c]), NEW d \in Seen(c) \cup {h}, e <= d
      PROVE  e \in Seen(c) \cup {h}
  <2>1. CASE \E x \in Seen(c) : e <= x
    BY <1>3, <2>1 DEF LinkAt, GapFree
  <2>2. CASE ~\E x \in Seen(c) : e <= x
    <3>1. \A x \in Seen(c) : x < e
      <4>1. e \in Int /\ \A x \in Seen(c) : x \in Int
        BY <1>7 DEF Recent
      <4>2. QED
        BY <2>2, <4>1
    <3>2. e \in Elems(P) /\ d = h
      BY <1>6, <1>9, <2>2, <3>1
    <3>3. e \in T => h < e
      BY <1>4 DEF Below, T
    <3>4. ~(h < e)
      BY <1>7, <1>9, <3>2 DEF Recent
    <3>5. QED
      BY <1>4, <3>2, <3>3, <3>4 DEF T
  <2>3. QED
    BY <2>1, <2>2
<1>10. GapFree(Seen(c), user[c])'
  BY <1>2, <1>5, <1>9 DEF GapFree
<1>11. WaitsAt(c)'
  <2> SUFFICES ASSUME NEW e \in Recent(user[c]), \A d \in Seen(c) \cup {h} : d < e
               PROVE  e \in T
    BY <1>2, <1>5 DEF WaitsAt
  <2>1. e \in Elems(P) /\ h < e
    BY <1>6
  <2>2. e # h
    BY <1>7, <2>1
  <2>3. QED
    BY <1>4, <2>1, <2>2 DEF T
<1>12. AheadAt(c)'
  <2>1. Below(Seen(c) \cup {h}, T)
    BY <1>4, <1>6 DEF Below, T
  <2>2. QED
    BY <1>5, <2>1 DEF AheadAt
<1>13. QED
  BY <1>2, <1>3, <1>5, <1>8, <1>10, <1>11, <1>12 DEF LinkAt, FreshAt

LEMMA LinkSends ==
    ASSUME TypeOK, StreamInv, NEW c \in link, SendEvent(c)
    PROVE  LinkAt(c)'
<1>1. c \in Connections /\ wire[c] \in Seq(Ids) /\ hand[c] \in Ids
  BY DEF TypeOK
<1>2. /\ phase[c] = "sending" /\ phase'[c] = "looping" /\ wire'[c] = Append(wire[c], hand[c])
      /\ UNCHANGED <<running, nextId, pending, user, lastId, got, joined>>
  BY <1>1 DEF SendEvent, Goto, TypeOK, server, hub, history
<1>3. LinkAt(c)
  BY DEF StreamInv
<1>4. Elems(Append(wire[c], hand[c])) = Sent(c) \cup {hand[c]} /\ Increasing(Append(wire[c], hand[c]))
  <2>1. Below(Elems(wire[c]), {hand[c]})
    BY <1>2, <1>3 DEF LinkAt, OrderedAt, Held, Sent, Below
  <2>2. QED
    BY <1>1, <1>3, <2>1, AppendId DEF LinkAt, OrderedAt, Sent
<1>5. /\ Given(c)' = Given(c) /\ Sent(c)' = Sent(c) \cup {hand[c]} /\ Held(c)' = {} /\ Held(c) = {hand[c]}
      /\ Subscribed(c) /\ Subscribed(c)' /\ Recent(user[c])' = Recent(user[c])
  BY <1>2, <1>4 DEF Given, Sent, Held, Subscribed, Recent
<1>6. Seen(c)' = Seen(c)
  BY <1>5 DEF Seen
<1>7. OrderedAt(c)'
  BY <1>2, <1>3, <1>4, <1>5, <1>6 DEF LinkAt, OrderedAt, Below
<1>8. GapFree(Seen(c), user[c])' /\ WaitsAt(c)' /\ AheadAt(c)'
  BY <1>2, <1>3, <1>5, <1>6 DEF LinkAt, GapFree, WaitsAt, AheadAt
<1>9. QED
  BY <1>2, <1>3, <1>5, <1>7, <1>8 DEF LinkAt, FreshAt

LEMMA OwnLink ==
    ASSUME TypeOK, HistoryExact, StreamInv, NEW c \in Connections, Moves(c), c \in link'
    PROVE  LinkAt(c)'
<1> USE DEF server, hub, network, history, Goto
<1>1. CASE \E u \in Clients : Connect(c, u)
  BY <1>1, LinkOpens
<1>2. CASE Receive(c)
  BY <1>2, LinkReceives
<1>3. CASE Disconnect(c)
  BY <1>3 DEF Disconnect
<1>4. ASSUME Serve(c) PROVE LinkAt(c)'
  <2>1. c \in link /\ LinkAt(c)
    BY <1>4
    DEF StreamInv, Serve, Accept, CallProvider, Close, Refuse, Subscribe, SendRefusal, SendGreeting,
        EnterWait, WaitAndPop, WaitTimesOut, SendEvent, Unsubscribe
  <2>2. CASE Accept(c) \/ CallProvider(c) \/ Refuse(c) \/ SendRefusal(c) \/ SendGreeting(c)
             \/ EnterWait(c) \/ WaitTimesOut(c)
    <3>1. /\ UNCHANGED <<server, hub, pending, hand, network, history>>
          /\ phase[c] # "sending" /\ phase'[c] \notin {"closed", "failed", "sending"}
          /\ Subscribed(c)' <=> Subscribed(c)
          /\ phase'[c] = "waiting" => running \/ phase[c] = "waiting"
      BY <2>1, <2>2
      DEF Accept, CallProvider, Refuse, SendRefusal, SendGreeting, EnterWait, WaitTimesOut,
          Subscribed, TypeOK
    <3>2. QED
      BY <2>1, <3>1, PhaseMoves
  <2>3. CASE Subscribe(c)
    BY <2>1, <2>3, LinkSubscribes
  <2>4. CASE WaitAndPop(c)
    BY <2>1, <2>4, LinkPops
  <2>5. CASE SendEvent(c)
    BY <2>1, <2>5, LinkSends
  <2>6. CASE Close(c)
    BY <2>1, <2>6 DEF Close
  <2>7. CASE Unsubscribe(c)
    <3>1. /\ phase[c] = "looping" /\ ~running /\ phase'[c] = "between"
          /\ UNCHANGED <<running, nextId, hand, wire, user, lastId, got, joined>>
      BY <2>1, <2>7 DEF Unsubscribe, LinkAt, TypeOK
    <3>2. /\ Given(c)' = Given(c) /\ Sent(c)' = Sent(c) /\ Held(c)' = Held(c) /\ Seen(c)' = Seen(c)
          /\ ~Subscribed(c)' /\ Recent(user[c])' = Recent(user[c])
      BY <3>1 DEF Given, Sent, Held, Seen, Subscribed, Recent
    <3>3. OrderedAt(c)' /\ FreshAt(c)' /\ WaitsAt(c)' /\ AheadAt(c)' /\ GapFree(Seen(c), user[c])'
      BY <2>1, <3>1, <3>2 DEF LinkAt, OrderedAt, FreshAt, WaitsAt, AheadAt, GapFree
    <3>4. QED
      BY <2>1, <3>1, <3>2, <3>3 DEF LinkAt
  <2>8. QED
    BY <1>4, <2>2, <2>3, <2>4, <2>5, <2>6, <2>7 DEF Serve
<1>5. QED
  BY <1>1, <1>2, <1>3, <1>4 DEF Moves

LEMMA LinksStay ==
    ASSUME TypeOK, HistoryExact, StreamInv, [Next]_vars, NEW c \in link'
    PROVE  LinkAt(c)'
<1>1. CASE Publish
  <2>1. link' = link
    BY <1>1 DEF Publish, network
  <2>2. QED
    BY <1>1, <2>1, PublishReaches
<1>2. ASSUME NEW d \in Connections, Moves(d) PROVE LinkAt(c)'
  BY <1>2, OtherLinks, OwnLink
<1>3. CASE Signal \/ StopServer \/ UNCHANGED vars
  <2>1. /\ UNCHANGED <<hub, pending, phase, hand, network, history>> /\ c \in link /\ c \in Connections
        /\ running' => running
    BY <1>3 DEF Signal, StopServer, vars, server, hub, network, history, TypeOK
  <2>2. LinkAt(c)
    BY <2>1 DEF StreamInv
  <2>3. Recent(user[c])' = Recent(user[c])
    BY <2>1 DEF Recent, hub, network, history
  <2>4. QED
    BY <2>1, <2>2, <2>3, LinkStays DEF hub, network, history
<1>4. QED
  BY <1>1, <1>2, <1>3 DEF Next, Moves

LEMMA PendingStays ==
    ASSUME TypeOK, HistoryExact, StreamInv, [Next]_vars, NEW c \in Connections
    PROVE  PendingAt(c)'
<1> USE DEF server, hub, network, history, Goto
<1>1. PendingAt(c)
  BY DEF StreamInv
<1>2. CASE Publish
  <2>1. Subscribed(c)' = Subscribed(c)
    BY <1>2 DEF Publish, Subscribed
  <2>2. QED
    BY <1>1, <1>2, <2>1, PublishPends DEF PendingAt
<1>3. CASE ~Publish
  <2>1. nextId' = nextId
    BY <1>3, HubKept
  <2>2. CASE Subscribe(c)
    <3>1. pending'[c] = ReplayAfter(lastId[c])
      BY <2>2 DEF Subscribe, TypeOK
    <3>2. replay \in Seq(Ids) /\ nextId - 1 \in Nat /\ lastId[c] \in Nat /\ Run(replay, nextId - 1)
      BY NextIdType, IdsAreNumbers DEF TypeOK, HistoryExact
    <3>3. Run(ReplayAfter(lastId[c]), nextId - 1) /\ Len(ReplayAfter(lastId[c])) <= MaxPending
      BY <3>2, Replayed
    <3>4. QED
      BY <2>1, <3>1, <3>3 DEF PendingAt
  <2>3. CASE WaitAndPop(c)
    <3>1. /\ pending'[c] = Tail(pending[c]) /\ pending[c] # <<>> /\ pending[c] \in Seq(Ids)
          /\ Subscribed(c)
      BY <2>3 DEF WaitAndPop, TypeOK, Subscribed
    <3>2. Run(pending[c], nextId - 1) /\ Len(pending[c]) <= MaxPending /\ nextId - 1 \in Nat
      BY <1>1, <3>1, NextIdType DEF PendingAt
    <3>3. Run(Tail(pending[c]), nextId - 1)
      BY <3>1, <3>2, TailOfRun
    <3>4. Len(Tail(pending[c])) <= MaxPending
      BY <3>1, <3>2, TailOfIds, LenProperties, LimitsAssumption
    <3>5. QED
      BY <2>1, <3>1, <3>3, <3>4 DEF PendingAt
  <2>4. CASE ~Subscribe(c) /\ ~WaitAndPop(c)
    <3>1. Subscribed(c)' => Subscribed(c) /\ pending'[c] = pending[c]
      BY <1>3, <2>4
      DEF TypeOK, Next, Serve, Connect, Receive, Disconnect, Accept, CallProvider, Close, Refuse,
          Subscribe, SendRefusal, SendGreeting, EnterWait, WaitAndPop, WaitTimesOut, SendEvent,
          Unsubscribe, Signal, StopServer, vars, Subscribed
    <3>2. QED
      BY <1>1, <2>1, <3>1 DEF PendingAt
  <2>5. QED
    BY <2>2, <2>3, <2>4
<1>4. QED
  BY <1>2, <1>3

LEMMA ClientsStay ==
    ASSUME TypeOK, StreamInv, [Next]_vars, NEW u \in Clients
    PROVE  ClientAt(u)'
<1>1. ClientAt(u) /\ nextId \in Nat
  BY NextIdType DEF StreamInv
<1>2. ASSUME NEW c \in Connections, Receive(c), user[c] = u PROVE ClientAt(u)'
  <2>1. ClientAt(user[c])' /\ user' = user
    BY <1>2, LinkReceives DEF Receive
  <2>2. QED
    BY <1>2, <2>1
<1>3. CASE ~\E c \in Connections : Receive(c) /\ user[c] = u
  <2>1. got'[u] = got[u]
    BY <1>3 DEF TypeOK, Next, Publish, Serve, Connect, Receive, Disconnect, Accept, CallProvider, Close,
       Refuse, Subscribe, SendRefusal, SendGreeting, EnterWait, WaitAndPop, WaitTimesOut, SendEvent,
       Unsubscribe, Signal, StopServer, vars, history
  <2>2. CASE Publish
    <3>1. nextId' = nextId + 1 /\ Recent(u)' \subseteq Recent(u) \cup {nextId}
      BY <2>2, RecentMoves DEF Publish
    <3>2. \A d \in Elems(got[u]) : d \in Nat /\ d < nextId /\ d \in 1..nextId
      BY <1>1 DEF ClientAt
    <3>3. \A e \in Recent(u)', d \in Elems(got[u]) : e <= d => e \in Recent(u)
      BY <1>1, <3>1, <3>2
    <3>4. GapFree(Elems(got[u]), u)'
      BY <1>1, <2>1, <3>3 DEF ClientAt, GapFree
    <3>5. Elems(got'[u]) \subseteq 1..(nextId' - 1) /\ Increasing(got'[u])
      BY <1>1, <2>1, <3>1, <3>2 DEF ClientAt
    <3>6. QED
      BY <3>4, <3>5 DEF ClientAt
  <2>3. CASE ~Publish
    <3>1. nextId' = nextId /\ Recent(u)' \subseteq Recent(u)
      BY <2>3, HubKept, RecentMoves
    <3>2. QED
      BY <1>1, <2>1, <3>1 DEF ClientAt, GapFree
  <2>4. QED
    BY <2>2, <2>3
<1>4. QED
  BY <1>2, <1>3

LEMMA OneLinkStays == ASSUME TypeOK, OneLink, [Next]_vars PROVE OneLink'
<1>1. ASSUME NEW c \in Connections, NEW u \in Clients, Connect(c, u) PROVE OneLink'
  BY <1>1 DEF Connect, OneLink, TypeOK
<1>2. CASE ~\E c \in Connections, u \in Clients : Connect(c, u)
  <2>1. link' \subseteq link /\ user' = user
    BY <1>2 DEF Next, Publish, Serve, Receive, Disconnect, Accept, CallProvider, Close, Refuse,
       Subscribe, SendRefusal, SendGreeting, EnterWait, WaitAndPop, WaitTimesOut, SendEvent,
       Unsubscribe, Signal, StopServer, vars, network
  <2>2. QED
    BY <2>1 DEF OneLink
<1>3. QED
  BY <1>1, <1>2

LEMMA StreamInvariant == Spec => [](TypeOK /\ StreamInv)
<1>1. Init => StreamInv
  <2> SUFFICES ASSUME Init PROVE StreamInv
    OBVIOUS
  <2>1. \A u \in Clients : ClientAt(u)
    BY EmptyRun DEF Init, ClientAt, GapFree
  <2>2. OneLink /\ \A c \in link : LinkAt(c)
    BY DEF Init, OneLink
  <2>3. \A c \in Connections : PendingAt(c)
    BY DEF Init, PendingAt, Subscribed
  <2>4. QED
    BY <2>1, <2>2, <2>3 DEF StreamInv
<1>2. TypeOK /\ HistoryExact /\ StreamInv /\ [Next]_vars => StreamInv'
  BY LinksStay, PendingStays, ClientsStay, OneLinkStays DEF StreamInv
<1>3. QED
  BY <1>1, <1>2, HubInvariant, PTL DEF Spec

\* What is under way to a client, and what waits behind it.
LEMMA Delivery ==
    ASSUME TypeOK, StreamInv, NEW c \in link
    PROVE  LET delivery == got[user[c]] \o wire[c] \o InHand(c) IN
           /\ delivery \in Seq(Ids) /\ Increasing(delivery) /\ Elems(delivery) = Seen(c)
           /\ pending[c] \in Seq(Ids) /\ (Subscribed(c) => Increasing(pending[c]))
<1>1. /\ c \in Connections /\ user[c] \in Clients /\ got[user[c]] \in Seq(Ids) /\ wire[c] \in Seq(Ids)
      /\ pending[c] \in Seq(Ids) /\ hand[c] \in Ids
  BY DEF TypeOK
<1>2. LinkAt(c) /\ ClientAt(user[c]) /\ PendingAt(c)
  BY <1>1 DEF StreamInv
<1>3. InHand(c) \in Seq(Ids) /\ Elems(InHand(c)) = Held(c) /\ Increasing(InHand(c))
  <2>1. CASE phase[c] = "sending"
    <3>1. /\ <<hand[c]>> = Append(<<>>, hand[c]) /\ <<>> \in Seq(Ids) /\ Elems(<<>>) = {}
          /\ Increasing(<<>>)
      BY EmptySeq, EmptyRun, <1>1
    <3>2. /\ Append(<<>>, hand[c]) \in Seq(Ids) /\ Elems(Append(<<>>, hand[c])) = {} \cup {hand[c]}
          /\ Increasing(Append(<<>>, hand[c]))
      BY <1>1, <3>1, AppendId DEF Below
    <3>3. QED
      BY <2>1, <3>1, <3>2 DEF InHand, Held
  <2>2. CASE phase[c] # "sending"
    BY <2>2, EmptySeq, EmptyRun DEF InHand, Held
  <2>3. QED
    BY <2>1, <2>2
<1> DEFINE first == got[user[c]] \o wire[c]
<1>4. first \in Seq(Ids) /\ Elems(first) = Given(c) \cup Sent(c) /\ Increasing(first)
  BY <1>1, <1>2, ConcatOfIds DEF Given, Sent, LinkAt, OrderedAt, ClientAt
<1> HIDE DEF first
<1>5. /\ first \o InHand(c) \in Seq(Ids) /\ Elems(first \o InHand(c)) = Seen(c)
      /\ Increasing(first \o InHand(c))
  BY <1>2, <1>3, <1>4, ConcatOfIds DEF LinkAt, OrderedAt, Seen
<1>6. Subscribed(c) => Increasing(pending[c])
  BY <1>1, <1>2, NextIdType, RunOfIds DEF PendingAt
<1>7. QED
  BY <1>1, <1>5, <1>6 DEF first

\* A client sees increasing ids for ever: no event is delivered twice or after a
\* later one, also across lost connections, replays, refusals, and providers that
\* httplib calls again (publish, subscribe and wait_and_pop of SseEventHub, and
\* the send loop of HttpSseServer).
THEOREM ClientsSeeIncreasingIds == Spec => []DeliveredInOrder
<1>1. TypeOK /\ StreamInv => DeliveredInOrder
  <2> SUFFICES ASSUME TypeOK, StreamInv, NEW c \in link
               PROVE  LET delivery == got[user[c]] \o wire[c] \o InHand(c) IN
                      Increasing(IF phase[c] \in {"waiting", "sending"} THEN delivery \o pending[c]
                                                                        ELSE delivery)
    BY DEF DeliveredInOrder
  <2> DEFINE delivery == got[user[c]] \o wire[c] \o InHand(c)
  <2>1. /\ delivery \in Seq(Ids) /\ Increasing(delivery) /\ Elems(delivery) = Seen(c)
        /\ pending[c] \in Seq(Ids) /\ (Subscribed(c) => Increasing(pending[c]))
    BY Delivery
  <2> HIDE DEF delivery
  <2>2. CASE phase[c] \in {"waiting", "sending"}
    <3>1. Subscribed(c) /\ Below(Seen(c), Elems(pending[c]))
      BY <2>2 DEF StreamInv, LinkAt, AheadAt, Subscribed
    <3>2. Increasing(delivery \o pending[c])
      BY <2>1, <3>1, ConcatOfIds
    <3>3. QED
      BY <2>2, <3>2 DEF delivery
  <2>3. CASE phase[c] \notin {"waiting", "sending"}
    BY <2>1, <2>3 DEF delivery
  <2>4. QED
    BY <2>2, <2>3
<1>2. QED
  BY <1>1, StreamInvariant, PTL

\* A connected client loses an event only by falling behind by more than the
\* smaller of the two buffers: the latest events it expects were received, are
\* under way or wait in its queue, also those it missed while it was disconnected
\* (the bounded deques of publish and the replay of subscribe).
THEOREM NothingRecentIsLost == Spec => []RecentEventsReachClient
<1>1. TypeOK /\ StreamInv => RecentEventsReachClient
  <2> SUFFICES ASSUME TypeOK, StreamInv, NEW c \in link, Subscribed(c), NEW e \in 1..(nextId - 1),
                      e > joined[user[c]], e >= nextId - Retained
               PROVE  Contains(got[user[c]] \o wire[c] \o InHand(c) \o pending[c], e)
    BY DEF RecentEventsReachClient
  <2> DEFINE delivery == got[user[c]] \o wire[c] \o InHand(c)
  <2>1. delivery \in Seq(Ids) /\ Elems(delivery) = Seen(c) /\ pending[c] \in Seq(Ids)
    BY Delivery
  <2> HIDE DEF delivery
  <2>2. e \in Recent(user[c]) /\ LinkAt(c)
    BY DEF Recent, StreamInv
  <2>3. e \in Seen(c) \cup Elems(pending[c])
    <3>1. \A d \in Seen(c) : d \in Int
      BY <2>2 DEF LinkAt, OrderedAt
    <3>2. CASE \E d \in Seen(c) : e <= d
      BY <2>2, <3>2 DEF LinkAt, GapFree
    <3>3. CASE ~\E d \in Seen(c) : e <= d
      <4>1. \A d \in Seen(c) : d < e
        BY <3>1, <3>3
      <4>2. QED
        BY <2>2, <4>1 DEF LinkAt, WaitsAt
    <3>4. QED
      BY <3>2, <3>3
  <2>4. Elems(delivery \o pending[c]) = Seen(c) \cup Elems(pending[c])
    BY <2>1, ConcatOfIds
  <2>5. QED
    BY <2>3, <2>4 DEF Elems, Contains, delivery
<1>2. QED
  BY <1>1, StreamInvariant, PTL
===============================================================================
