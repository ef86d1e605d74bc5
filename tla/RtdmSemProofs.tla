---------------------------- MODULE RtdmSemProofs ----------------------------
(***************************************************************************)
(* Proofs about RtdmSem for every finite set of tasks and every bound.     *)
(***************************************************************************)
EXTENDS RtdmSem, FiniteSetTheorems, SequenceTheorems, WellFoundedInduction, TLAPS

-----------------------------------------------------------------------------
(* Lemmas about the wait queue and the wake-ups.                           *)

(* A wake_up only turns resting tasks into woken ones. *)
LEMMA WakeUpShape ==
    ASSUME NEW q, NEW p \in [Tasks -> PCs]
    PROVE  /\ WakeUp(q, p) \in [Tasks -> PCs]
           /\ \A t \in Tasks : \/ WakeUp(q, p)[t] = p[t]
                               \/ p[t] \in {"sched", "asleep"} /\ WakeUp(q, p)[t] = "woken"
  BY DEF WakeUp, PCs

(* So does a wake_up_all. *)
LEMMA WakeUpAllShape ==
    ASSUME NEW q, NEW p \in [Tasks -> PCs]
    PROVE  /\ WakeUpAll(q, p) \in [Tasks -> PCs]
           /\ \A t \in Tasks : \/ WakeUpAll(q, p)[t] = p[t]
                               \/ p[t] \in {"sched", "asleep"} /\ WakeUpAll(q, p)[t] = "woken"
  BY DEF WakeUpAll, PCs

(* A non-empty set of positions has a smallest one. *)
LEMMA Smallest ==
    ASSUME NEW T \in SUBSET Nat, T # {}
    PROVE  \E i \in T : \A j \in T : i <= j
<1>1. \E x \in T : \A y \in T : ~ (<<y, x>> \in OpToRel(<, Nat))
  BY NatLessThanWellFounded, WFMin
<1>2. PICK x \in T : \A y \in T : ~ (<<y, x>> \in OpToRel(<, Nat))
  BY <1>1
<1>3. \A y \in T : ~ (y < x)
  BY <1>2 DEF OpToRel
<1>4. QED
  BY <1>3

(* A wake_up on a queue that holds a resting task wakes one. *)
LEMMA WakeUpHits ==
    ASSUME NEW q \in Seq(Tasks), NEW p \in [Tasks -> PCs],
           NEW k \in 1..Len(q), p[q[k]] \in {"sched", "asleep"}
    PROVE  \E t \in Tasks : /\ p[t] \in {"sched", "asleep"} 
                            /\ WakeUp(q, p)[t] = "woken"
<1> DEFINE R == {i \in 1..Len(q) : p[q[i]] \in {"sched", "asleep"}}
<1>1. R \in SUBSET Nat /\ R # {}
  OBVIOUS
<1>2. PICK i \in R : \A j \in R : i <= j
  BY <1>1, Smallest
<1>3. q[i] \in Tasks
  BY <1>2, ElementOfSeq
<1>4. \A j \in 1..(i - 1) : p[q[j]] # "asleep"
  <2>1. Len(q) \in Nat
    BY LenProperties
  <2> QED
    BY <1>2, <2>1
<1>5. WakeUp(q, p)[q[i]] = "woken"
  BY <1>2, <1>3, <1>4 DEF WakeUp
<1>6. QED
  BY <1>2, <1>3, <1>5

(* Every queue position holds a different task. *)
Distinct(q) == \A i, j \in 1..Len(q) : q[i] = q[j] => i = j
(* Task t is on queue q. *)
Queued(q, t) == \E i \in 1..Len(q) : q[i] = t

(* remove_wait_queue unlinks exactly one task. *)
LEMMA DequeueShape ==
    ASSUME NEW q \in Seq(Tasks), NEW t \in Tasks, Queued(q, t), Distinct(q)
    PROVE  /\ Dequeue(q, t) \in Seq(Tasks)
           /\ Distinct(Dequeue(q, t))
           /\ \A u \in Tasks : Queued(Dequeue(q, t), u) <=> Queued(q, u) /\ u # t
<1> DEFINE k == CHOOSE i \in 1..Len(q) : q[i] = t
           a == SubSeq(q, 1, k - 1)
           b == SubSeq(q, k + 1, Len(q))
<1>1. k \in 1..Len(q) /\ q[k] = t
  BY DEF Queued
<1>2. Len(q) \in Nat /\ \A i \in 1..Len(q) : q[i] \in Tasks
  BY LenProperties, ElementOfSeq
<1>3. \A i \in 1..Len(q) : q[i] = t => i = k
  BY <1>1 DEF Distinct
<1> HIDE DEF k
<1>4. /\ a \in Seq(Tasks) /\ Len(a) = k - 1
      /\ \A i \in 1..(k - 1) : a[i] = q[i]
  <2>1. k - 1 \in Int /\ \A i \in 1..(k - 1) : q[i] \in Tasks
    BY <1>1, <1>2
  <2>2. /\ SubSeq(q, 1, k - 1) \in Seq(Tasks)
        /\ Len(SubSeq(q, 1, k - 1)) = IF 1 <= k - 1 THEN k - 1 - 1 + 1 ELSE 0
        /\ \A i \in 1..(k - 1 - 1 + 1) : SubSeq(q, 1, k - 1)[i] = q[1 + i - 1]
    BY <2>1, SubSeqProperties
  <2>3. QED
    BY <2>2, <1>1, <1>2
<1>5. /\ b \in Seq(Tasks) /\ Len(b) = Len(q) - k
      /\ \A i \in 1..(Len(q) - k) : b[i] = q[k + i]
  <2>1. k + 1 \in Int /\ Len(q) \in Int /\ \A i \in (k + 1)..Len(q) : q[i] \in Tasks
    BY <1>1, <1>2
  <2>2. /\ SubSeq(q, k + 1, Len(q)) \in Seq(Tasks)
        /\ Len(SubSeq(q, k + 1, Len(q))) = IF k + 1 <= Len(q) THEN Len(q) - (k + 1) + 1 ELSE 0
        /\ \A i \in 1..(Len(q) - (k + 1) + 1) :
              SubSeq(q, k + 1, Len(q))[i] = q[(k + 1) + i - 1]
    BY <2>1, SubSeqProperties
  <2>3. QED
    BY <2>2, <1>1, <1>2
<1>6. Dequeue(q, t) = a \o b
  BY DEF Dequeue, k
<1> DEFINE d == a \o b
<1> HIDE DEF a, b
<1>7. /\ d \in Seq(Tasks) /\ Len(d) = Len(q) - 1
      /\ \A i \in 1..(Len(q) - 1) : d[i] = IF i < k THEN q[i] ELSE q[i + 1]
  <2>1. /\ d \in Seq(Tasks) /\ Len(d) = Len(a) + Len(b)
        /\ \A i \in 1..(Len(a) + Len(b)) : d[i] = IF i <= Len(a) THEN a[i] ELSE b[i - Len(a)]
    BY <1>4, <1>5, ConcatProperties
  <2>2. Len(d) = Len(q) - 1
    BY <2>1, <1>1, <1>2, <1>4, <1>5
  <2>3. ASSUME NEW i \in 1..(Len(q) - 1)
        PROVE  d[i] = IF i < k THEN q[i] ELSE q[i + 1]
    <3>1. CASE i < k
      BY <3>1, <2>1, <1>1, <1>2, <1>4, <1>5
    <3>2. CASE ~(i < k)
      <4>1. d[i] = b[i - (k - 1)]
        BY <3>2, <2>1, <1>1, <1>2, <1>4, <1>5
      <4>2. i - (k - 1) \in 1..(Len(q) - k) /\ k + (i - (k - 1)) = i + 1
        BY <3>2, <1>1, <1>2
      <4> QED
        BY <3>2, <4>1, <4>2, <1>5
    <3> QED BY <3>1, <3>2
  <2> QED
    BY <2>1, <2>2, <2>3
<1> HIDE DEF d
<1>8. Distinct(d)
  BY <1>1, <1>2, <1>7 DEF Distinct
<1>9. ASSUME NEW u \in Tasks PROVE Queued(d, u) <=> Queued(q, u) /\ u # t
  <2>1. ASSUME Queued(d, u) PROVE Queued(q, u) /\ u # t
    <3>1. PICK i \in 1..Len(d) : d[i] = u
      BY <2>1 DEF Queued
    <3>2. CASE i < k
      BY <3>1, <3>2, <1>1, <1>2, <1>3, <1>7 DEF Queued
    <3>3. CASE ~(i < k)
      <4>1. i + 1 \in 1..Len(q) /\ q[i + 1] = u /\ i + 1 # k
        BY <3>1, <3>3, <1>1, <1>2, <1>7
      <4> QED BY <4>1, <1>3 DEF Queued
    <3> QED BY <3>2, <3>3
  <2>2. ASSUME Queued(q, u), u # t PROVE Queued(d, u)
    <3>1. PICK i \in 1..Len(q) : q[i] = u
      BY <2>2 DEF Queued
    <3>2. CASE i < k
      <4>1. i \in 1..Len(d) /\ d[i] = u
        BY <3>1, <3>2, <1>1, <1>2, <1>7
      <4> QED BY <4>1 DEF Queued
    <3>3. CASE i > k
      <4>1. i - 1 \in 1..Len(d) /\ d[i - 1] = u
        BY <3>1, <3>3, <1>1, <1>2, <1>7
      <4> QED BY <4>1 DEF Queued
    <3>4. i # k
      BY <3>1, <2>2, <1>1
    <3> QED BY <3>2, <3>3, <3>4, <1>1, <1>2
  <2> QED BY <2>1, <2>2
<1>10. QED
  BY <1>6, <1>7, <1>8, <1>9 DEF d
-----------------------------------------------------------------------------
(* The inductive invariant. *)
IInv ==
    /\ TypeOK /\ QueueExact /\ Conservation /\ NoOverAdmission /\ LiveInv

(* Pending and its cardinality. *)
LEMMA PendingFinite == IsFiniteSet(Pending) /\ Cardinality(Pending) \in Nat
  <1>1. Pending \in SUBSET Tasks
    BY DEF Pending
  <1>2. QED
    BY <1>1, SemAssumption, FS_Subset, FS_CardinalityType

(* What one turn of the loop needs, whether the task just queued up or     *)
(* comes back from schedule().                                             *)
TurnReady(t, s, q) ==
    /\ s \in Nat
    /\ q \in Seq(Tasks) /\ Distinct(q)
    /\ \A u \in Tasks : Queued(q, u) <=> (u \in Waiters \/ u = t)
    /\ count + s + Cardinality(Pending \ {t}) + leaked = avail
    /\ mode[t] # "try"
    /\ pc[t] \in {"enter", "woken"}

(* Leaving the loop keeps queue and tasks consistent, and if anybody is    *)
(* left resting, somebody is woken.                                        *)
LEMMA LeaveShape ==
    ASSUME TypeOK, LiveInv, NEW t \in Tasks, NEW r \in Results, NEW s, NEW q,
           TurnReady(t, s, q), Leave(t, r, q)
    PROVE  /\ queue' \in Seq(Tasks) /\ pc' \in [Tasks -> PCs] /\ mode' \in [Tasks -> Modes]
           /\ sig' \in [Tasks -> BOOLEAN] /\ expired' \in [Tasks -> BOOLEAN]
           /\ ret' \in [Tasks -> Results]
           /\ QueueExact'
           /\ Pending' = Pending \ {t}
           /\ Resting' # {} => Woken' # {}
           /\ \A u \in Waiters' : mode'[u] # "try"
<1> DEFINE rest == Dequeue(q, t)
           p == WakeUp(rest, pc)
<1>1. /\ queue' = rest
      /\ pc' = [p EXCEPT ![t] = "idle"]
      /\ mode' = [mode EXCEPT ![t] = "wait"]
      /\ sig' = [sig EXCEPT ![t] = FALSE]
      /\ expired' = [expired EXCEPT ![t] = FALSE]
      /\ ret' = [ret EXCEPT ![t] = r]
  BY DEF Leave, Return
<1>2. /\ rest \in Seq(Tasks) /\ Distinct(rest)
      /\ \A u \in Tasks : Queued(rest, u) <=> (u \in Waiters /\ u # t)
  <2>1. Queued(q, t)
    BY DEF TurnReady
  <2>2. /\ rest \in Seq(Tasks) /\ Distinct(rest)
        /\ \A u \in Tasks : Queued(rest, u) <=> Queued(q, u) /\ u # t
    BY <2>1, DequeueShape DEF TurnReady
  <2>3. QED
    BY <2>2 DEF TurnReady
<1>3. /\ p \in [Tasks -> PCs]
      /\ \A u \in Tasks : \/ p[u] = pc[u]
                          \/ pc[u] \in {"sched", "asleep"} /\ p[u] = "woken"
  BY WakeUpShape DEF TypeOK
<1>h. pc[t] \in {"enter", "woken"}
  BY DEF TurnReady
<1> HIDE DEF rest, p
<1>4. /\ queue' \in Seq(Tasks) /\ pc' \in [Tasks -> PCs] /\ mode' \in [Tasks -> Modes]
      /\ sig' \in [Tasks -> BOOLEAN] /\ expired' \in [Tasks -> BOOLEAN]
      /\ ret' \in [Tasks -> Results]
  BY <1>1, <1>2, <1>3 DEF TypeOK, PCs, Modes
<1>5. \A u \in Tasks : pc'[u] = IF u = t THEN "idle" ELSE p[u]
  BY <1>1, <1>3
<1>6. Waiters' = Waiters \ {t}
  BY <1>3, <1>5 DEF Waiters
<1>7. QueueExact'
  BY <1>1, <1>2, <1>6 DEF QueueExact, Queued, Distinct, Waiters
<1>8. Pending' = Pending \ {t}
  BY <1>3, <1>5 DEF Pending
<1>9. ASSUME Resting' # {} PROVE Woken' # {}
  <2>1. PICK u \in Tasks : pc'[u] \in {"sched", "asleep"}
    BY <1>9 DEF Resting
  <2>2. u # t /\ pc[u] \in {"sched", "asleep"}
    BY <2>1, <1>3, <1>5
  <2>3. PICK k \in 1..Len(rest) : rest[k] = u
    BY <2>2, <1>2 DEF Waiters, Queued
  <2>4. PICK v \in Tasks : pc[v] \in {"sched", "asleep"} /\ p[v] = "woken"
    BY <2>2, <2>3, <1>2, WakeUpHits DEF TypeOK, p
  <2>5. v # t
    BY <2>4, <1>h
  <2>6. pc'[v] = "woken"
    BY <2>4, <2>5, <1>5
  <2> QED BY <2>6 DEF Woken
<1>10. \A u \in Waiters' : mode'[u] # "try"
  BY <1>1, <1>6 DEF LiveInv, TypeOK, Waiters
<1>11. QED
  BY <1>4, <1>7, <1>8, <1>9, <1>10

(* One turn of the loop keeps the invariant. *)
LEMMA TurnPreserves ==
    ASSUME IInv, NEW t \in Tasks, NEW s, NEW q, TurnReady(t, s, q), Turn(t, s, q),
           UNCHANGED <<destroyed, destroying, waking, leaked>>
    PROVE  IInv'
<1> DEFINE n == Cardinality(Pending \ {t})
<1>1. n \in Nat
  BY PendingFinite, FS_RemoveElement, FS_CardinalityType
<1>2. /\ s \in Nat /\ count \in Int /\ avail \in Int /\ leaked \in Nat /\ avail >= 0
      /\ count + s + n + leaked = avail
  BY DEF IInv, TypeOK, TurnReady, NoOverAdmission
<1>3. TypeOK /\ LiveInv
  BY DEF IInv
<1>u. destroyed' = destroyed /\ destroying' = destroying /\ waking' = waking /\ leaked' = leaked
  OBVIOUS
<1> HIDE DEF n
<1>4. CASE TurnRemoved(t, s, q)
  <2>1. Leave(t, "EIDRM", q) /\ destroyed /\ sleepers' = s /\ count' = count /\ avail' = avail
    BY <1>4 DEF TurnRemoved
  <2>2. /\ queue' \in Seq(Tasks) /\ pc' \in [Tasks -> PCs] /\ mode' \in [Tasks -> Modes]
        /\ sig' \in [Tasks -> BOOLEAN] /\ expired' \in [Tasks -> BOOLEAN]
        /\ ret' \in [Tasks -> Results]
        /\ QueueExact' /\ Pending' = Pending \ {t}
        /\ \A u \in Waiters' : mode'[u] # "try"
    BY <2>1, <1>3, LeaveShape DEF Results
  <2>3. TypeOK'
    BY <2>1, <2>2, <1>2, <1>3, <1>u DEF TypeOK
  <2>4. Conservation' /\ NoOverAdmission'
    BY <2>1, <2>2, <1>1, <1>2, <1>u DEF Conservation, NoOverAdmission, n
  <2>5. LiveInv'
    BY <2>1, <2>2, <1>u DEF LiveInv
  <2> QED BY <2>2, <2>3, <2>4, <2>5 DEF IInv
<1>5. CASE TurnGiveUp(t, s, q)
  <2>0. PICK r \in Results : Leave(t, r, q)
    BY <1>5 DEF TurnGiveUp, Results
  <2>1. ~destroyed /\ sleepers' = 0 /\ count' = count + s /\ avail' = avail
    BY <1>5 DEF TurnGiveUp
  <2>2. /\ queue' \in Seq(Tasks) /\ pc' \in [Tasks -> PCs] /\ mode' \in [Tasks -> Modes]
        /\ sig' \in [Tasks -> BOOLEAN] /\ expired' \in [Tasks -> BOOLEAN]
        /\ ret' \in [Tasks -> Results]
        /\ QueueExact' /\ Pending' = Pending \ {t}
        /\ Resting' # {} => Woken' # {}
        /\ \A u \in Waiters' : mode'[u] # "try"
    BY <2>0, <1>3, LeaveShape
  <2>3. TypeOK'
    BY <2>1, <2>2, <1>2, <1>3, <1>u DEF TypeOK
  <2>4. Conservation' /\ NoOverAdmission'
    BY <2>1, <2>2, <1>1, <1>2, <1>u DEF Conservation, NoOverAdmission, n
  <2>5. LiveInv'
    BY <2>1, <2>2, <1>3, <1>u DEF LiveInv
  <2> QED BY <2>2, <2>3, <2>4, <2>5 DEF IInv
<1>6. CASE TurnTake(t, s, q)
  <2>1. /\ ~destroyed /\ sleepers' = 0 /\ count + s - 1 >= 0
        /\ count' = count + s - 1 /\ avail' = avail - 1 /\ Leave(t, "ok", q)
    BY <1>6 DEF TurnTake
  <2>2. /\ queue' \in Seq(Tasks) /\ pc' \in [Tasks -> PCs] /\ mode' \in [Tasks -> Modes]
        /\ sig' \in [Tasks -> BOOLEAN] /\ expired' \in [Tasks -> BOOLEAN]
        /\ ret' \in [Tasks -> Results]
        /\ QueueExact' /\ Pending' = Pending \ {t}
        /\ Resting' # {} => Woken' # {}
        /\ \A u \in Waiters' : mode'[u] # "try"
    BY <2>1, <1>3, LeaveShape DEF Results
  <2>3. TypeOK'
    BY <2>1, <2>2, <1>2, <1>3, <1>u DEF TypeOK
  <2>4. Conservation'
    BY <2>1, <2>2, <1>1, <1>2, <1>u DEF Conservation, n
  <2>6. NoOverAdmission'
    BY <2>1, <1>1, <1>2 DEF NoOverAdmission
  <2>5. LiveInv'
    BY <2>1, <2>2, <1>3, <1>u DEF LiveInv
  <2> QED BY <2>2, <2>3, <2>4, <2>5, <2>6 DEF IInv
<1>7. CASE TurnSleep(t, s, q)
  <2>1. /\ ~destroyed /\ sleepers' = 1 /\ count + s - 1 < 0 /\ count' = count + s - 1
        /\ queue' = q /\ pc' = [pc EXCEPT ![t] = "sched"] /\ avail' = avail
        /\ mode' = mode /\ sig' = sig /\ expired' = expired /\ ret' = ret
    BY <1>7 DEF TurnSleep
  <2>2. TypeOK'
    BY <2>1, <1>2, <1>3, <1>u DEF TypeOK, PCs, TurnReady
  <2>3. \A u \in Tasks : pc'[u] = IF u = t THEN "sched" ELSE pc[u]
    BY <2>1, <1>3 DEF TypeOK
  <2>4. Pending' = Pending \ {t} /\ Waiters' = Waiters \cup {t}
    BY <2>3 DEF Pending, Waiters
  <2>5. QueueExact'
    BY <2>1, <2>4 DEF QueueExact, TurnReady, Queued, Distinct, Waiters
  <2>6. Conservation' /\ NoOverAdmission'
    BY <2>1, <2>4, <1>1, <1>2, <1>u DEF Conservation, NoOverAdmission, n
  <2>7. LiveInv'
    BY <2>1, <2>4, <1>2, <1>3, <1>u DEF LiveInv, TurnReady
  <2> QED BY <2>2, <2>5, <2>6, <2>7 DEF IInv
<1>8. QED
  BY <1>4, <1>5, <1>6, <1>7 DEF Turn
(* Queueing up prepares a turn of the loop. *)
LEMMA EnterReady ==
    ASSUME IInv, NEW t \in Tasks, pc[t] = "enter", mode[t] # "try"
    PROVE  TurnReady(t, sleepers + 1, Append(queue, t))
<1> DEFINE q == Append(queue, t)
<1>1. /\ sleepers \in Nat /\ count \in Int /\ avail \in Int /\ leaked \in Nat
      /\ queue \in Seq(Tasks) /\ Len(queue) \in Nat
  BY LenProperties DEF IInv, TypeOK
<1>2. /\ q \in Seq(Tasks) /\ Len(q) = Len(queue) + 1
      /\ \A i \in 1..Len(queue) : q[i] = queue[i]
      /\ q[Len(queue) + 1] = t
  BY <1>1, AppendProperties
<1>3. t \in Pending /\ t \notin Waiters
  BY DEF Pending, Waiters
<1>4. /\ \A u \in Tasks : u \in Waiters <=> \E i \in 1..Len(queue) : queue[i] = u
      /\ \A i, j \in 1..Len(queue) : queue[i] = queue[j] => i = j
  BY DEF IInv, QueueExact
<1> HIDE DEF q
<1>5. \A i \in 1..Len(queue) : queue[i] # t
  BY <1>3, <1>4
<1>6. Distinct(q)
  BY <1>1, <1>2, <1>4, <1>5 DEF Distinct
<1>7. ASSUME NEW u \in Tasks PROVE Queued(q, u) <=> (u \in Waiters \/ u = t)
  <2>1. ASSUME Queued(q, u) PROVE u \in Waiters \/ u = t
    BY <2>1, <1>1, <1>2, <1>4 DEF Queued
  <2>2. ASSUME u \in Waiters PROVE Queued(q, u)
    <3>1. PICK i \in 1..Len(queue) : queue[i] = u
      BY <2>2, <1>4
    <3>2. i \in 1..Len(q) /\ q[i] = u
      BY <3>1, <1>1, <1>2
    <3> QED BY <3>2 DEF Queued
  <2>3. Queued(q, t)
    <3>1. Len(queue) + 1 \in 1..Len(q)
      BY <1>1, <1>2
    <3> QED BY <3>1, <1>2 DEF Queued
  <2> QED BY <2>1, <2>2, <2>3
<1>8. Cardinality(Pending \ {t}) = Cardinality(Pending) - 1
  BY <1>3, PendingFinite, FS_RemoveElement
<1>9. count + (sleepers + 1) + Cardinality(Pending \ {t}) + leaked = avail
  BY <1>1, <1>8, PendingFinite DEF IInv, Conservation
<1>10. QED
  BY <1>1, <1>2, <1>6, <1>7, <1>9 DEF TurnReady, q

(* Coming back from schedule() prepares a turn of the loop. *)
LEMMA RetryReady ==
    ASSUME IInv, NEW t \in Tasks, pc[t] = "woken"
    PROVE  TurnReady(t, sleepers, queue)
<1>1. t \in Waiters /\ t \notin Pending
  BY DEF Pending, Waiters
<1>2. Pending \ {t} = Pending
  BY <1>1
<1>3. count + sleepers + Cardinality(Pending \ {t}) + leaked = avail
  BY <1>2 DEF IInv, Conservation
<1>4. /\ \A u \in Tasks : u \in Waiters <=> \E i \in 1..Len(queue) : queue[i] = u
      /\ Distinct(queue)
  BY DEF IInv, QueueExact, Distinct
<1>5. QED
  BY <1>1, <1>3, <1>4 DEF TurnReady, IInv, TypeOK, LiveInv, Queued

(* A step that only turns resting tasks into woken ones, and leaves none   *)
(* resting beside no woken one, keeps the invariant.                       *)
LEMMA WakePreserves ==
    ASSUME IInv, pc' \in [Tasks -> PCs],
           \A u \in Tasks : \/ pc'[u] = pc[u]
                            \/ pc[u] \in {"sched", "asleep"} /\ pc'[u] = "woken",
           (Resting' # {} => Woken' # {}) \/ (pc' = pc /\ waking' = waking),
           UNCHANGED <<count, sleepers, queue, destroyed, avail, leaked, mode, ret>>,
           destroying' \in BOOLEAN, waking' \in Nat,
           sig' \in [Tasks -> BOOLEAN], expired' \in [Tasks -> BOOLEAN]
    PROVE  IInv'
<1>1. TypeOK'
  BY DEF IInv, TypeOK
<1>2. Pending' = Pending /\ Waiters' = Waiters
  BY DEF Pending, Waiters
<1>3. QueueExact'
  BY <1>2 DEF IInv, QueueExact
<1>4. Conservation' /\ NoOverAdmission'
  BY <1>2 DEF IInv, Conservation, NoOverAdmission
<1>5. LiveInv'
  <2>1. CASE Resting' # {} => Woken' # {}
    BY <2>1, <1>2 DEF IInv, LiveInv
  <2>2. CASE pc' = pc /\ waking' = waking
    BY <2>2, <1>2 DEF IInv, LiveInv, Resting, Woken
  <2> QED BY <2>1, <2>2
<1>6. QED
  BY <1>1, <1>3, <1>4, <1>5 DEF IInv
(* A resting task sits on the queue. *)
LEMMA RestingQueued ==
    ASSUME IInv, NEW u \in Tasks, pc[u] \in {"sched", "asleep"}
    PROVE  \E k \in 1..Len(queue) : queue[k] = u
  BY DEF IInv, QueueExact, Waiters

(* wake_up leaves nobody resting beside no woken task. *)
LEMMA WakeUpLeaves ==
    ASSUME IInv, Resting # {}
    PROVE  \E t \in Tasks : pc[t] \in {"sched", "asleep"} /\ WakeUp(queue, pc)[t] = "woken"
<1>1. PICK u \in Tasks : pc[u] \in {"sched", "asleep"}
  BY DEF Resting
<1>2. PICK k \in 1..Len(queue) : queue[k] = u
  BY <1>1, RestingQueued
<1>3. queue \in Seq(Tasks) /\ pc \in [Tasks -> PCs]
  BY DEF IInv, TypeOK
<1>4. QED
  BY <1>1, <1>2, <1>3, WakeUpHits

(* The initial state. *)
LEMMA InitIInv == Init => IInv
<1> SUFFICES ASSUME Init PROVE IInv
  OBVIOUS
<1>1. Pending = {} /\ Waiters = {} /\ Resting = {}
  BY DEF Init, Pending, Waiters, Resting
<1>2. TypeOK
  <2>1. queue \in Seq(Tasks)
    BY EmptySeq DEF Init
  <2>2. /\ pc \in [Tasks -> PCs] /\ mode \in [Tasks -> Modes]
        /\ sig \in [Tasks -> BOOLEAN] /\ expired \in [Tasks -> BOOLEAN]
        /\ ret \in [Tasks -> Results]
    BY DEF Init, PCs, Modes, Results
  <2>3. /\ count \in Int /\ sleepers \in Nat /\ waking \in Nat
        /\ avail \in Int /\ leaked \in Nat
    BY SemAssumption DEF Init
  <2>4. destroyed \in BOOLEAN /\ destroying \in BOOLEAN
    BY DEF Init
  <2> QED BY <2>1, <2>2, <2>3, <2>4 DEF TypeOK
<1>3. Len(queue) = 0
  BY EmptySeq DEF Init
<1>4. QueueExact
  BY <1>1, <1>3 DEF QueueExact
<1>5. Conservation /\ NoOverAdmission
  <2>1. Cardinality(Pending) = 0
    BY <1>1, FS_EmptySet
  <2> QED BY <2>1, SemAssumption DEF Conservation, NoOverAdmission, Init
<1>6. LiveInv
  BY <1>1 DEF LiveInv, Init
<1>7. QED
  BY <1>2, <1>4, <1>5, <1>6 DEF IInv

(* Every step keeps the invariant. *)
LEMMA NextIInv == IInv /\ [Next]_vars => IInv'
<1> SUFFICES ASSUME IInv, [Next]_vars PROVE IInv'
  OBVIOUS
<1>t. TypeOK
  BY DEF IInv
<1>c. Cardinality(Pending) \in Nat /\ IsFiniteSet(Pending)
  BY PendingFinite
<1>1. ASSUME NEW t \in Tasks, DownFast(t) PROVE IInv'
  <2>1. pc' = pc /\ mode' = mode /\ waking' = waking /\ destroyed' = destroyed
        /\ sleepers' = sleepers /\ leaked' = leaked /\ queue' = queue
    BY <1>1 DEF DownFast
  <2>2. count - 1 >= 0 /\ count' = count - 1 /\ avail' = avail - 1
    BY <1>1 DEF DownFast
  <2>3. TypeOK'
    BY <1>1, <1>t DEF DownFast, TypeOK, Results
  <2>4. Pending' = Pending /\ Waiters' = Waiters /\ Resting' = Resting /\ Woken' = Woken
    BY <2>1 DEF Pending, Waiters, Resting, Woken
  <2>5. QueueExact'
    BY <2>1, <2>4 DEF IInv, QueueExact
  <2>6. Conservation'
    BY <2>1, <2>2, <2>4, <1>c, <1>t DEF IInv, Conservation, TypeOK
  <2>7. NoOverAdmission'
    BY <2>2, <1>c, <1>t DEF IInv, Conservation, NoOverAdmission, TypeOK
  <2>8. LiveInv'
    BY <2>1, <2>2, <2>4, <1>t DEF IInv, LiveInv, TypeOK
  <2> QED BY <2>3, <2>5, <2>6, <2>7, <2>8 DEF IInv
<1>2. ASSUME NEW t \in Tasks, NEW m \in Modes, DownSlow(t, m) PROVE IInv'
  <2>1. /\ waking' = waking /\ destroyed' = destroyed /\ avail' = avail
        /\ sleepers' = sleepers /\ leaked' = leaked /\ queue' = queue /\ count' = count - 1
        /\ pc[t] = "idle" /\ pc' = [pc EXCEPT ![t] = "slow"]
        /\ mode' = [mode EXCEPT ![t] = m]
    BY <1>2 DEF DownSlow
  <2>2. TypeOK'
    BY <1>2, <1>t DEF DownSlow, TypeOK, Results, PCs
  <2>3. \A u \in Tasks : pc'[u] = IF u = t THEN "slow" ELSE pc[u]
    BY <2>1, <1>t DEF TypeOK
  <2>4. /\ Pending' = Pending \cup {t} /\ t \notin Pending /\ Waiters' = Waiters
        /\ Resting' = Resting /\ Woken' = Woken
    BY <2>1, <2>3 DEF Pending, Waiters, Resting, Woken
  <2>5. Cardinality(Pending') = Cardinality(Pending) + 1
    BY <2>4, <1>c, FS_AddElement
  <2>6. QueueExact'
    BY <2>1, <2>4 DEF IInv, QueueExact
  <2>7. Conservation' /\ NoOverAdmission'
    BY <2>1, <2>5, <1>c, <1>t DEF IInv, Conservation, NoOverAdmission, TypeOK
  <2>8. LiveInv'
    BY <2>1, <2>4, <1>t DEF IInv, LiveInv, TypeOK, Waiters
  <2> QED BY <2>2, <2>6, <2>7, <2>8 DEF IInv
<1>3. ASSUME NEW t \in Tasks, CheckDestroy(t) PROVE IInv'
  <2>1. /\ waking' = waking /\ destroyed' = destroyed /\ avail' = avail
        /\ sleepers' = sleepers /\ queue' = queue /\ count' = count
        /\ pc[t] = "slow"
    BY <1>3 DEF CheckDestroy
  <2>2. TypeOK'
    <3>1. /\ pc' \in [Tasks -> PCs] /\ mode' \in [Tasks -> Modes]
          /\ sig' \in [Tasks -> BOOLEAN] /\ expired' \in [Tasks -> BOOLEAN]
          /\ ret' \in [Tasks -> Results] /\ leaked' \in Nat
      <4>1. CASE destroyed
        <5>1. /\ pc' = [pc EXCEPT ![t] = "idle"] /\ ret' = [ret EXCEPT ![t] = "EIDRM"]
              /\ mode' = [mode EXCEPT ![t] = "wait"] /\ leaked' = leaked + 1
              /\ sig' = [sig EXCEPT ![t] = FALSE] /\ expired' = [expired EXCEPT ![t] = FALSE]
          BY <4>1, <1>3 DEF CheckDestroy, Return
        <5> QED BY <5>1, <1>t DEF TypeOK, PCs, Modes, Results
      <4>2. CASE ~destroyed
        <5>1. /\ pc' = [pc EXCEPT ![t] = "enter"]
              /\ mode' = mode /\ sig' = sig /\ expired' = expired /\ ret' = ret
              /\ leaked' = leaked
          BY <4>2, <1>3 DEF CheckDestroy
        <5> QED BY <5>1, <1>t DEF TypeOK, PCs
      <4> QED BY <4>1, <4>2
    <3>2. destroying' = destroying
      BY <1>3 DEF CheckDestroy
    <3> QED BY <3>1, <3>2, <2>1, <1>t DEF TypeOK
  <2>3. CASE destroyed
    <3>1. leaked' = leaked + 1 /\ pc' = [pc EXCEPT ![t] = "idle"]
          /\ mode' = [mode EXCEPT ![t] = "wait"]
      BY <1>3, <2>3 DEF CheckDestroy, Return
    <3>2. \A u \in Tasks : pc'[u] = IF u = t THEN "idle" ELSE pc[u]
      BY <3>1, <1>t DEF TypeOK
    <3>3. Pending' = Pending \ {t} /\ t \in Pending /\ Waiters' = Waiters
      BY <2>1, <3>2 DEF Pending, Waiters
    <3>4. Cardinality(Pending') = Cardinality(Pending) - 1
      BY <3>3, <1>c, FS_RemoveElement
    <3>5. QueueExact'
      BY <2>1, <3>3 DEF IInv, QueueExact
    <3>6. Conservation' /\ NoOverAdmission'
      BY <2>1, <3>1, <3>4, <1>c, <1>t DEF IInv, Conservation, NoOverAdmission, TypeOK
    <3>7. LiveInv'
      BY <2>1, <2>3, <3>1, <3>3, <1>t DEF IInv, LiveInv, TypeOK, Waiters
    <3> QED BY <2>2, <3>5, <3>6, <3>7 DEF IInv
  <2>4. CASE ~destroyed
    <3>1. leaked' = leaked /\ pc' = [pc EXCEPT ![t] = "enter"] /\ mode' = mode
      BY <1>3, <2>4 DEF CheckDestroy
    <3>2. \A u \in Tasks : pc'[u] = IF u = t THEN "enter" ELSE pc[u]
      BY <3>1, <1>t DEF TypeOK
    <3>3. Pending' = Pending /\ Waiters' = Waiters /\ Resting' = Resting /\ Woken' = Woken
      BY <2>1, <3>2 DEF Pending, Waiters, Resting, Woken
    <3>4. QueueExact' /\ Conservation' /\ NoOverAdmission' /\ LiveInv'
      BY <2>1, <3>1, <3>3 DEF IInv, QueueExact, Conservation, NoOverAdmission, LiveInv
    <3> QED BY <2>2, <3>4 DEF IInv
  <2> QED BY <2>3, <2>4
<1>4. ASSUME NEW t \in Tasks, TryFail(t) PROVE IInv'
  <2> DEFINE p == IF count + sleepers + 1 >= 0 THEN WakeUp(queue, pc) ELSE pc
  <2>1. /\ waking' = waking /\ destroyed' = destroyed /\ avail' = avail
        /\ leaked' = leaked /\ queue' = queue
        /\ sleepers' = 0 /\ count' = count + sleepers + 1
        /\ pc[t] = "enter" /\ pc' = [p EXCEPT ![t] = "idle"]
        /\ mode' = [mode EXCEPT ![t] = "wait"]
    BY <1>4 DEF TryFail, Return
  <2>2. /\ p \in [Tasks -> PCs]
        /\ \A u \in Tasks : \/ p[u] = pc[u]
                            \/ pc[u] \in {"sched", "asleep"} /\ p[u] = "woken"
    BY WakeUpShape, <1>t DEF TypeOK
  <2>3. Resting # {} /\ count + sleepers + 1 >= 0 =>
           \E u \in Tasks : pc[u] \in {"sched", "asleep"} /\ p[u] = "woken"
    BY WakeUpLeaves
  <2> HIDE DEF p
  <2>4. TypeOK'
    <3>1. pc' \in [Tasks -> PCs]
      BY <2>1, <2>2 DEF PCs
    <3> QED
      BY <1>4, <1>t, <2>1, <3>1 DEF TryFail, Return, TypeOK, Results, Modes
  <2>5. \A u \in Tasks : pc'[u] = IF u = t THEN "idle" ELSE p[u]
    BY <2>1, <2>2
  <2>6. Pending' = Pending \ {t} /\ t \in Pending /\ Waiters' = Waiters
    BY <2>1, <2>2, <2>5 DEF Pending, Waiters
  <2>7. Cardinality(Pending') = Cardinality(Pending) - 1
    BY <2>6, <1>c, FS_RemoveElement
  <2>8. QueueExact'
    BY <2>1, <2>6 DEF IInv, QueueExact
  <2>9. Conservation' /\ NoOverAdmission'
    BY <2>1, <2>7, <1>c, <1>t DEF IInv, Conservation, NoOverAdmission, TypeOK
  <2>10. Resting' # {} /\ count' >= 0 => Woken' # {}
    <3>1. Resting' # {} => Resting # {}
      BY <2>2, <2>5 DEF Resting
    <3>2. ASSUME NEW u \in Tasks, pc[u] \in {"sched", "asleep"}, p[u] = "woken"
          PROVE  Woken' # {}
      BY <3>2, <2>1, <2>5 DEF Woken
    <3> QED BY <3>1, <3>2, <2>1, <2>3
  <2>11. LiveInv'
    BY <2>1, <2>4, <2>6, <2>10, <1>t DEF IInv, LiveInv, TypeOK, Waiters
  <2> QED BY <2>4, <2>8, <2>9, <2>11 DEF IInv
<1>5. ASSUME NEW t \in Tasks, Enter(t) PROVE IInv'
  <2>1. TurnReady(t, sleepers + 1, Append(queue, t))
    BY <1>5, EnterReady DEF Enter
  <2> QED BY <1>5, <2>1, TurnPreserves DEF Enter
<1>6. ASSUME NEW t \in Tasks, Retry(t) PROVE IInv'
  <2>1. TurnReady(t, sleepers, queue)
    BY <1>6, RetryReady DEF Retry
  <2> QED BY <1>6, <2>1, TurnPreserves DEF Retry
<1>7. ASSUME NEW t \in Tasks, Schedule(t) PROVE IInv'
  <2>1. /\ pc[t] = "sched"
        /\ pc' = [pc EXCEPT ![t] = IF sig[t] THEN "woken" ELSE "asleep"]
        /\ UNCHANGED <<semVars, mode, sig, expired, ret>>
    BY <1>7 DEF Schedule
  <2>2. \A u \in Tasks : pc'[u] = IF u = t THEN IF sig[t] THEN "woken" ELSE "asleep" ELSE pc[u]
    BY <2>1, <1>t DEF TypeOK
  <2>3. TypeOK'
    BY <2>1, <1>t DEF TypeOK, PCs, semVars
  <2>4. Pending' = Pending /\ Waiters' = Waiters
    BY <2>1, <2>2 DEF Pending, Waiters
  <2>5. (Resting' # {} /\ Woken' = {}) => (Resting # {} /\ Woken = {})
    <3>1. \A u \in Tasks : pc[u] = "woken" => pc'[u] = "woken"
      BY <2>1, <2>2
    <3> QED BY <2>1, <3>1 DEF Resting, Woken
  <2>6. QueueExact' /\ Conservation' /\ NoOverAdmission' /\ LiveInv'
    BY <2>1, <2>4, <2>5 DEF IInv, QueueExact, Conservation, NoOverAdmission, LiveInv, semVars
  <2> QED BY <2>3, <2>6 DEF IInv
<1>8. CASE Up
  <2>1. pc' = pc /\ mode' = mode /\ destroyed' = destroyed /\ sleepers' = sleepers
        /\ leaked' = leaked /\ queue' = queue /\ count' = count + 1 /\ avail' = avail + 1
        /\ waking' = IF count + 1 <= 0 THEN waking + 1 ELSE waking
    BY <1>8 DEF Up, taskVars
  <2>2. TypeOK'
    BY <1>8, <1>t DEF Up, taskVars, TypeOK
  <2>3. Pending' = Pending /\ Waiters' = Waiters /\ Resting' = Resting /\ Woken' = Woken
    BY <2>1 DEF Pending, Waiters, Resting, Woken
  <2>4. QueueExact'
    BY <2>1, <2>3 DEF IInv, QueueExact
  <2>5. Conservation' /\ NoOverAdmission'
    BY <2>1, <2>3, <1>c, <1>t DEF IInv, Conservation, NoOverAdmission, TypeOK
  <2>6. LiveInv'
    BY <2>1, <2>3, <1>t DEF IInv, LiveInv, TypeOK
  <2> QED BY <2>2, <2>4, <2>5, <2>6 DEF IInv
<1>9. CASE UpWake
  <2>1. /\ waking > 0 /\ waking' = waking - 1 /\ pc' = WakeUp(queue, pc)
        /\ UNCHANGED <<count, sleepers, queue, destroyed, destroying, avail, leaked,
                       mode, sig, expired, ret>>
    BY <1>9 DEF UpWake
  <2>2. /\ pc' \in [Tasks -> PCs]
        /\ \A u \in Tasks : \/ pc'[u] = pc[u]
                            \/ pc[u] \in {"sched", "asleep"} /\ pc'[u] = "woken"
    BY <2>1, WakeUpShape, <1>t DEF TypeOK
  <2>3. Resting' # {} => Woken' # {}
    <3>1. Resting' # {} => Resting # {}
      BY <2>2 DEF Resting
    <3> QED BY <3>1, <2>1, WakeUpLeaves DEF Woken
  <2>4. waking' \in Nat
    BY <2>1, <1>t DEF TypeOK
  <2> QED BY <2>1, <2>2, <2>3, <2>4, <1>t, WakePreserves DEF TypeOK
<1>10. CASE Destroy
  <2>1. pc' = pc /\ mode' = mode /\ destroyed' = TRUE
        /\ UNCHANGED <<count, sleepers, queue, waking, avail, leaked>>
    BY <1>10 DEF Destroy, taskVars
  <2>2. TypeOK'
    BY <1>10, <1>t DEF Destroy, taskVars, TypeOK
  <2>3. Pending' = Pending /\ Waiters' = Waiters
    BY <2>1 DEF Pending, Waiters
  <2>4. QueueExact' /\ Conservation' /\ NoOverAdmission' /\ LiveInv'
    BY <2>1, <2>3 DEF IInv, QueueExact, Conservation, NoOverAdmission, LiveInv
  <2> QED BY <2>2, <2>4 DEF IInv
<1>11. CASE DestroyWake
  <2>1. /\ destroying' = FALSE /\ pc' = WakeUpAll(queue, pc)
        /\ UNCHANGED <<count, sleepers, queue, destroyed, waking, avail, leaked,
                       mode, sig, expired, ret>>
    BY <1>11 DEF DestroyWake
  <2>2. /\ pc' \in [Tasks -> PCs]
        /\ \A u \in Tasks : \/ pc'[u] = pc[u]
                            \/ pc[u] \in {"sched", "asleep"} /\ pc'[u] = "woken"
    BY <2>1, WakeUpAllShape, <1>t DEF TypeOK
  <2>3. Resting' = {}
    <3>1. \A u \in Tasks : pc[u] \in {"sched", "asleep"} => pc'[u] = "woken"
      BY <2>1, RestingQueued DEF WakeUpAll
    <3> QED BY <3>1, <2>2 DEF Resting
  <2> QED BY <2>1, <2>2, <2>3, <1>t, WakePreserves DEF TypeOK
<1>12. ASSUME NEW t \in Tasks, Signal(t) \/ Expire(t) PROVE IInv'
  <2>1. /\ pc' = [pc EXCEPT ![t] = IF @ \in {"sched", "asleep"} THEN "woken" ELSE @]
        /\ UNCHANGED <<semVars, mode, ret>>
    BY <1>12 DEF Signal, Expire
  <2>2. sig' \in [Tasks -> BOOLEAN] /\ expired' \in [Tasks -> BOOLEAN]
    BY <1>12, <1>t DEF Signal, Expire, TypeOK
  <2>3. /\ pc' \in [Tasks -> PCs]
        /\ \A u \in Tasks : pc'[u] = IF u = t /\ pc[u] \in {"sched", "asleep"} THEN "woken"
                                     ELSE pc[u]
    BY <2>1, <1>t DEF TypeOK, PCs
  <2>4. (Resting' # {} => Woken' # {}) \/ pc' = pc
    <3>1. CASE pc[t] \in {"sched", "asleep"}
      BY <3>1, <2>3 DEF Woken
    <3>2. CASE pc[t] \notin {"sched", "asleep"}
      BY <3>2, <2>1, <1>t DEF TypeOK
    <3> QED BY <3>1, <3>2
  <2> QED BY <2>1, <2>2, <2>3, <2>4, <1>t, WakePreserves DEF TypeOK, semVars
<1>13. CASE UNCHANGED vars
  BY <1>13 DEF vars, semVars, taskVars, IInv, TypeOK, QueueExact, Conservation,
       NoOverAdmission, LiveInv, Pending, Waiters, Resting, Woken
<1>14. QED
  BY <1>1, <1>2, <1>3, <1>4, <1>5, <1>6, <1>7, <1>8, <1>9, <1>10, <1>11, <1>12, <1>13
  DEF Next, Run
-----------------------------------------------------------------------------
(* The theorems.                                                           *)

(* The inductive invariant holds throughout. *)
THEOREM Invariance == Spec => []IInv
  BY InitIInv, NextIInv, PTL DEF Spec

(* Every variable keeps its type; in particular sleepers never goes below  *)
(* zero and the wait queue never holds anything but tasks.                 *)
THEOREM TypeCorrect == Spec => []TypeOK
<1>1. IInv => TypeOK
  BY DEF IInv
<1>2. QED
  BY <1>1, Invariance, PTL

(* Permits are conserved through fast path, slow path, trylock, timeout,   *)
(* signal and destruction (drvlib.c, _rtdm_sem_down/_rtdm_sem_timeddown).  *)
THEOREM PermitsConserved == Spec => []Conservation
<1>1. IInv => Conservation
  BY DEF IInv
<1>2. QED
  BY <1>1, Invariance, PTL

(* No more downs succeed than permits were put in. *)
THEOREM Admission == Spec => []NoOverAdmission
<1>1. IInv => NoOverAdmission
  BY DEF IInv
<1>2. QED
  BY <1>1, Invariance, PTL

(* The wait queue holds exactly the tasks inside the loop, each once. *)
THEOREM QueueCorrect == Spec => []QueueExact
<1>1. IInv => QueueExact
  BY DEF IInv
<1>2. QED
  BY <1>1, Invariance, PTL

(* No wake-up is lost: no task sleeps beside an available permit unless    *)
(* somebody is on the way who will look again.                             *)
THEOREM WakeupsNotLost == Spec => []NoLostWakeup
<1>1. IInv => NoLostWakeup
  <2> SUFFICES ASSUME IInv, avail > 0, ~destroyed, NEW t \in Tasks, pc[t] = "asleep",
                      ~(waking > 0), Pending = {}, \A u \in Tasks : pc[u] # "woken"
               PROVE  FALSE
    BY DEF NoLostWakeup
  <2>1. Resting # {} /\ Woken = {}
    BY DEF Resting, Woken
  <2>2. waking = 0
    BY DEF IInv, TypeOK
  <2>3. count < 0 /\ sleepers <= 1 /\ leaked = 0
    BY <2>1, <2>2 DEF IInv, LiveInv
  <2>4. Cardinality(Pending) = 0
    BY FS_EmptySet
  <2>5. QED
    BY <2>3, <2>4 DEF IInv, Conservation, TypeOK
<1>2. QED
  BY <1>1, Invariance, PTL
-----------------------------------------------------------------------------
(* RtdmSem implements CountingSem.                                         *)

(* The call in progress, as CountingSem sees it. *)
callBar == [t \in Tasks |-> IF pc[t] = "idle" THEN "none" ELSE mode[t]]

(* A step that keeps tasks inside their calls does not show above. *)
LEMMA CallUnchanged ==
    ASSUME TypeOK, pc' \in [Tasks -> PCs], mode' = mode,
           \A u \in Tasks : pc[u] = "idle" <=> pc'[u] = "idle"
    PROVE  callBar' = callBar
  BY DEF callBar

(* A wake_up keeps tasks inside their calls. *)
LEMMA WakeKeepsIdle ==
    ASSUME TypeOK, NEW q
    PROVE  /\ \A u \in Tasks : pc[u] = "idle" <=> WakeUp(q, pc)[u] = "idle"
           /\ \A u \in Tasks : pc[u] = "idle" <=> WakeUpAll(q, pc)[u] = "idle"
  BY DEF WakeUp, WakeUpAll

(* A return from a slow down ends the call of that task only. *)
LEMMA ReturnEndsCall ==
    ASSUME TypeOK, NEW t \in Tasks, NEW r, NEW p \in [Tasks -> PCs],
           \A u \in Tasks : pc[u] = "idle" <=> p[u] = "idle",
           Return(t, r, p)
    PROVE  /\ callBar' = [callBar EXCEPT ![t] = "none"]
           /\ ret' = [ret EXCEPT ![t] = r]
<1>1. /\ pc' = [p EXCEPT ![t] = "idle"] /\ mode' = [mode EXCEPT ![t] = "wait"]
      /\ ret' = [ret EXCEPT ![t] = r]
  BY DEF Return
<1>2. \A u \in Tasks : callBar'[u] = IF u = t THEN "none" ELSE callBar[u]
  BY <1>1 DEF callBar, TypeOK
<1>3. QED
  BY <1>1, <1>2 DEF callBar

(* One turn of the loop is a grant, a failure or invisible. *)
LEMMA TurnRefines ==
    ASSUME IInv, NEW t \in Tasks, NEW s, NEW q, TurnReady(t, s, q), Turn(t, s, q),
           destroyed' = destroyed
    PROVE  Abstract!Next \/ UNCHANGED Abstract!vars
<1> DEFINE p == WakeUp(Dequeue(q, t), pc)
<1>1. TypeOK
  BY DEF IInv
<1>2. p \in [Tasks -> PCs] /\ \A u \in Tasks : pc[u] = "idle" <=> p[u] = "idle"
  BY <1>1, WakeUpShape, WakeKeepsIdle DEF TypeOK
<1>3. callBar[t] = mode[t] /\ mode[t] \in {"wait", "timed"} 
  BY <1>1 DEF callBar, TurnReady, TypeOK, Modes
<1> HIDE DEF p
<1>4. ASSUME NEW r, Leave(t, r, q)
      PROVE  callBar' = [callBar EXCEPT ![t] = "none"] /\ ret' = [ret EXCEPT ![t] = r]
  <2>1. Return(t, r, p)
    BY <1>4 DEF Leave, p
  <2> QED BY <2>1, <1>1, <1>2, ReturnEndsCall
<1>5. CASE TurnRemoved(t, s, q)
  <2>1. Leave(t, "EIDRM", q) /\ destroyed /\ avail' = avail
    BY <1>5 DEF TurnRemoved
  <2>2. Abstract!Fail(t)
    BY <2>1, <1>3, <1>4 DEF Abstract!Fail, Abstract!MayFail, callBar
  <2> QED BY <2>2 DEF Abstract!Next
<1>6. CASE TurnGiveUp(t, s, q)
  <2>1. /\ ~destroyed /\ avail' = avail
        /\ Leave(t, IF sig[t] THEN "EINTR" ELSE "ETIMEDOUT", q)
        /\ ~sig[t] => mode[t] = "timed"
    BY <1>6 DEF TurnGiveUp, GaveUp
  <2>2. Abstract!Fail(t)
    <3>1. CASE sig[t]
      BY <3>1, <2>1, <1>3, <1>4 DEF Abstract!Fail, Abstract!MayFail, callBar
    <3>2. CASE ~sig[t]
      BY <3>2, <2>1, <1>3, <1>4 DEF Abstract!Fail, Abstract!MayFail, callBar
    <3> QED BY <3>1, <3>2
  <2> QED BY <2>2 DEF Abstract!Next
<1>7. CASE TurnTake(t, s, q)
  <2>1. Leave(t, "ok", q) /\ avail' = avail - 1 /\ count + s - 1 >= 0
    BY <1>7 DEF TurnTake
  <2>2. avail > 0
    <3> DEFINE n == Cardinality(Pending \ {t})
    <3>1. n \in Nat
      BY PendingFinite, FS_RemoveElement, FS_CardinalityType
    <3>2. /\ s \in Nat /\ count \in Int /\ leaked \in Nat /\ avail \in Int
          /\ count + s + n + leaked = avail
      BY <1>1 DEF TurnReady, TypeOK
    <3> HIDE DEF n
    <3> QED BY <3>1, <3>2, <2>1
  <2>3. Abstract!Grant(t)
    BY <2>1, <2>2, <1>4 DEF Abstract!Grant, callBar
  <2> QED BY <2>3 DEF Abstract!Next
<1>8. CASE TurnSleep(t, s, q)
  <2>1. /\ pc' = [pc EXCEPT ![t] = "sched"] /\ mode' = mode /\ ret' = ret /\ avail' = avail
    BY <1>8 DEF TurnSleep
  <2>2. pc' \in [Tasks -> PCs] /\ \A u \in Tasks : pc[u] = "idle" <=> pc'[u] = "idle"
    BY <2>1, <1>1 DEF TypeOK, PCs, TurnReady
  <2>3. callBar' = callBar
    BY <2>1, <2>2, <1>1, CallUnchanged
  <2> QED BY <2>1, <2>3 DEF Abstract!vars, callBar
<1>9. QED
  BY <1>5, <1>6, <1>7, <1>8 DEF Turn

(* Every step of the code is a step of the abstract semaphore or invisible. *)
LEMMA StepRefines == IInv /\ [Next]_vars => [Abstract!Next]_Abstract!vars
<1> SUFFICES ASSUME IInv, [Next]_vars PROVE Abstract!Next \/ UNCHANGED Abstract!vars
  OBVIOUS
<1>t. TypeOK
  BY DEF IInv
<1>1. ASSUME NEW t \in Tasks, DownFast(t) PROVE Abstract!Next
  <2>1. /\ pc[t] = "idle" /\ count - 1 >= 0 /\ avail' = avail - 1 /\ destroyed' = destroyed
        /\ pc' = pc /\ mode' = mode /\ ret' = [ret EXCEPT ![t] = "ok"]
    BY <1>1 DEF DownFast
  <2>2. callBar' = [callBar EXCEPT ![t] = "none"]
    BY <2>1 DEF callBar
  <2>3. avail > 0
    <3>1. Cardinality(Pending) \in Nat
      BY PendingFinite
    <3> QED BY <2>1, <3>1, <1>t DEF IInv, Conservation, TypeOK
  <2>4. Abstract!Grant(t)
    BY <2>1, <2>2, <2>3 DEF Abstract!Grant, callBar
  <2> QED BY <2>4 DEF Abstract!Next
<1>2. ASSUME NEW t \in Tasks, NEW m \in Modes, DownSlow(t, m) PROVE Abstract!Next
  <2>1. /\ pc[t] = "idle" /\ avail' = avail /\ destroyed' = destroyed
        /\ pc' = [pc EXCEPT ![t] = "slow"] /\ mode' = [mode EXCEPT ![t] = m]
        /\ ret' = [ret EXCEPT ![t] = "none"]
    BY <1>2 DEF DownSlow
  <2>2. \A u \in Tasks : callBar'[u] = IF u = t THEN m ELSE callBar[u]
    BY <2>1, <1>t DEF callBar, TypeOK
  <2>3. callBar' = [callBar EXCEPT ![t] = m] /\ callBar[t] = "none"
    BY <2>1, <2>2 DEF callBar
  <2>4. Abstract!Begin(t, m)
    BY <2>1, <2>3 DEF Abstract!Begin, callBar
  <2> QED BY <2>4 DEF Abstract!Next, Modes
<1>3. ASSUME NEW t \in Tasks, CheckDestroy(t) PROVE Abstract!Next \/ UNCHANGED Abstract!vars
  <2>1. pc[t] = "slow" /\ avail' = avail /\ destroyed' = destroyed
    BY <1>3 DEF CheckDestroy
  <2>2. CASE destroyed
    <3>1. Return(t, "EIDRM", pc)
      BY <1>3, <2>2 DEF CheckDestroy
    <3>2. callBar' = [callBar EXCEPT ![t] = "none"] /\ ret' = [ret EXCEPT ![t] = "EIDRM"]
      BY <3>1, <1>t, ReturnEndsCall DEF TypeOK
    <3>3. callBar[t] = mode[t] /\ mode[t] # "none"
      BY <2>1, <1>t DEF callBar, TypeOK, Modes
    <3>4. Abstract!Fail(t)
      BY <2>1, <2>2, <3>2, <3>3 DEF Abstract!Fail, Abstract!MayFail, callBar
    <3> QED BY <3>4 DEF Abstract!Next
  <2>3. CASE ~destroyed
    <3>1. pc' = [pc EXCEPT ![t] = "enter"] /\ mode' = mode /\ ret' = ret
      BY <1>3, <2>3 DEF CheckDestroy
    <3>2. pc' \in [Tasks -> PCs] /\ \A u \in Tasks : pc[u] = "idle" <=> pc'[u] = "idle"
      BY <2>1, <3>1, <1>t DEF TypeOK, PCs
    <3>3. callBar' = callBar
      BY <3>1, <3>2, <1>t, CallUnchanged
    <3> QED BY <2>1, <3>1, <3>3 DEF Abstract!vars, callBar
  <2> QED BY <2>2, <2>3
<1>4. ASSUME NEW t \in Tasks, TryFail(t) PROVE Abstract!Next
  <2> DEFINE p == IF count + sleepers + 1 >= 0 THEN WakeUp(queue, pc) ELSE pc
  <2>1. /\ pc[t] = "enter" /\ mode[t] = "try" /\ avail' = avail /\ destroyed' = destroyed
        /\ Return(t, "EWOULDBLOCK", p)
    BY <1>4 DEF TryFail
  <2>2. p \in [Tasks -> PCs] /\ \A u \in Tasks : pc[u] = "idle" <=> p[u] = "idle"
    BY <1>t, WakeUpShape, WakeKeepsIdle DEF TypeOK
  <2>3. callBar' = [callBar EXCEPT ![t] = "none"] /\ ret' = [ret EXCEPT ![t] = "EWOULDBLOCK"]
    BY <2>1, <2>2, <1>t, ReturnEndsCall
  <2>4. callBar[t] = "try"
    BY <2>1 DEF callBar
  <2>5. Abstract!Fail(t)
    BY <2>1, <2>3, <2>4 DEF Abstract!Fail, Abstract!MayFail, callBar
  <2> QED BY <2>5 DEF Abstract!Next
<1>5. ASSUME NEW t \in Tasks, Enter(t) PROVE Abstract!Next \/ UNCHANGED Abstract!vars
  <2>1. TurnReady(t, sleepers + 1, Append(queue, t))
    BY <1>5, EnterReady DEF Enter
  <2> QED BY <1>5, <2>1, TurnRefines DEF Enter
<1>6. ASSUME NEW t \in Tasks, Retry(t) PROVE Abstract!Next \/ UNCHANGED Abstract!vars
  <2>1. TurnReady(t, sleepers, queue)
    BY <1>6, RetryReady DEF Retry
  <2> QED BY <1>6, <2>1, TurnRefines DEF Retry
<1>7. ASSUME NEW t \in Tasks, Schedule(t) \/ Signal(t) \/ Expire(t)
      PROVE UNCHANGED Abstract!vars
  <2>1. mode' = mode /\ ret' = ret /\ avail' = avail /\ destroyed' = destroyed
    BY <1>7 DEF Schedule, Signal, Expire, semVars
  <2>2. pc' \in [Tasks -> PCs] /\ \A u \in Tasks : pc[u] = "idle" <=> pc'[u] = "idle"
    <3>1. CASE Schedule(t)
      BY <3>1, <1>t DEF Schedule, TypeOK, PCs
    <3>2. CASE Signal(t) \/ Expire(t)
      <4>1. pc' = [pc EXCEPT ![t] = IF @ \in {"sched", "asleep"} THEN "woken" ELSE @]
        BY <3>2 DEF Signal, Expire
      <4> QED BY <4>1, <1>t DEF TypeOK, PCs
    <3> QED BY <1>7, <3>1, <3>2
  <2>3. callBar' = callBar
    BY <2>1, <2>2, <1>t, CallUnchanged
  <2> QED BY <2>1, <2>3 DEF Abstract!vars, callBar
<1>8. CASE Up
  <2>1. pc' = pc /\ mode' = mode /\ ret' = ret /\ avail' = avail + 1 /\ destroyed' = destroyed
    BY <1>8 DEF Up, taskVars
  <2> QED BY <2>1 DEF Abstract!Next, Abstract!Release
<1>9. CASE UpWake \/ DestroyWake
  <2>1. mode' = mode /\ ret' = ret /\ avail' = avail /\ destroyed' = destroyed
    BY <1>9 DEF UpWake, DestroyWake
  <2>2. pc' \in [Tasks -> PCs] /\ \A u \in Tasks : pc[u] = "idle" <=> pc'[u] = "idle"
    BY <1>9, <1>t, WakeKeepsIdle, WakeUpShape, WakeUpAllShape DEF UpWake, DestroyWake, TypeOK
  <2>3. callBar' = callBar
    BY <2>1, <2>2, <1>t, CallUnchanged
  <2> QED BY <2>1, <2>3 DEF Abstract!vars, callBar
<1>10. CASE Destroy
  <2>1. pc' = pc /\ mode' = mode /\ ret' = ret /\ avail' = avail /\ destroyed' = TRUE
    BY <1>10 DEF Destroy, taskVars
  <2> QED BY <2>1 DEF Abstract!Next, Abstract!Kill
<1>11. CASE UNCHANGED vars
  BY <1>11 DEF vars, semVars, taskVars, Abstract!vars
<1>12. QED
  BY <1>1, <1>2, <1>3, <1>4, <1>5, <1>6, <1>7, <1>8, <1>9, <1>10, <1>11 DEF Next, Run

(* The code implements the counting semaphore its callers are promised,    *)
(* for any number of tasks: INSTANCE CountingSem with permits <- avail.    *)
THEOREM Refinement == Spec => ImplementsCountingSem
<1>1. Init => Abstract!Init
  BY DEF Init, Abstract!Init
<1>2. QED
  BY <1>1, StepRefines, Invariance, PTL DEF Spec, ImplementsCountingSem, Abstract!Spec
=============================================================================
