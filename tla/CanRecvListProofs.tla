-------------------------- MODULE CanRecvListProofs --------------------------
(***************************************************************************)
(* Proofs about module CanRecvList, for any number of devices, entries,    *)
(* sockets and filters: no list entry is lost or used twice, a socket has  *)
(* exactly the entries of its binding, and no list walk runs off the end   *)
(* before a binding is overtaken.                                          *)
(***************************************************************************)
EXTENDS CanRecvList, WellFoundedInduction, TLAPS

-----------------------------------------------------------------------------
(* The lists of one device are well formed: together they hold every entry *)
(* (and, having MaxReceivers links, each of them once), and free_entries   *)
(* counts the empty ones.                                                  *)
ListType == [recv : Seq(Recv), empty : Seq(Entries), free : 0..MaxReceivers]
WellFormed(L) ==
    /\ L \in ListType
    /\ L.free = Len(L.empty) /\ Len(L.recv) + Len(L.empty) = MaxReceivers
    /\ \A e \in Entries : \/ \E k \in 1..Len(L.recv) : L.recv[k].entry = e
                          \/ \E k \in 1..Len(L.empty) : L.empty[k] = e

(* A socket has m entries in a recv_list, one after the other. *)
RunAt(L, s, a, m) ==
    /\ a + m - 1 <= Len(L.recv)
    /\ \A j \in 1..Len(L.recv) : L.recv[j].sock = s <=> a <= j /\ j < a + m
Exact(L, s, m) == \E a \in 1..MaxReceivers : RunAt(L, s, a, m)
Absent(L, s) == \A j \in 1..Len(L.recv) : L.recv[j].sock # s
Holds(L, s, m) == IF m > 0 THEN Exact(L, s, m) ELSE Absent(L, s)

(* The entries a socket's binding gives it on a device. *)
Bound(s, d) == IF HasFilter(s) /\ d \in Covered(ifindex[s]) THEN flistlen[s] ELSE 0

Typed == TypeOK /\ list \in [Devices -> ListType]
AllWellFormed == \A d \in Devices : WellFormed(list[d])
Bindings == ~overtaken => \A s \in Sockets, d \in present : Holds(list[d], s, Bound(s, d))
IInv == Typed /\ AllWellFormed /\ Bindings

-----------------------------------------------------------------------------
LEMMA Constants == MaxReceivers \in Nat \ {0} /\ MaxDevices \in Nat /\ MaxFilters \in 1..MaxReceivers
  BY RecvListAssumption

(* Two sequences one after the other, and the tail and the front of one. *)
LEMMA Joined ==
    ASSUME NEW S, NEW p \in Seq(S), NEW q \in Seq(S)
    PROVE  /\ p \o q \in Seq(S) /\ Len(p \o q) = Len(p) + Len(q)
           /\ \A j \in 1..Len(p) : (p \o q)[j] = p[j]
           /\ \A j \in 1..Len(q) : (p \o q)[Len(p) + j] = q[j]
  OBVIOUS

LEMMA TailOf ==
    ASSUME NEW S, NEW p \in Seq(S), NEW m \in 0..Len(p)
    PROVE  /\ SubSeq(p, m + 1, Len(p)) \in Seq(S)
           /\ Len(SubSeq(p, m + 1, Len(p))) = Len(p) - m
           /\ \A j \in 1..(Len(p) - m) : SubSeq(p, m + 1, Len(p))[j] = p[m + j]
  OBVIOUS

LEMMA FrontOf ==
    ASSUME NEW S, NEW p \in Seq(S), NEW m \in 0..Len(p)
    PROVE  /\ SubSeq(p, 1, m) \in Seq(S) /\ Len(SubSeq(p, 1, m)) = m
           /\ \A j \in 1..m : SubSeq(p, 1, m)[j] = p[j]
  OBVIOUS

(* What rtcan_raw_add_filter does to the lists of one device, link by      *)
(* link.                                                                   *)
IsAdded(A, L, s, n) ==
    /\ A = [recv |-> A.recv, empty |-> A.empty, free |-> A.free]
    /\ A.recv \in Seq(Recv) /\ A.empty \in Seq(Entries) /\ A.free = L.free - n
    /\ Len(A.recv) = n + Len(L.recv) /\ Len(A.empty) = Len(L.empty) - n
    /\ \A k \in 1..n : A.recv[k] = [entry |-> L.empty[k], sock |-> s]
    /\ \A k \in 1..Len(L.recv) : A.recv[n + k] = L.recv[k]
    /\ \A k \in 1..(Len(L.empty) - n) : A.empty[k] = L.empty[n + k]

LEMMA AddedLists ==
    ASSUME NEW L, WellFormed(L), NEW s \in Sockets, NEW n \in Nat, CanAdd(L, n)
    PROVE  IsAdded(Added(L, s, n), L, s, n)
<1> DEFINE new == [k \in 1..n |-> [entry |-> L.empty[k], sock |-> s]]
<1>1. L.recv \in Seq(Recv) /\ L.empty \in Seq(Entries) /\ n <= Len(L.empty)
  BY DEF WellFormed, ListType, CanAdd
<1>2. new \in Seq(Recv) /\ Len(new) = n
  <2> DEFINE e == L.empty
  <2>1. e \in Seq(Entries) /\ n <= Len(e)
    BY <1>1
  <2> HIDE DEF e
  <2>2. \A k \in 1..n : e[k] \in Entries
    BY <2>1
  <2>3. \A k \in 1..n : [entry |-> e[k], sock |-> s] \in Recv
    BY <2>2 DEF Recv
  <2>4. new = [k \in 1..n |-> [entry |-> e[k], sock |-> s]]
    BY DEF e
  <2> HIDE DEF new
  <2> QED
    BY <2>3, <2>4
<1>3. /\ Added(L, s, n).recv = new \o L.recv
      /\ Added(L, s, n).empty = SubSeq(L.empty, n + 1, Len(L.empty))
      /\ Added(L, s, n).free = L.free - n
  BY DEF Added
<1> HIDE DEF new
<1>4. /\ new \o L.recv \in Seq(Recv) /\ Len(new \o L.recv) = n + Len(L.recv)
      /\ \A k \in 1..n : (new \o L.recv)[k] = new[k]
      /\ \A k \in 1..Len(L.recv) : (new \o L.recv)[n + k] = L.recv[k]
  <2> DEFINE r == L.recv
  <2>1. r \in Seq(Recv)
    BY <1>1
  <2> HIDE DEF r
  <2>2. /\ new \o r \in Seq(Recv) /\ Len(new \o r) = n + Len(r)
        /\ \A k \in 1..n : (new \o r)[k] = new[k]
        /\ \A k \in 1..Len(r) : (new \o r)[n + k] = r[k]
    <3>1. /\ new \o r \in Seq(Recv) /\ Len(new \o r) = Len(new) + Len(r)
          /\ \A k \in 1..Len(new) : (new \o r)[k] = new[k]
          /\ \A k \in 1..Len(r) : (new \o r)[Len(new) + k] = r[k]
      <4>1. new \in Seq(Recv) /\ r \in Seq(Recv)
        BY <1>2, <2>1
      <4> QED
        BY <4>1, Joined
    <3> QED
      BY <1>2, <3>1
  <2> QED
    BY <2>2 DEF r
<1>5. /\ SubSeq(L.empty, n + 1, Len(L.empty)) \in Seq(Entries)
      /\ Len(SubSeq(L.empty, n + 1, Len(L.empty))) = Len(L.empty) - n
      /\ \A k \in 1..(Len(L.empty) - n) : SubSeq(L.empty, n + 1, Len(L.empty))[k] = L.empty[n + k]
  <2> DEFINE e == L.empty
  <2>1. e \in Seq(Entries) /\ n \in 0..Len(e)
    BY <1>1
  <2> HIDE DEF e
  <2>2. /\ SubSeq(e, n + 1, Len(e)) \in Seq(Entries)
        /\ Len(SubSeq(e, n + 1, Len(e))) = Len(e) - n
        /\ \A k \in 1..(Len(e) - n) : SubSeq(e, n + 1, Len(e))[k] = e[n + k]
    BY <2>1, TailOf
  <2> QED
    BY <2>2 DEF e
<1>6. \A k \in 1..n : new[k] = [entry |-> L.empty[k], sock |-> s]
  BY DEF new
<1>7. Added(L, s, n) = [recv |-> Added(L, s, n).recv, empty |-> Added(L, s, n).empty,
                        free |-> Added(L, s, n).free]
  BY DEF Added
<1> QED
  BY <1>3, <1>4, <1>5, <1>6, <1>7 DEF IsAdded

(* What rtcan_raw_remove_filter does to them, k being where the socket's   *)
(* run starts.                                                             *)
IsRemoved(R, L, k, n) ==
    /\ R = [recv |-> R.recv, empty |-> R.empty, free |-> R.free]
    /\ R.recv \in Seq(Recv) /\ R.empty \in Seq(Entries) /\ R.free = L.free + n
    /\ Len(R.recv) = Len(L.recv) - n /\ Len(R.empty) = n + Len(L.empty)
    /\ \A j \in 1..(k - 1) : R.recv[j] = L.recv[j]
    /\ \A j \in k..(Len(L.recv) - n) : R.recv[j] = L.recv[j + n]
    /\ \A j \in 1..n : R.empty[j] = L.recv[k + j - 1].entry
    /\ \A j \in 1..Len(L.empty) : R.empty[n + j] = L.empty[j]

LEMMA RemovedLists ==
    ASSUME NEW L, WellFormed(L), NEW s \in Sockets, NEW n \in Nat \ {0},
           NEW k \in Nat \ {0}, k = Start(L, s), k + n - 1 <= Len(L.recv)
    PROVE  IsRemoved(Removed(L, s, n), L, k, n)
<1> DEFINE r == L.recv
           e == L.empty
           lr == Len(r)
           m == k + n - 1
           front == SubSeq(r, 1, k - 1)
           back == SubSeq(r, m + 1, lr)
           gone == [j \in 1..n |-> r[k + j - 1].entry]
           nr == front \o back
           ne == gone \o e
<1>1. r \in Seq(Recv) /\ e \in Seq(Entries) /\ lr \in Nat
  BY DEF WellFormed, ListType
<1>2. /\ Removed(L, s, n).recv = nr /\ Removed(L, s, n).empty = ne
      /\ Removed(L, s, n).free = L.free + n
  <2>1. m + 1 = k + n
    OBVIOUS
  <2> HIDE DEF m
  <2> QED
    BY <2>1 DEF Removed
<1>3. k + n - 1 <= lr
  OBVIOUS
<1> HIDE DEF r, e
<1>4. /\ front \in Seq(Recv) /\ Len(front) = k - 1
      /\ \A j \in 1..(k - 1) : front[j] = r[j]
  <2>1. k - 1 \in 0..lr
    BY <1>1, <1>3
  <2> QED
    BY <1>1, <2>1, FrontOf
<1>5. /\ back \in Seq(Recv) /\ Len(back) = lr - m
      /\ \A j \in 1..(lr - m) : back[j] = r[m + j]
  <2>1. m \in 0..lr
    BY <1>1, <1>3
  <2> HIDE DEF m
  <2> QED
    BY <1>1, <2>1, TailOf
<1>6. gone \in Seq(Entries) /\ Len(gone) = n
  <2>1. \A j \in 1..n : k + j - 1 \in 1..lr
    BY <1>1, <1>3
  <2>2. \A j \in 1..n : r[k + j - 1] \in Recv
    BY <1>1, <2>1
  <2>3. \A j \in 1..n : r[k + j - 1].entry \in Entries
    BY <2>2 DEF Recv
  <2> QED
    BY <2>3
<1>7. \A j \in 1..n : gone[j] = r[k + j - 1].entry
  OBVIOUS
<1> HIDE DEF front, back, gone
<1>8. /\ nr \in Seq(Recv) /\ Len(nr) = Len(front) + Len(back)
      /\ \A j \in 1..Len(front) : nr[j] = front[j]
      /\ \A j \in 1..Len(back) : nr[Len(front) + j] = back[j]
  <2>1. front \in Seq(Recv) /\ back \in Seq(Recv)
    BY <1>4, <1>5
  <2> QED
    BY <2>1, Joined
<1>9. /\ ne \in Seq(Entries) /\ Len(ne) = n + Len(e)
      /\ \A j \in 1..n : ne[j] = gone[j]
      /\ \A j \in 1..Len(e) : ne[n + j] = e[j]
  <2>1. gone \in Seq(Entries) /\ e \in Seq(Entries)
    BY <1>1, <1>6
  <2>2. /\ ne \in Seq(Entries) /\ Len(ne) = Len(gone) + Len(e)
        /\ \A j \in 1..Len(gone) : ne[j] = gone[j]
        /\ \A j \in 1..Len(e) : ne[Len(gone) + j] = e[j]
    BY <2>1, Joined
  <2> HIDE DEF ne
  <2> QED
    BY <1>6, <2>2
<1> HIDE DEF nr, ne, lr
<1>10. Len(nr) = lr - n
  <2>1. Len(nr) = (k - 1) + (lr - m)
    BY <1>4, <1>5, <1>8
  <2> QED
    BY <1>1, <2>1
<1>11. \A j \in 1..(k - 1) : nr[j] = r[j]
  BY <1>4, <1>8
<1>12. ASSUME NEW j \in k..(lr - n)
       PROVE  nr[j] = r[j + n]
  <2>1. /\ j - (k - 1) \in 1..(lr - m)
        /\ (k - 1) + (j - (k - 1)) = j /\ m + (j - (k - 1)) = j + n
    BY <1>1
  <2> HIDE DEF m
  <2>2. nr[(k - 1) + (j - (k - 1))] = r[m + (j - (k - 1))]
    BY <1>4, <1>5, <1>8, <2>1
  <2> QED
    BY <2>1, <2>2
<1>13. Removed(L, s, n) = [recv |-> Removed(L, s, n).recv, empty |-> Removed(L, s, n).empty,
                           free |-> Removed(L, s, n).free]
  BY DEF Removed
<1> QED
  BY <1>2, <1>7, <1>8, <1>9, <1>10, <1>11, <1>12, <1>13 DEF IsRemoved, r, e, lr

(* Neither loses an entry, whatever run is removed. *)
LEMMA AddedWellFormed ==
    ASSUME NEW L, WellFormed(L), NEW s \in Sockets, NEW n \in Nat, CanAdd(L, n)
    PROVE  WellFormed(Added(L, s, n))
<1> DEFINE A == Added(L, s, n)
<1>0. IsAdded(A, L, s, n)
  BY AddedLists
<1> HIDE DEF A
<1> DEFINE r == L.recv
           e == L.empty
           lr == Len(r)
           le == Len(e)
           nr == A.recv
           ne == A.empty
           nf == A.free
           lnr == Len(nr)
           lne == Len(ne)
<1>1. /\ nr \in Seq(Recv) /\ ne \in Seq(Entries) /\ nf = L.free - n
      /\ lnr = n + lr /\ lne = le - n
      /\ \A k \in 1..n : nr[k] = [entry |-> e[k], sock |-> s]
      /\ \A k \in 1..lr : nr[n + k] = r[k]
      /\ \A k \in 1..(le - n) : ne[k] = e[n + k]
  BY <1>0 DEF IsAdded
<1>2. /\ lr \in Nat /\ le \in Nat /\ n <= le /\ L.free = le /\ lr + le = MaxReceivers
      /\ \A x \in Entries : \/ \E k \in 1..lr : r[k].entry = x
                            \/ \E k \in 1..le : e[k] = x
  BY DEF WellFormed, ListType, CanAdd
<1>3. A = [recv |-> nr, empty |-> ne, free |-> nf]
  BY <1>0 DEF IsAdded
<1> HIDE DEF r, e, lr, le, nr, ne, nf, lnr, lne
<1>4. nf = le - n /\ nf \in 0..MaxReceivers /\ lnr + lne = MaxReceivers
  BY <1>1, <1>2, Constants
<1>5. ASSUME NEW x \in Entries
      PROVE  (\E k \in 1..lnr : nr[k].entry = x) \/ (\E k \in 1..lne : ne[k] = x)
  <2>1. CASE \E k \in 1..lr : r[k].entry = x
    <3>1. PICK k \in 1..lr : r[k].entry = x
      BY <2>1
    <3>2. n + k \in 1..lnr /\ nr[n + k].entry = x
      BY <1>1, <1>2, <3>1
    <3> QED
      BY <3>2
  <2>2. CASE \E k \in 1..le : e[k] = x
    <3>1. PICK k \in 1..le : e[k] = x
      BY <2>2
    <3>2. CASE k <= n
      <4>1. k \in 1..n /\ k \in 1..lnr
        BY <1>1, <1>2, <3>2
      <4>2. nr[k] = [entry |-> e[k], sock |-> s]
        BY <1>1, <4>1
      <4> QED
        BY <3>1, <4>1, <4>2
    <3>3. CASE k > n
      <4>1. k - n \in 1..lne /\ ne[k - n] = x
        BY <1>1, <1>2, <3>1, <3>3
      <4> QED
        BY <4>1
    <3> QED
      BY <1>2, <3>2, <3>3
  <2> QED
    BY <1>2, <2>1, <2>2
<1>6. A \in ListType
  BY <1>1, <1>3, <1>4 DEF ListType
<1> QED
  BY <1>1, <1>4, <1>5, <1>6 DEF WellFormed, A, nr, ne, nf, lnr, lne

LEMMA RemovedWellFormed ==
    ASSUME NEW L, WellFormed(L), NEW s \in Sockets, NEW n \in Nat \ {0},
           NEW k \in Nat \ {0}, k = Start(L, s), k + n - 1 <= Len(L.recv)
    PROVE  WellFormed(Removed(L, s, n))
<1> DEFINE R == Removed(L, s, n)
<1>0. IsRemoved(R, L, k, n)
  BY RemovedLists
<1> HIDE DEF R
<1> DEFINE r == L.recv
           e == L.empty
           lr == Len(r)
           le == Len(e)
           nr == R.recv
           ne == R.empty
           nf == R.free
           lnr == Len(nr)
           lne == Len(ne)
<1>1. /\ nr \in Seq(Recv) /\ ne \in Seq(Entries) /\ nf = L.free + n
      /\ lnr = lr - n /\ lne = n + le
      /\ \A j \in 1..(k - 1) : nr[j] = r[j]
      /\ \A j \in k..(lr - n) : nr[j] = r[j + n]
      /\ \A j \in 1..n : ne[j] = r[k + j - 1].entry
      /\ \A j \in 1..le : ne[n + j] = e[j]
  BY <1>0 DEF IsRemoved
<1>2. /\ lr \in Nat /\ le \in Nat /\ k + n - 1 <= lr /\ L.free = le /\ lr + le = MaxReceivers
      /\ \A x \in Entries : \/ \E j \in 1..lr : r[j].entry = x
                            \/ \E j \in 1..le : e[j] = x
  <2>1. lr \in Nat /\ le \in Nat
    BY DEF WellFormed, ListType
  <2> QED
    BY <2>1, Zenon DEF WellFormed
<1>3. R = [recv |-> nr, empty |-> ne, free |-> nf]
  BY <1>0 DEF IsRemoved
<1> HIDE DEF r, e, lr, le, nr, ne, nf, lnr, lne
<1>n. lnr = lr - n /\ lne = n + le /\ lr \in Nat /\ le \in Nat /\ k + n - 1 <= lr
  BY <1>1, <1>2
<1>4. nf = n + le /\ nf \in 0..MaxReceivers /\ lnr + lne = MaxReceivers
  BY <1>1, <1>2, Constants
<1>5. ASSUME NEW x \in Entries
      PROVE  (\E j \in 1..lnr : nr[j].entry = x) \/ (\E j \in 1..lne : ne[j] = x)
  <2>1. CASE \E j \in 1..lr : r[j].entry = x
    <3>1. PICK j \in 1..lr : r[j].entry = x
      BY <2>1
    <3>2. CASE j < k
      <4>1. j \in 1..lnr /\ j \in 1..(k - 1)
        BY <1>n, <3>2
      <4> QED
        BY <1>1, <3>1, <4>1
    <3>3. CASE k <= j /\ j < k + n
      <4>1. j - k + 1 \in 1..n /\ j - k + 1 \in 1..lne /\ k + (j - k + 1) - 1 = j
        BY <1>n, <3>3
      <4>2. ne[j - k + 1] = r[k + (j - k + 1) - 1].entry
        BY <1>1, <4>1
      <4> QED
        BY <3>1, <4>1, <4>2
    <3>4. CASE j >= k + n
      <4>1. j - n \in k..(lr - n) /\ j - n \in 1..lnr /\ (j - n) + n = j
        BY <1>n, <3>4
      <4>2. nr[j - n] = r[(j - n) + n]
        BY <1>1, <4>1
      <4> QED
        BY <3>1, <4>1, <4>2
    <3> QED
      BY <1>2, <3>2, <3>3, <3>4
  <2>2. CASE \E j \in 1..le : e[j] = x
    <3>1. PICK j \in 1..le : e[j] = x
      BY <2>2
    <3>2. n + j \in 1..lne /\ ne[n + j] = x
      BY <1>1, <1>2, <3>1
    <3> QED
      BY <3>2
  <2> QED
    BY <1>2, <2>1, <2>2
<1>6. R \in ListType
  BY <1>1, <1>3, <1>4 DEF ListType
<1> QED
  BY <1>1, <1>4, <1>5, <1>6 DEF WellFormed, R, nr, ne, nf, lnr, lne

-----------------------------------------------------------------------------
LEMMA LeastElement ==
    ASSUME NEW T, T \subseteq Nat, T # {}
    PROVE  \E x \in T : \A y \in T : x <= y
<1> DEFINE R == OpToRel(<, Nat)
<1>1. IsWellFoundedOn(R, Nat)
  BY NatLessThanWellFounded
<1>2. \A x, y \in Nat : x < y => <<x, y>> \in R
  BY DEF OpToRel
<1> HIDE DEF R
<1>3. PICK x \in T : \A y \in T : <<y, x>> \notin R
  BY <1>1, WFMin
<1>4. \A y \in T : ~(y < x)
  BY <1>2, <1>3
<1>5. \A y \in T : x <= y
  BY <1>4
<1> QED
  BY <1>5

(* The search of rtcan_raw_remove_filter finds the first entry of the      *)
(* socket, if it has one.                                                  *)
LEMMA StartFound ==
    ASSUME NEW L, WellFormed(L), NEW s \in Sockets,
           \E k \in 1..Len(L.recv) : L.recv[k].sock = s
    PROVE  /\ Start(L, s) \in 1..Len(L.recv) /\ L.recv[Start(L, s)].sock = s
           /\ \A j \in 1..(Start(L, s) - 1) : L.recv[j].sock # s
<1> DEFINE r == L.recv
           lr == Len(r)
           T == {k \in 1..lr : r[k].sock = s}
<1>1. lr \in Nat
  BY DEF WellFormed, ListType
<1>2. \E k \in 1..lr : r[k].sock = s
  OBVIOUS
<1>3. Start(L, s) = CHOOSE k \in 1..lr : r[k].sock = s /\ \A j \in 1..(k - 1) : r[j].sock # s
  BY DEF Start
<1> HIDE DEF r, lr
<1>4. T \subseteq Nat /\ T # {}
  BY <1>1, <1>2
<1>5. PICK x \in T : \A y \in T : x <= y
  BY <1>4, LeastElement
<1>6. x \in 1..lr /\ r[x].sock = s /\ \A j \in 1..(x - 1) : r[j].sock # s
  BY <1>1, <1>5
<1>7. \E k \in 1..lr : r[k].sock = s /\ \A j \in 1..(k - 1) : r[j].sock # s
  BY <1>6
<1> QED
  BY <1>3, <1>7 DEF r, lr

(* If the socket has a run of n entries, it is the one removed. *)
LEMMA StartOfRun ==
    ASSUME NEW L, WellFormed(L), NEW s \in Sockets, NEW n \in Nat \ {0},
           NEW a \in 1..MaxReceivers, RunAt(L, s, a, n)
    PROVE  Start(L, s) = a /\ a + n - 1 <= Len(L.recv) /\ CanRemove(L, s, n)
<1> DEFINE r == L.recv
           lr == Len(r)
           k == Start(L, s)
<1>1. lr \in Nat /\ a \in Nat \ {0}
  BY Constants DEF WellFormed, ListType
<1>2. a + n - 1 <= lr /\ \A j \in 1..lr : r[j].sock = s <=> a <= j /\ j < a + n
  BY DEF RunAt
<1> HIDE DEF r, lr
<1>3. a \in 1..lr /\ r[a].sock = s
  BY <1>1, <1>2
<1>4. k \in 1..lr /\ r[k].sock = s /\ \A j \in 1..(k - 1) : r[j].sock # s
  BY <1>3, StartFound DEF r, lr
<1> HIDE DEF k
<1>5. a <= k
  BY <1>1, <1>2, <1>4
<1>6. ~(a < k)
  <2>1. a < k => a \in 1..(k - 1)
    BY <1>1, <1>4
  <2> QED
    BY <1>3, <1>4, <2>1
<1>7. k = a
  BY <1>1, <1>4, <1>5, <1>6
<1> QED
  BY <1>2, <1>3, <1>7 DEF CanRemove, k, r, lr

(* Entries that are added come in front of the others', and those that are *)
(* removed leave the others' together.                                     *)
LEMMA AddedHolds ==
    ASSUME NEW L, WellFormed(L), NEW s \in Sockets, NEW n \in Nat \ {0}, CanAdd(L, n)
    PROVE  /\ Absent(L, s) => Holds(Added(L, s, n), s, n)
           /\ \A t \in Sockets \ {s}, m \in Nat :
                 Holds(L, t, m) => Holds(Added(L, s, n), t, m)
<1> DEFINE A == Added(L, s, n)
<1>0. IsAdded(A, L, s, n) /\ WellFormed(A)
  BY AddedLists, AddedWellFormed
<1> HIDE DEF A
<1> DEFINE r == L.recv
           nr == A.recv
           lr == Len(r)
           lnr == Len(nr)
<1>1. /\ \A k \in 1..n : nr[k] = [entry |-> L.empty[k], sock |-> s]
      /\ \A k \in 1..lr : nr[n + k] = r[k]
  BY <1>0 DEF IsAdded
<1>2. lnr = n + lr /\ lr \in Nat /\ lnr <= MaxReceivers
  <2>1. lr \in Nat /\ lnr \in Nat /\ Len(A.empty) \in Nat /\ lnr + Len(A.empty) = MaxReceivers
    BY <1>0 DEF WellFormed, ListType
  <2>2. lnr = n + lr
    BY <1>0 DEF IsAdded
  <2> HIDE DEF lr, lnr
  <2>3. \A e \in Nat : lnr + e = MaxReceivers => lnr <= MaxReceivers
    BY <2>1, Constants
  <2> QED
    BY <2>1, <2>2, <2>3
<1> HIDE DEF r, nr, lr, lnr
<1>3. \A k \in 1..n : nr[k].sock = s
  <2>1. ASSUME NEW k \in 1..n
        PROVE  nr[k].sock = s
    <3>1. nr[k] = [entry |-> L.empty[k], sock |-> s]
      BY <1>1
    <3> QED
      BY <3>1
  <2> QED
    BY <2>1
<1>4. \A j \in 1..lnr : j > n => j - n \in 1..lr /\ nr[j] = r[j - n]
  <2>1. ASSUME NEW j \in 1..lnr, j > n
        PROVE  j - n \in 1..lr /\ nr[j] = r[j - n]
    <3>1. j - n \in 1..lr /\ n + (j - n) = j
      BY <1>2, <2>1
    <3> QED
      BY <1>1, <3>1
  <2> QED
    BY <2>1
<1>5. ASSUME \A j \in 1..lr : r[j].sock # s
      PROVE  1 + n - 1 <= lnr /\ \A j \in 1..lnr : nr[j].sock = s <=> 1 <= j /\ j < 1 + n
  BY <1>2, <1>3, <1>4, <1>5
<1>6. ASSUME NEW t \in Sockets \ {s}, \A j \in 1..lr : r[j].sock # t
      PROVE  \A j \in 1..lnr : nr[j].sock # t
  BY <1>2, <1>3, <1>4, <1>6
<1>7. ASSUME NEW t \in Sockets \ {s}, NEW m \in Nat \ {0}, NEW a \in 1..MaxReceivers,
             a + m - 1 <= lr, \A j \in 1..lr : r[j].sock = t <=> a <= j /\ j < a + m
      PROVE  /\ a + n \in 1..MaxReceivers /\ (a + n) + m - 1 <= lnr
             /\ \A j \in 1..lnr : nr[j].sock = t <=> a + n <= j /\ j < (a + n) + m
  <2>1. a \in Nat \ {0} /\ MaxReceivers \in Nat
    BY Constants
  <2>2. a + n \in 1..MaxReceivers /\ (a + n) + m - 1 <= lnr
    BY <1>2, <1>7, <2>1
  <2>3. ASSUME NEW j \in 1..lnr
        PROVE  nr[j].sock = t <=> a + n <= j /\ j < (a + n) + m
    <3>1. CASE j <= n
      <4>1. j \in 1..n /\ ~(a + n <= j)
        BY <1>2, <2>1, <3>1
      <4> QED
        BY <1>3, <4>1
    <3>2. CASE j > n
      <4>1. j - n \in 1..lr /\ nr[j] = r[j - n]
        BY <1>4, <3>2
      <4>2. r[j - n].sock = t <=> a <= j - n /\ j - n < a + m
        BY <1>7, <4>1
      <4>3. (a <= j - n /\ j - n < a + m) <=> (a + n <= j /\ j < (a + n) + m)
        BY <1>2, <2>1
      <4> QED
        BY <4>1, <4>2, <4>3
    <3> QED
      BY <1>2, <3>1, <3>2
  <2> QED
    BY <2>2, <2>3
<1>8. Absent(L, s) => Holds(A, s, n)
  <2>1. 1 \in 1..MaxReceivers
    BY Constants
  <2> QED
    BY <1>5, <2>1 DEF Absent, Holds, Exact, RunAt, r, nr, lr, lnr
<1>9. ASSUME NEW t \in Sockets \ {s}, NEW m \in Nat, Holds(L, t, m)
      PROVE  Holds(A, t, m)
  <2>1. CASE m = 0
    BY <1>6, <1>9, <2>1 DEF Holds, Absent, r, nr, lr, lnr
  <2>2. CASE m > 0
    <3>1. PICK a \in 1..MaxReceivers : RunAt(L, t, a, m)
      BY <1>9, <2>2 DEF Holds, Exact
    <3>2. a + m - 1 <= lr /\ \A j \in 1..lr : r[j].sock = t <=> a <= j /\ j < a + m
      BY <3>1 DEF RunAt, r, lr
    <3>3. /\ a + n \in 1..MaxReceivers /\ (a + n) + m - 1 <= lnr
          /\ \A j \in 1..lnr : nr[j].sock = t <=> a + n <= j /\ j < (a + n) + m
      <4>1. m \in Nat \ {0}
        BY <2>2
      <4> QED
        BY <1>7, <3>2, <4>1
    <3>4. RunAt(A, t, a + n, m)
      BY <3>3 DEF RunAt, nr, lnr
    <3> QED
      BY <2>2, <3>3, <3>4 DEF Holds, Exact
  <2> QED
    BY <2>1, <2>2
<1> QED
  BY <1>8, <1>9 DEF A

LEMMA RemovedHolds ==
    ASSUME NEW L, WellFormed(L), NEW s \in Sockets, NEW n \in Nat \ {0}, Holds(L, s, n)
    PROVE  /\ Absent(Removed(L, s, n), s)
           /\ \A t \in Sockets \ {s}, m \in Nat :
                 Holds(L, t, m) => Holds(Removed(L, s, n), t, m)
<1> DEFINE R == Removed(L, s, n)
<1>a. PICK k \in 1..MaxReceivers : RunAt(L, s, k, n)
  BY DEF Holds, Exact
<1>b. k \in Nat \ {0} /\ k = Start(L, s) /\ k + n - 1 <= Len(L.recv)
  BY <1>a, StartOfRun, Constants
<1>c. IsRemoved(R, L, k, n)
  BY <1>b, RemovedLists
<1> HIDE DEF R
<1> DEFINE r == L.recv
           nr == R.recv
           lr == Len(r)
           lnr == Len(nr)
<1>1. /\ \A j \in 1..(k - 1) : nr[j] = r[j]
      /\ \A j \in k..(lr - n) : nr[j] = r[j + n]
  BY <1>c DEF IsRemoved
<1>2. lnr = lr - n /\ lr \in Nat /\ k + n - 1 <= lr
  BY <1>b, <1>c DEF IsRemoved, WellFormed, ListType
<1>3. \A j \in 1..lr : r[j].sock = s <=> k <= j /\ j < k + n
  BY <1>a DEF RunAt
<1> HIDE DEF r, nr, lr, lnr
<1>4. ASSUME NEW j \in 1..lnr
      PROVE  \/ j < k /\ j \in 1..lr /\ nr[j] = r[j]
             \/ j >= k /\ j + n \in 1..lr /\ nr[j] = r[j + n]
  <2>1. CASE j < k
    <3>1. j \in 1..(k - 1) /\ j \in 1..lr
      BY <1>2, <1>b, <2>1
    <3> QED
      BY <1>1, <2>1, <3>1
  <2>2. CASE j >= k
    <3>1. j \in k..(lr - n) /\ j + n \in 1..lr
      BY <1>2, <1>b, <2>2
    <3> QED
      BY <1>1, <2>2, <3>1
  <2> QED
    BY <1>2, <1>b, <2>1, <2>2
<1>5. ASSUME NEW j \in 1..lnr
      PROVE  nr[j].sock # s
  BY <1>2, <1>3, <1>4, <1>b
<1>6. ASSUME NEW t, \A j \in 1..lr : r[j].sock # t
      PROVE  \A j \in 1..lnr : nr[j].sock # t
  BY <1>4, <1>6
<1>7. ASSUME NEW t \in Sockets \ {s}, NEW m \in Nat \ {0}, NEW a \in Nat \ {0},
             a + m - 1 <= lr, \A j \in 1..lr : r[j].sock = t <=> a <= j /\ j < a + m
      PROVE  \E b \in {a, a - n} :
                /\ b >= 1 /\ b + m - 1 <= lnr
                /\ \A j \in 1..lnr : nr[j].sock = t <=> b <= j /\ j < b + m
  <2>1. a \in 1..lr /\ k \in 1..lr
    BY <1>2, <1>7, <1>b
  <2>2. ~(k <= a /\ a < k + n) /\ ~(a <= k /\ k < a + m)
    <3>1. r[a].sock = t
      BY <1>7, <2>1
    <3>2. r[k].sock = s
      BY <1>3, <1>b, <2>1
    <3> QED
      BY <1>3, <1>7, <2>1, <3>1, <3>2
  <2>3. CASE a < k
    <3>1. a + m <= k
      BY <1>b, <2>2, <2>3
    <3>2. a >= 1 /\ a + m - 1 <= lnr
      BY <1>2, <1>b, <3>1
    <3>3. ASSUME NEW j \in 1..lnr
          PROVE  nr[j].sock = t <=> a <= j /\ j < a + m
      <4>1. CASE j < k /\ j \in 1..lr /\ nr[j] = r[j]
        BY <1>7, <4>1
      <4>2. CASE j >= k /\ j + n \in 1..lr /\ nr[j] = r[j + n]
        <5>1. r[j + n].sock = t <=> a <= j + n /\ j + n < a + m
          BY <1>7, <4>2
        <5>2. ~(j + n < a + m) /\ ~(j < a + m)
          BY <1>2, <1>b, <3>1, <4>2
        <5> QED
          BY <4>2, <5>1, <5>2
      <4> QED
        BY <1>4, <4>1, <4>2
    <3> QED
      BY <3>2, <3>3
  <2>4. CASE a >= k + n
    <3>1. a - n >= 1 /\ (a - n) + m - 1 <= lnr
      BY <1>2, <1>7, <1>b, <2>4
    <3>2. ASSUME NEW j \in 1..lnr
          PROVE  nr[j].sock = t <=> a - n <= j /\ j < (a - n) + m
      <4>1. CASE j < k /\ j \in 1..lr /\ nr[j] = r[j]
        <5>1. r[j].sock = t <=> a <= j /\ j < a + m
          BY <1>7, <4>1
        <5>2. ~(a <= j) /\ ~(a - n <= j)
          BY <1>2, <1>b, <2>4, <4>1
        <5> QED
          BY <4>1, <5>1, <5>2
      <4>2. CASE j >= k /\ j + n \in 1..lr /\ nr[j] = r[j + n]
        <5>1. r[j + n].sock = t <=> a <= j + n /\ j + n < a + m
          BY <1>7, <4>2
        <5>2. (a <= j + n /\ j + n < a + m) <=> (a - n <= j /\ j < (a - n) + m)
          BY <1>2
        <5> QED
          BY <4>2, <5>1, <5>2
      <4> QED
        BY <1>4, <4>1, <4>2
    <3> QED
      BY <3>1, <3>2
  <2> QED
    BY <1>b, <2>2, <2>3, <2>4
<1>8. Absent(R, s)
  BY <1>5 DEF Absent, nr, lnr
<1>9. ASSUME NEW t \in Sockets \ {s}, NEW m \in Nat, Holds(L, t, m)
      PROVE  Holds(R, t, m)
  <2>1. CASE m = 0
    <3>1. \A j \in 1..lr : r[j].sock # t
      BY <1>9, <2>1 DEF Holds, Absent, r, lr
    <3>2. \A j \in 1..lnr : nr[j].sock # t
      BY <1>6, <3>1
    <3> QED
      BY <2>1, <3>2 DEF Holds, Absent, nr, lnr
  <2>2. CASE m > 0
    <3>1. PICK a \in 1..MaxReceivers : RunAt(L, t, a, m)
      BY <1>9, <2>2 DEF Holds, Exact
    <3>2. a + m - 1 <= lr /\ \A j \in 1..lr : r[j].sock = t <=> a <= j /\ j < a + m
      BY <3>1 DEF RunAt, r, lr
    <3>3. a \in Nat \ {0} /\ m \in Nat \ {0}
      BY <2>2, Constants
    <3>4. PICK b \in {a, a - n} :
             /\ b >= 1 /\ b + m - 1 <= lnr
             /\ \A j \in 1..lnr : nr[j].sock = t <=> b <= j /\ j < b + m
      BY <1>7, <3>2, <3>3
    <3>5. RunAt(R, t, b, m)
      BY <3>4 DEF RunAt, nr, lnr
    <3>6. b \in 1..MaxReceivers
      BY <3>3, <3>4, Constants
    <3> QED
      BY <2>2, <3>5, <3>6 DEF Holds, Exact
  <2> QED
    BY <2>1, <2>2
<1> QED
  BY <1>8, <1>9 DEF R

-----------------------------------------------------------------------------
(* The lists after rtcan_raw_remove_filter, and after rtcan_raw_add_filter *)
(* on them.                                                                *)
LEMMA UnlinkedLists ==
    ASSUME Typed, AllWellFormed, NEW s \in Sockets, Unlinkable(s)
    PROVE  /\ \A d \in Devices : WellFormed(Unlinked(s)[d])
           /\ DOMAIN Unlinked(s) = Devices
<1>1. ASSUME NEW d \in Devices
      PROVE  WellFormed(Unlinked(s)[d])
  <2>1. WellFormed(list[d])
    BY DEF AllWellFormed
  <2>2. CASE HasFilter(s) /\ d \in Covered(ifindex[s])
    <3>1. Unlinked(s)[d] = Removed(list[d], s, flistlen[s])
      BY <2>2 DEF Unlinked
    <3>2. CanRemove(list[d], s, flistlen[s])
      BY <2>2 DEF Unlinkable
    <3>3. flistlen[s] \in Nat \ {0}
      BY <2>2, Constants DEF HasFilter, Typed, TypeOK, Unbound
    <3>4. /\ Start(list[d], s) \in 1..Len(list[d].recv)
          /\ Start(list[d], s) + flistlen[s] - 1 <= Len(list[d].recv)
      BY <2>1, <3>2, StartFound DEF CanRemove
    <3>5. Start(list[d], s) \in Nat \ {0}
      BY <3>4
    <3> QED
      BY <2>1, <3>1, <3>3, <3>4, <3>5, RemovedWellFormed
  <2>3. CASE ~(HasFilter(s) /\ d \in Covered(ifindex[s]))
    BY <2>1, <2>3 DEF Unlinked
  <2> QED
    BY <2>2, <2>3
<1> QED
  BY <1>1 DEF Unlinked

LEMMA NeededIs ==
    ASSUME NEW fl \in NoFilter..MaxFilters
    PROVE  Needed(fl) \in 0..MaxReceivers /\ (Needed(fl) > 0 <=> fl # NoFilter)
  BY Constants DEF Needed, NoFilter, Null

LEMMA LinkedLists ==
    ASSUME NEW ls, \A d \in Devices : WellFormed(ls[d]), NEW s \in Sockets, NEW i,
           NEW fl \in NoFilter..MaxFilters, Linkable(ls, i, fl)
    PROVE  /\ \A d \in Devices : WellFormed(Linked(ls, s, i, fl)[d])
           /\ Linked(ls, s, i, fl) \in [Devices -> ListType]
<1>1. ASSUME NEW d \in Devices
      PROVE  WellFormed(Linked(ls, s, i, fl)[d])
  <2>1. CASE fl # NoFilter /\ d \in Covered(i)
    <3>1. Linked(ls, s, i, fl)[d] = Added(ls[d], s, Needed(fl))
      BY <2>1 DEF Linked
    <3>2. CanAdd(ls[d], Needed(fl)) /\ Needed(fl) \in Nat
      BY <2>1, NeededIs DEF Linkable
    <3> QED
      BY <3>1, <3>2, AddedWellFormed
  <2>2. CASE ~(fl # NoFilter /\ d \in Covered(i))
    BY <2>2 DEF Linked
  <2> QED
    BY <2>1, <2>2
<1>2. \A d \in Devices : Linked(ls, s, i, fl)[d] \in ListType
  BY <1>1 DEF WellFormed
<1>3. Linked(ls, s, i, fl) = [d \in Devices |-> Linked(ls, s, i, fl)[d]]
  BY DEF Linked
<1> QED
  BY <1>1, <1>2, <1>3

(* Before a binding is overtaken the run to remove is there, and after it  *)
(* nothing of the socket is left; the others keep theirs.                  *)
LEMMA UnlinkedHolds ==
    ASSUME IInv, ~overtaken, NEW s \in Sockets
    PROVE  /\ Unlinkable(s)
           /\ \A d \in present : Absent(Unlinked(s)[d], s)
           /\ \A d \in present, t \in Sockets \ {s} : Holds(Unlinked(s)[d], t, Bound(t, d))
<1>0. present \subseteq Devices /\ \A t \in Sockets, d \in Devices : Bound(t, d) \in Nat
  BY Constants DEF IInv, Typed, TypeOK, Bound, HasFilter, Unbound
<1>1. ASSUME NEW d \in present, HasFilter(s), d \in Covered(ifindex[s])
      PROVE  /\ CanRemove(list[d], s, flistlen[s]) /\ Absent(Unlinked(s)[d], s)
             /\ \A t \in Sockets \ {s} : Holds(Unlinked(s)[d], t, Bound(t, d))
  <2>1. flistlen[s] \in Nat \ {0} /\ Bound(s, d) = flistlen[s]
    BY <1>1, Constants DEF IInv, Typed, TypeOK, HasFilter, Unbound, Bound
  <2>2. WellFormed(list[d]) /\ Holds(list[d], s, flistlen[s])
    BY <1>0, <2>1 DEF IInv, AllWellFormed, Bindings
  <2>3. Unlinked(s)[d] = Removed(list[d], s, flistlen[s])
    BY <1>0, <1>1 DEF Unlinked
  <2>4. PICK a \in 1..MaxReceivers : RunAt(list[d], s, a, flistlen[s])
    BY <2>1, <2>2 DEF Holds, Exact
  <2>5. CanRemove(list[d], s, flistlen[s])
    BY <2>1, <2>2, <2>4, StartOfRun
  <2>6. \A t \in Sockets : Holds(list[d], t, Bound(t, d))
    BY DEF IInv, Bindings
  <2> QED
    BY <1>0, <2>1, <2>2, <2>3, <2>5, <2>6, RemovedHolds
<1>2. ASSUME NEW d \in present, ~(HasFilter(s) /\ d \in Covered(ifindex[s]))
      PROVE  /\ Absent(Unlinked(s)[d], s)
             /\ \A t \in Sockets \ {s} : Holds(Unlinked(s)[d], t, Bound(t, d))
  <2>1. Unlinked(s)[d] = list[d]
    BY <1>0, <1>2 DEF Unlinked
  <2>2. Bound(s, d) = 0
    BY <1>2 DEF Bound
  <2>3. \A t \in Sockets : Holds(list[d], t, Bound(t, d))
    BY DEF IInv, Bindings
  <2> QED
    BY <2>1, <2>2, <2>3 DEF Holds
<1>3. Covered(ifindex[s]) \subseteq present
  BY DEF Covered
<1> QED
  BY <1>1, <1>2, <1>3 DEF Unlinkable

LEMMA RelinkedHolds ==
    ASSUME IInv, ~overtaken, NEW s \in Sockets, NEW i, NEW fl \in NoFilter..MaxFilters,
           Linkable(Unlinked(s), i, fl), NEW d \in present
    PROVE  /\ Holds(Linked(Unlinked(s), s, i, fl)[d], s,
                    IF d \in Covered(i) THEN Needed(fl) ELSE 0)
           /\ \A t \in Sockets \ {s} :
                 Holds(Linked(Unlinked(s), s, i, fl)[d], t, Bound(t, d))
<1> DEFINE U == Unlinked(s)[d]
           N == Linked(Unlinked(s), s, i, fl)[d]
<1>0. d \in Devices /\ \A t \in Sockets : Bound(t, d) \in Nat
  BY Constants DEF IInv, Typed, TypeOK, Bound, HasFilter, Unbound
<1>1. Absent(U, s) /\ \A t \in Sockets \ {s} : Holds(U, t, Bound(t, d))
  BY UnlinkedHolds
<1>2. WellFormed(U)
  BY <1>0, UnlinkedHolds, UnlinkedLists DEF IInv
<1>3. Needed(fl) \in Nat /\ (Needed(fl) > 0 <=> fl # NoFilter)
  BY NeededIs
<1>4. CASE fl # NoFilter /\ d \in Covered(i)
  <2>1. N = Added(U, s, Needed(fl))
    BY <1>0, <1>4 DEF Linked
  <2>2. CanAdd(U, Needed(fl))
    BY <1>4 DEF Linkable
  <2> HIDE DEF U, N
  <2>3. Needed(fl) \in Nat \ {0}
    BY <1>3, <1>4
  <2>4. Holds(N, s, Needed(fl))
    BY <1>1, <1>2, <2>1, <2>2, <2>3, AddedHolds
  <2>5. \A t \in Sockets \ {s} : Holds(N, t, Bound(t, d))
    BY <1>0, <1>1, <1>2, <2>1, <2>2, <2>3, AddedHolds
  <2> QED
    BY <1>4, <2>4, <2>5 DEF N
<1>5. CASE ~(fl # NoFilter /\ d \in Covered(i))
  <2>1. N = U
    BY <1>0, <1>5 DEF Linked
  <2>2. (IF d \in Covered(i) THEN Needed(fl) ELSE 0) = 0
    BY <1>3, <1>5
  <2> HIDE DEF U, N
  <2>3. Holds(N, s, 0)
    BY <1>1, <2>1 DEF Holds
  <2> QED
    BY <1>1, <2>1, <2>2, <2>3 DEF N
<1> QED
  BY <1>4, <1>5

-----------------------------------------------------------------------------
LEMMA FreshList == WellFormed(Fresh) /\ \A s \in Sockets : Absent(Fresh, s)
<1> DEFINE e == [k \in Entries |-> k]
<1>1. e \in Seq(Entries) /\ Len(e) = MaxReceivers /\ \A k \in Entries : e[k] = k
  BY Constants DEF Entries
<1>2. Fresh.recv = <<>> /\ Fresh.empty = e /\ Fresh.free = MaxReceivers
  BY DEF Fresh
<1>3. Fresh = [recv |-> Fresh.recv, empty |-> Fresh.empty, free |-> Fresh.free]
  BY DEF Fresh
<1> HIDE DEF e
<1>4. Fresh \in ListType
  <2>1. Fresh.recv \in Seq(Recv) /\ Fresh.free \in 0..MaxReceivers
    BY <1>2, Constants
  <2> QED
    BY <1>1, <1>2, <1>3, <2>1 DEF ListType
<1>5. Len(Fresh.recv) = 0 /\ Len(Fresh.empty) = MaxReceivers
  BY <1>1, <1>2
<1>6. \A x \in Entries : \E k \in 1..Len(Fresh.empty) : Fresh.empty[k] = x
  BY <1>1, <1>2, <1>5 DEF Entries
<1>7. 0 + MaxReceivers = MaxReceivers
  BY Constants
<1>8. WellFormed(Fresh)
  BY <1>2, <1>4, <1>5, <1>6, <1>7 DEF WellFormed
<1> QED
  BY <1>5, <1>8 DEF Absent

LEMMA InitInv == Init => IInv
<1> SUFFICES ASSUME Init PROVE IInv
  OBVIOUS
<1>1. list = [i \in Devices |-> Fresh] /\ Fresh \in ListType
  BY FreshList DEF Init, WellFormed
<1>2. list \in [Devices -> ListType]
  BY <1>1
<1>3. TypeOK
  <2>1. \A i \in Devices : /\ list[i].recv \in Seq(Recv) /\ list[i].empty \in Seq(Entries)
                           /\ list[i].free \in 0..MaxReceivers
    BY <1>1 DEF ListType
  <2>2. NoCall \in [ifindex : -1..MaxDevices, flist : NoFilter..MaxFilters]
    BY Constants DEF NoCall, NoFilter, Null
  <2>3. /\ present \in SUBSET Devices /\ ifindex \in [Sockets -> 0..MaxDevices]
        /\ flistlen \in [Sockets -> Unbound..MaxReceivers]
        /\ flist \in [Sockets -> NoFilter..MaxFilters]
    BY Constants DEF Init, Unbound, NoFilter, Null
  <2>4. /\ call \in [Sockets -> [ifindex : -1..MaxDevices, flist : NoFilter..MaxFilters]]
        /\ fault \in {"none", "runaway", "badfree"} /\ overtaken \in BOOLEAN
    BY <2>2 DEF Init
  <2> QED
    BY <2>1, <2>3, <2>4, Zenon DEF TypeOK
<1>4. AllWellFormed
  BY <1>1, FreshList DEF AllWellFormed
<1>5. Bindings
  BY DEF Init, Bindings
<1> QED
  BY <1>2, <1>3, <1>4, <1>5 DEF IInv, Typed

Calls == [ifindex : -1..MaxDevices, flist : NoFilter..MaxFilters]
LEMMA TypedNext ==
    ASSUME list' \in [Devices -> ListType],
           present' \in SUBSET Devices, ifindex' \in [Sockets -> 0..MaxDevices],
           flistlen' \in [Sockets -> Unbound..MaxReceivers],
           flist' \in [Sockets -> NoFilter..MaxFilters], call' \in [Sockets -> Calls],
           fault' \in {"none", "runaway", "badfree"}, overtaken' \in BOOLEAN
    PROVE  Typed'
<1>1. ASSUME NEW i \in Devices
      PROVE  /\ list'[i].recv \in Seq(Recv) /\ list'[i].empty \in Seq(Entries)
             /\ list'[i].free \in 0..MaxReceivers
  BY DEF ListType
<1> QED
  BY <1>1, Zenon DEF Typed, TypeOK, Calls

(* A new list for a socket, bound to interface i. *)
LEMMA RelinkInv ==
    ASSUME IInv, NEW s \in Sockets, NEW i, NEW fl \in NoFilter..MaxFilters,
           Unlinkable(s), Linkable(Unlinked(s), i, fl),
           list' = Linked(Unlinked(s), s, i, fl),
           flistlen' = [flistlen EXCEPT ![s] = Needed(fl)],
           overtaken' \in BOOLEAN, overtaken => overtaken',
           ~overtaken' => ifindex' = [ifindex EXCEPT ![s] = i],
           ifindex' \in [Sockets -> 0..MaxDevices], flist' \in [Sockets -> NoFilter..MaxFilters],
           call' \in [Sockets -> Calls], UNCHANGED <<present, fault>>
    PROVE  IInv'
<1>1. /\ \A d \in Devices : WellFormed(list'[d])
      /\ list' \in [Devices -> ListType]
  BY UnlinkedLists, LinkedLists DEF IInv
<1>2. Typed'
  <2>1. flistlen' \in [Sockets -> Unbound..MaxReceivers]
    BY NeededIs, Constants DEF IInv, Typed, TypeOK, Unbound
  <2>2. present' \in SUBSET Devices /\ fault' \in {"none", "runaway", "badfree"}
    BY DEF IInv, Typed, TypeOK
  <2> QED
    BY <1>1, <2>1, <2>2, TypedNext
<1>3. AllWellFormed'
  BY <1>1 DEF AllWellFormed
<1>4. ASSUME ~overtaken', NEW t \in Sockets, NEW d \in present
      PROVE  Holds(list'[d], t, Bound(t, d)')
  <2>1. ~overtaken /\ ifindex' = [ifindex EXCEPT ![s] = i]
    BY <1>4
  <2>2. CASE t = s
    <3>1. Needed(fl) \in Nat
      BY NeededIs
    <3>2. flistlen'[s] = Needed(fl) /\ ifindex'[s] = i
      BY <2>1 DEF IInv, Typed, TypeOK
    <3>3. Bound(s, d)' = IF d \in Covered(i) THEN Needed(fl) ELSE 0
      BY <3>1, <3>2 DEF Bound, HasFilter, Covered
    <3> QED
      BY <2>1, <2>2, <3>3, RelinkedHolds
  <2>3. CASE t # s
    <3>1. Bound(t, d)' = Bound(t, d)
      BY <2>1, <2>3 DEF Bound, HasFilter, Covered, IInv, Typed, TypeOK
    <3> QED
      BY <2>1, <2>3, <3>1, RelinkedHolds
  <2> QED
    BY <2>2, <2>3
<1>5. Bindings'
  BY <1>4 DEF Bindings
<1> QED
  BY <1>2, <1>3, <1>5 DEF IInv

(* A step that leaves the lists and the bindings alone. *)
LEMMA SameListsInv ==
    ASSUME IInv, UNCHANGED <<present, list, ifindex, flistlen, overtaken>>,
           flist' \in [Sockets -> NoFilter..MaxFilters], call' \in [Sockets -> Calls],
           fault' \in {"none", "runaway", "badfree"}
    PROVE  IInv'
<1>1. Typed'
  BY TypedNext DEF IInv, Typed, TypeOK
<1>2. AllWellFormed' /\ Bindings'
  BY DEF IInv, AllWellFormed, Bindings, Bound, HasFilter, Covered
<1> QED
  BY <1>1, <1>2 DEF IInv

(* A fresh device has no entry in use; a binding that is about it is       *)
(* overtaken.                                                              *)
LEMMA RegisterInv ==
    ASSUME IInv, NEW i \in Devices, Register(i) \/ Unregister(i)
    PROVE  IInv'
<1>1. /\ list' = [list EXCEPT ![i] = Fresh] /\ UNCHANGED <<ifindex, flistlen, flist, call, fault>>
      /\ present' \in {present \cup {i}, present \ {i}} /\ overtaken' \in BOOLEAN
      /\ overtaken => overtaken'
  BY DEF Register, Unregister, IInv, Typed, TypeOK
<1>2. list' \in [Devices -> ListType]
  BY <1>1, FreshList DEF IInv, Typed, WellFormed
<1>3. Typed'
  BY <1>1, <1>2, TypedNext DEF IInv, Typed, TypeOK, Calls
<1>4. AllWellFormed'
  BY <1>1, FreshList DEF AllWellFormed, IInv, Typed
<1>5. ASSUME ~overtaken', NEW t \in Sockets, NEW d \in present'
      PROVE  Holds(list'[d], t, Bound(t, d)')
  <2>0. ~overtaken /\ d \in Devices
    BY <1>1, <1>5, <1>3 DEF Typed, TypeOK
  <2>1. CASE d = i
    <3>1. Register(i)
      BY <1>5, <2>1 DEF Unregister
    <3>2. ~(HasFilter(t) /\ ifindex[t] \in {0, i})
      BY <1>5, <3>1 DEF Register
    <3>3. Bound(t, d)' = 0
      BY <1>1, <2>1, <3>2 DEF Bound, HasFilter, Covered
    <3>4. list'[d] = Fresh
      BY <1>1, <2>0, <2>1 DEF IInv, Typed
    <3> QED
      BY <3>3, <3>4, FreshList DEF Holds
  <2>2. CASE d # i
    <3>1. d \in present /\ list'[d] = list[d]
      BY <1>1, <1>5, <2>0, <2>2 DEF IInv, Typed
    <3>2. Bound(t, d)' = Bound(t, d)
      BY <1>1, <1>5, <2>2, <3>1 DEF Bound, HasFilter, Covered
    <3> QED
      BY <2>0, <3>1, <3>2 DEF IInv, Bindings
  <2> QED
    BY <2>1, <2>2
<1>6. Bindings'
  BY <1>5 DEF Bindings
<1> QED
  BY <1>3, <1>4, <1>6 DEF IInv

LEMMA CloseInv ==
    ASSUME IInv, NEW s \in Sockets, Close(s)
    PROVE  IInv'
<1>1. CASE ~Unlinkable(s)
  BY <1>1, SameListsInv DEF Close, Crash, IInv, Typed, TypeOK, Calls
<1>2. CASE Unlinkable(s)
  <2>1. /\ list' = Unlinked(s) /\ ifindex' = [ifindex EXCEPT ![s] = 0]
        /\ flistlen' = [flistlen EXCEPT ![s] = Unbound] /\ flist' = [flist EXCEPT ![s] = Null]
        /\ UNCHANGED <<present, call, fault, overtaken>>
    BY <1>2 DEF Close
  <2>2. \A d \in Devices : WellFormed(list'[d])
    BY <1>2, <2>1, UnlinkedLists DEF IInv
  <2>3. list' \in [Devices -> ListType]
    <3>1. \A d \in Devices : list'[d] \in ListType
      BY <2>2 DEF WellFormed
    <3>2. list' = [d \in Devices |-> list'[d]]
      BY <2>1 DEF Unlinked
    <3> QED
      BY <3>1, <3>2
  <2>4. Typed'
    <3>1. /\ flistlen' \in [Sockets -> Unbound..MaxReceivers]
          /\ ifindex' \in [Sockets -> 0..MaxDevices] /\ flist' \in [Sockets -> NoFilter..MaxFilters]
      BY <2>1, Constants DEF IInv, Typed, TypeOK, Unbound, Null, NoFilter
    <3>2. /\ present' \in SUBSET Devices /\ call' \in [Sockets -> Calls]
          /\ fault' \in {"none", "runaway", "badfree"} /\ overtaken' \in BOOLEAN
      BY <2>1 DEF IInv, Typed, TypeOK, Calls
    <3> QED
      BY <2>3, <3>1, <3>2, TypedNext
  <2>5. ASSUME ~overtaken, NEW t \in Sockets, NEW d \in present
        PROVE  Holds(list'[d], t, Bound(t, d)')
    <3>1. CASE t = s
      <4>1. Bound(s, d)' = 0
        BY <2>1 DEF Bound, HasFilter, IInv, Typed, TypeOK, Unbound
      <4> QED
        BY <2>1, <2>5, <3>1, <4>1, UnlinkedHolds DEF Holds
    <3>2. CASE t # s
      <4>1. Bound(t, d)' = Bound(t, d)
        BY <2>1, <3>2 DEF Bound, HasFilter, Covered, IInv, Typed, TypeOK
      <4> QED
        BY <2>1, <2>5, <3>2, <4>1, UnlinkedHolds
    <3> QED
      BY <3>1, <3>2
  <2> QED
    BY <2>1, <2>2, <2>4, <2>5 DEF IInv, AllWellFormed, Bindings
<1> QED
  BY <1>1, <1>2

LEMMA BindInv ==
    ASSUME IInv, NEW s \in Sockets, NEW i \in 0..MaxDevices, Bind(s, i)
    PROVE  IInv'
<1>1. CASE Crash("runaway")
  BY <1>1, SameListsInv DEF Crash, IInv, Typed, TypeOK, Calls
<1>2. CASE Unlinkable(s) /\ Linkable(Unlinked(s), i, flist[s])
  <2>1. /\ list' = Linked(Unlinked(s), s, i, flist[s])
        /\ flistlen' = [flistlen EXCEPT ![s] = Needed(flist[s])]
        /\ ifindex' = [ifindex EXCEPT ![s] = i]
        /\ UNCHANGED <<present, flist, call, fault, overtaken>>
    BY <1>2 DEF Bind
  <2>2. /\ flist[s] \in NoFilter..MaxFilters /\ overtaken' \in BOOLEAN
        /\ ifindex' \in [Sockets -> 0..MaxDevices]
        /\ flist' \in [Sockets -> NoFilter..MaxFilters] /\ call' \in [Sockets -> Calls]
    BY <2>1 DEF IInv, Typed, TypeOK, Calls
  <2> QED
    BY <1>2, <2>1, <2>2, RelinkInv
<1> QED
  BY <1>1, <1>2 DEF Bind

LEMMA SetFilterInv ==
    ASSUME IInv, NEW s \in Sockets, NEW fl \in {NoFilter} \cup 1..MaxFilters, SetFilter(s, fl)
    PROVE  IInv'
<1>1. [ifindex |-> ifindex[s], flist |-> fl] \in Calls
  BY Constants DEF Calls, IInv, Typed, TypeOK, NoFilter
<1>2. call' \in [Sockets -> Calls]
  BY <1>1 DEF SetFilter, IInv, Typed, TypeOK, Calls
<1> QED
  BY <1>2, SameListsInv DEF SetFilter, IInv, Typed, TypeOK

LEMMA InstallInv ==
    ASSUME IInv, NEW s \in Sockets, Install(s)
    PROVE  IInv'
<1> DEFINE i == call[s].ifindex
           fl == call[s].flist
           done == call' = [call EXCEPT ![s] = NoCall]
<1>1. call[s] \in Calls /\ i \in -1..MaxDevices /\ fl \in NoFilter..MaxFilters
  BY DEF IInv, Typed, TypeOK, Calls
<1>2. NoCall \in Calls
  BY Constants DEF NoCall, Calls, NoFilter, Null
<1>3. ASSUME done
      PROVE  call' \in [Sockets -> Calls]
  BY <1>2, <1>3 DEF IInv, Typed, TypeOK, Calls
<1>4. \A f \in {"runaway", "badfree"} : Crash(f) => IInv'
  BY SameListsInv DEF Crash, IInv, Typed, TypeOK, Calls
<1>5. CASE done /\ UNCHANGED <<present, list, ifindex, flistlen, flist, fault, overtaken>>
  BY <1>3, <1>5, SameListsInv DEF IInv, Typed, TypeOK
<1>6. CASE /\ done /\ flist' = [flist EXCEPT ![s] = fl]
           /\ UNCHANGED <<present, list, ifindex, flistlen, fault, overtaken>>
  <2>1. flist' \in [Sockets -> NoFilter..MaxFilters]
    BY <1>1, <1>6 DEF IInv, Typed, TypeOK
  <2> QED
    BY <1>3, <1>6, <2>1, SameListsInv DEF IInv, Typed, TypeOK
<1>7. CASE /\ Unlinkable(s) /\ Linkable(Unlinked(s), i, fl) /\ call[s] # NoCall
           /\ done /\ flist' = [flist EXCEPT ![s] = fl]
           /\ list' = Linked(Unlinked(s), s, i, fl)
           /\ flistlen' = [flistlen EXCEPT ![s] = Needed(fl)]
           /\ overtaken' = (overtaken \/ i # ifindex[s])
           /\ UNCHANGED <<present, ifindex, fault>>
  <2>1. flist' \in [Sockets -> NoFilter..MaxFilters] /\ ifindex' \in [Sockets -> 0..MaxDevices]
    BY <1>1, <1>7 DEF IInv, Typed, TypeOK
  <2>2. overtaken' \in BOOLEAN /\ (overtaken => overtaken')
    BY <1>7 DEF IInv, Typed, TypeOK
  <2>3. ~overtaken' => i = ifindex[s] /\ ifindex' = [ifindex EXCEPT ![s] = i]
    BY <1>7 DEF IInv, Typed, TypeOK
  <2> QED
    BY <1>1, <1>3, <1>7, <2>1, <2>2, <2>3, RelinkInv
<1> QED
  BY <1>4, <1>5, <1>6, <1>7 DEF Install

(* The invariant is inductive. *)
LEMMA NextInv == IInv /\ [Next]_vars => IInv'
<1> SUFFICES ASSUME IInv, [Next]_vars PROVE IInv'
  OBVIOUS
<1>1. CASE UNCHANGED vars
  BY <1>1, SameListsInv DEF vars, IInv, Typed, TypeOK, Calls
<1>2. CASE Next
  BY <1>2, RegisterInv, BindInv, SetFilterInv, InstallInv, CloseInv DEF Next
<1> QED
  BY <1>1, <1>2

LEMMA Invariant == Spec => []IInv
  BY InitInv, NextInv, PTL DEF Spec

-----------------------------------------------------------------------------
(* What the invariant says of the lists, in the words of the properties.   *)
LEMMA InvPartition == IInv => ListsPartition
<1> SUFFICES ASSUME IInv, NEW d \in present
             PROVE  /\ list[d].free = Len(list[d].empty)
                    /\ Len(Links(list[d])) = MaxReceivers
                    /\ \A x \in Entries : \E k \in 1..MaxReceivers : Links(list[d])[k] = x
  BY DEF ListsPartition
<1> DEFINE L == list[d]
           r == L.recv
           e == L.empty
           lr == Len(r)
           le == Len(e)
           f == [k \in 1..lr |-> r[k].entry]
           g == f \o e
<1>1. WellFormed(L)
  BY DEF IInv, Typed, TypeOK, AllWellFormed
<1>2. r \in Seq(Recv) /\ e \in Seq(Entries) /\ lr \in Nat /\ le \in Nat
  BY <1>1 DEF WellFormed, ListType
<1>3. /\ L.free = le /\ lr + le = MaxReceivers
      /\ \A x \in Entries : \/ \E k \in 1..lr : r[k].entry = x
                            \/ \E k \in 1..le : e[k] = x
  BY <1>1, Zenon DEF WellFormed
<1>4. Links(L) = g
  BY DEF Links
<1> HIDE DEF L, r, e
<1>5. f \in Seq(Entries) /\ Len(f) = lr
  <2>1. \A k \in 1..lr : r[k] \in Recv
    BY <1>2
  <2>2. \A k \in 1..lr : r[k].entry \in Entries
    BY <2>1 DEF Recv
  <2> HIDE DEF lr
  <2> QED
    BY <1>2, <2>2
<1>6. \A k \in 1..lr : f[k] = r[k].entry
  OBVIOUS
<1> HIDE DEF f
<1>7. /\ Len(g) = lr + le
      /\ \A k \in 1..lr : g[k] = f[k]
      /\ \A k \in 1..le : g[lr + k] = e[k]
  <2>1. /\ Len(g) = Len(f) + Len(e)
        /\ \A k \in 1..Len(f) : g[k] = f[k]
        /\ \A k \in 1..Len(e) : g[Len(f) + k] = e[k]
    <3>1. f \in Seq(Entries) /\ e \in Seq(Entries)
      BY <1>2, <1>5
    <3> QED
      BY <3>1, Joined
  <2> QED
    BY <1>5, <2>1, Zenon
<1> HIDE DEF lr, le, g
<1>8. ASSUME NEW x \in Entries
      PROVE  \E k \in 1..MaxReceivers : g[k] = x
  <2>1. CASE \E k \in 1..lr : r[k].entry = x
    <3>1. PICK k \in 1..lr : r[k].entry = x
      BY <2>1
    <3>2. k \in 1..MaxReceivers /\ g[k] = x
      BY <1>2, <1>3, <1>6, <1>7, <3>1
    <3> QED
      BY <3>2
  <2>2. CASE \E k \in 1..le : e[k] = x
    <3>1. PICK k \in 1..le : e[k] = x
      BY <2>2
    <3>2. lr + k \in 1..MaxReceivers
      BY <1>2, <1>3, <3>1
    <3> QED
      BY <1>7, <3>1, <3>2
  <2> QED
    BY <1>3, <2>1, <2>2
<1>9. Len(g) = MaxReceivers
  BY <1>3, <1>7
<1> QED
  BY <1>3, <1>4, <1>8, <1>9 DEF L, e, le

LEMMA InvBinding == IInv => BindingExact
<1> SUFFICES ASSUME IInv, ~overtaken, NEW s \in Sockets, NEW d \in present
             PROVE  IF HasFilter(s) /\ d \in Covered(ifindex[s])
                    THEN \E k \in 1..MaxReceivers : Positions(s, d) = k..(k + flistlen[s] - 1)
                    ELSE Positions(s, d) = {}
  BY DEF BindingExact
<1> DEFINE r == list[d].recv
           lr == Len(r)
<1>1. lr \in Nat
  BY DEF IInv, Typed, TypeOK
<1>2. Positions(s, d) = {k \in 1..lr : r[k].sock = s}
  BY DEF Positions
<1>3. Holds(list[d], s, Bound(s, d))
  BY DEF IInv, Bindings
<1>4. CASE HasFilter(s) /\ d \in Covered(ifindex[s])
  <2>1. Bound(s, d) = flistlen[s] /\ flistlen[s] \in Nat \ {0}
    BY <1>4, Constants DEF Bound, HasFilter, IInv, Typed, TypeOK, Unbound
  <2>2. PICK a \in 1..MaxReceivers : RunAt(list[d], s, a, flistlen[s])
    BY <1>3, <2>1 DEF Holds, Exact
  <2>3. /\ a + flistlen[s] - 1 <= lr
        /\ \A j \in 1..lr : r[j].sock = s <=> a <= j /\ j < a + flistlen[s]
    BY <2>2 DEF RunAt
  <2> HIDE DEF r, lr
  <2>4. a \in Nat \ {0}
    BY Constants
  <2>5. {k \in 1..lr : r[k].sock = s} = a..(a + flistlen[s] - 1)
    <3>1. ASSUME NEW j
          PROVE  (j \in 1..lr /\ r[j].sock = s) <=> j \in a..(a + flistlen[s] - 1)
      BY <1>1, <2>1, <2>3, <2>4
    <3> QED
      BY <3>1
  <2> QED
    BY <1>2, <1>4, <2>5
<1>5. CASE ~(HasFilter(s) /\ d \in Covered(ifindex[s]))
  <2>1. \A j \in 1..lr : r[j].sock # s
    BY <1>3, <1>5 DEF Bound, Holds, Absent
  <2> QED
    BY <1>2, <1>5, <2>1
<1> QED
  BY <1>4, <1>5

(* What rtcan_raw_check_filter counts as free is what empty_list holds     *)
(* once the old entries are back in it.                                    *)
LEMMA InvWalks == IInv => WalksEnd
<1> SUFFICES ASSUME IInv, ~overtaken, NEW s \in Sockets
             PROVE  /\ Unlinkable(s)
                    /\ \A i \in 0..MaxDevices, fl \in NoFilter..MaxFilters :
                          Fits(s, i, fl) => Linkable(Unlinked(s), i, fl)
  BY DEF WalksEnd
<1>1. Unlinkable(s)
  BY UnlinkedHolds
<1>2. ASSUME NEW i \in 0..MaxDevices, NEW fl \in NoFilter..MaxFilters, Fits(s, i, fl),
             NEW d \in Covered(i)
      PROVE  CanAdd(Unlinked(s)[d], Needed(fl))
  <2>1. d \in present /\ d \in Devices
    BY DEF Covered, IInv, Typed, TypeOK
  <2>2. WellFormed(list[d]) /\ WellFormed(Unlinked(s)[d])
    BY <1>1, <2>1, UnlinkedLists DEF IInv, AllWellFormed
  <2>3. list[d].free = Len(list[d].empty) /\ Len(list[d].empty) \in Nat
    BY <2>2 DEF WellFormed, ListType
  <2>4. CASE HasFilter(s) /\ ifindex[s] \in {0, d}
    <3>1. d \in Covered(ifindex[s]) /\ Unlinked(s)[d] = Removed(list[d], s, flistlen[s])
      BY <2>1, <2>4 DEF Covered, Unlinked
    <3>2. list[d].free + flistlen[s] >= Needed(fl)
      BY <1>2, <2>4 DEF Fits
    <3>3. flistlen[s] \in Nat \ {0} /\ Bound(s, d) = flistlen[s]
      BY <2>4, <3>1, Constants DEF HasFilter, Bound, IInv, Typed, TypeOK, Unbound
    <3>4. Holds(list[d], s, flistlen[s])
      BY <2>1, <3>3 DEF IInv, Bindings
    <3>5. PICK a \in 1..MaxReceivers : RunAt(list[d], s, a, flistlen[s])
      BY <3>3, <3>4 DEF Holds, Exact
    <3>6. a = Start(list[d], s) /\ a + flistlen[s] - 1 <= Len(list[d].recv) /\ a \in Nat \ {0}
      BY <2>2, <3>3, <3>5, StartOfRun, Constants
    <3>7. IsRemoved(Unlinked(s)[d], list[d], a, flistlen[s])
      BY <2>2, <3>1, <3>3, <3>6, RemovedLists
    <3>8. Len(Unlinked(s)[d].empty) = flistlen[s] + Len(list[d].empty)
      BY <3>7 DEF IsRemoved
    <3>9. flistlen[s] + Len(list[d].empty) >= Needed(fl)
      BY <2>3, <3>2, <3>3, NeededIs
    <3> QED
      BY <3>8, <3>9 DEF CanAdd
  <2>5. CASE ~(HasFilter(s) /\ ifindex[s] \in {0, d})
    <3>1. Unlinked(s)[d] = list[d]
      BY <2>1, <2>5 DEF Covered, Unlinked
    <3>2. list[d].free + 0 >= Needed(fl)
      BY <1>2, <2>5 DEF Fits
    <3>3. Len(list[d].empty) >= Needed(fl)
      BY <2>3, <3>2, NeededIs
    <3> QED
      BY <3>1, <3>3 DEF CanAdd
  <2> QED
    BY <2>4, <2>5
<1> QED
  BY <1>1, <1>2 DEF Linkable

-----------------------------------------------------------------------------
(* The types, with the fields of every device's lists. *)
THEOREM TypeCorrect == Spec => []TypeOK
<1>1. IInv => TypeOK
  BY DEF IInv, Typed
<1> QED
  BY <1>1, Invariant, PTL

(* No entry of a device is ever lost or in two lists, and free_entries is  *)
(* the length of empty_list, whatever sockets bind, set filters and close, *)
(* and even after a binding was overtaken.                                 *)
THEOREM NoEntryLost == Spec => []ListsPartition
  BY Invariant, InvPartition, PTL

(* Until a binding is overtaken a socket has, on each device of its        *)
(* binding, one run of flistlen entries, and none elsewhere.               *)
THEOREM BindingIsExact == Spec => []BindingExact
  BY Invariant, InvBinding, PTL

(* Until then no list walk of rtcan_raw_filter.c runs off its list, for    *)
(* any number of entries and filters.                                      *)
THEOREM NoWalkRunsOff == Spec => []WalksEnd
  BY Invariant, InvWalks, PTL

(* The crash in a list walk, as a part of the inductive invariant. *)
NoRunaway == fault = "runaway" => overtaken

LEMMA RunawayStep == IInv /\ NoRunaway /\ [Next]_vars => NoRunaway'
<1> SUFFICES ASSUME IInv, NoRunaway, [Next]_vars PROVE NoRunaway'
  OBVIOUS
<1> USE DEF NoRunaway
<1>0. WalksEnd
  BY InvWalks
<1>1. CASE UNCHANGED vars
  BY <1>1 DEF vars
<1>2. ASSUME NEW i \in Devices, Register(i) \/ Unregister(i)
      PROVE  NoRunaway'
  BY <1>2 DEF Register, Unregister, Running
<1>3. ASSUME NEW s \in Sockets, NEW i \in 0..MaxDevices, Bind(s, i)
      PROVE  NoRunaway'
  <2>1. flist[s] \in NoFilter..MaxFilters
    BY DEF IInv, Typed, TypeOK
  <2>2. ~overtaken => Unlinkable(s) /\ Linkable(Unlinked(s), i, flist[s])
    BY <1>0, <1>3, <2>1 DEF WalksEnd, Bind
  <2> QED
    BY <1>3, <2>2 DEF Bind, Crash
<1>4. ASSUME NEW s \in Sockets, NEW fl \in {NoFilter} \cup 1..MaxFilters, SetFilter(s, fl)
      PROVE  NoRunaway'
  BY <1>4 DEF SetFilter
<1>5. ASSUME NEW s \in Sockets, Install(s)
      PROVE  NoRunaway'
  <2> DEFINE i == call[s].ifindex
             fl == call[s].flist
  <2>1. i \in -1..MaxDevices /\ fl \in NoFilter..MaxFilters
    BY DEF IInv, Typed, TypeOK
  <2>2. ~overtaken => Unlinkable(s)
    BY <1>0 DEF WalksEnd
  <2>3. ~overtaken /\ Fits(s, i, fl) => Linkable(Unlinked(s), i, fl)
    <3>1. CASE i = -1
      <4>1. Covered(-1) = {}
        BY Constants DEF Covered, IInv, Typed, TypeOK, Devices
      <4> QED
        BY <3>1, <4>1 DEF Linkable
    <3>2. CASE i # -1
      <4>1. i \in 0..MaxDevices
        BY <2>1, <3>2, Constants
      <4> HIDE DEF i, fl
      <4> QED
        BY <1>0, <2>1, <4>1 DEF WalksEnd
    <3> QED
      BY <3>1, <3>2
  <2> QED
    BY <1>5, <2>2, <2>3 DEF Install, Crash, Running
<1>6. ASSUME NEW s \in Sockets, Close(s)
      PROVE  NoRunaway'
  BY <1>0, <1>6 DEF Close, Crash, WalksEnd
<1> QED
  BY <1>1, <1>2, <1>3, <1>4, <1>5, <1>6 DEF Next

(* So the kernel does not crash in a list walk before a binding was        *)
(* overtaken, not even when setsockopt uses an ifindex it read before the  *)
(* lock.                                                                   *)
THEOREM NoCrashInWalk == Spec => [](fault = "runaway" => overtaken)
<1>1. Init => NoRunaway
  BY DEF Init, NoRunaway
<1>2. NoRunaway <=> (fault = "runaway" => overtaken)
  BY DEF NoRunaway
<1> QED
  BY <1>1, <1>2, Invariant, RunawayStep, PTL DEF Spec

-----------------------------------------------------------------------------
(* The entries of a socket and their order: Keeps says that what L has in  *)
(* order for socket t, M has too.                                          *)
Keeps(L, M, t) ==
    \A j \in 1..Len(L.recv), k \in 1..Len(L.recv) :
        j <= k /\ L.recv[j].sock = t /\ L.recv[k].sock = t =>
            \E x \in 1..Len(M.recv), y \in 1..Len(M.recv) :
                x <= y /\ M.recv[x] = L.recv[j] /\ M.recv[y] = L.recv[k]

LEMMA KeepsOrder ==
    ASSUME NEW L, NEW M, NEW t, Keeps(L, M, t), Keeps(M, L, t)
    PROVE  EntriesOf(M, t) = EntriesOf(L, t)
<1>1. ASSUME NEW A, NEW B, Keeps(A, B, t)
      PROVE  EntriesOf(A, t) \subseteq EntriesOf(B, t)
  <2> SUFFICES ASSUME NEW p \in Entries \X Entries,
                      NEW j \in 1..Len(A.recv), NEW k \in 1..Len(A.recv), j <= k,
                      A.recv[j] = [entry |-> p[1], sock |-> t],
                      A.recv[k] = [entry |-> p[2], sock |-> t]
               PROVE  \E x \in 1..Len(B.recv), y \in 1..Len(B.recv) :
                         /\ x <= y /\ B.recv[x] = [entry |-> p[1], sock |-> t]
                         /\ B.recv[y] = [entry |-> p[2], sock |-> t]
    BY DEF EntriesOf
  <2>1. A.recv[j].sock = t /\ A.recv[k].sock = t
    OBVIOUS
  <2>2. PICK x \in 1..Len(B.recv), y \in 1..Len(B.recv) :
           x <= y /\ B.recv[x] = A.recv[j] /\ B.recv[y] = A.recv[k]
    <3>1. j <= k /\ A.recv[j].sock = t /\ A.recv[k].sock = t
      BY <2>1
    <3> QED
      BY <1>1, <3>1, Zenon DEF Keeps
  <2> QED
    BY <2>2
<1> QED
  BY <1>1

(* Adding entries for s keeps those of another socket: they move back by n. *)
LEMMA AddedKeeps ==
    ASSUME NEW L, WellFormed(L), NEW s \in Sockets, NEW n \in Nat, CanAdd(L, n),
           NEW t \in Sockets \ {s}
    PROVE  EntriesOf(Added(L, s, n), t) = EntriesOf(L, t)
<1> DEFINE A == Added(L, s, n)
           r == L.recv
           nr == A.recv
           lr == Len(r)
<1>1. IsAdded(A, L, s, n)
  BY AddedLists
<1> HIDE DEF A
<1>2. /\ Len(nr) = n + lr /\ lr \in Nat
      /\ \A k \in 1..n : nr[k] = [entry |-> L.empty[k], sock |-> s]
      /\ \A k \in 1..lr : nr[n + k] = r[k]
  BY <1>1 DEF IsAdded, WellFormed, ListType
<1>3. ASSUME NEW k \in 1..n
      PROVE  nr[k].sock # t
  <2> HIDE DEF nr
  <2>1. nr[k] = [entry |-> L.empty[k], sock |-> s]
    BY <1>2
  <2> QED
    BY <2>1
<1>4. Keeps(L, A, t)
  <2> SUFFICES ASSUME NEW j \in 1..lr, NEW k \in 1..lr, j <= k
               PROVE  \E x \in 1..Len(nr), y \in 1..Len(nr) :
                         x <= y /\ nr[x] = r[j] /\ nr[y] = r[k]
    BY DEF Keeps
  <2> HIDE DEF r, nr, lr
  <2>1. n + j \in 1..Len(nr) /\ n + k \in 1..Len(nr) /\ n + j <= n + k
    BY <1>2
  <2>2. nr[n + j] = r[j] /\ nr[n + k] = r[k]
    BY <1>2
  <2> QED
    BY <2>1, <2>2
<1>5. Keeps(A, L, t)
  <2> SUFFICES ASSUME NEW j \in 1..Len(nr), NEW k \in 1..Len(nr), j <= k,
                      nr[j].sock = t, nr[k].sock = t
               PROVE  \E x \in 1..lr, y \in 1..lr :
                         x <= y /\ r[x] = nr[j] /\ r[y] = nr[k]
    BY DEF Keeps
  <2> HIDE DEF r, nr, lr
  <2>1. j \notin 1..n /\ k \notin 1..n
    BY <1>3
  <2>2. j - n \in 1..lr /\ k - n \in 1..lr /\ j - n <= k - n
    BY <1>2, <2>1
  <2>3. n + (j - n) = j /\ n + (k - n) = k
    BY <1>2
  <2>4. nr[n + (j - n)] = r[j - n] /\ nr[n + (k - n)] = r[k - n]
    BY <1>2, <2>2
  <2> QED
    BY <2>2, <2>3, <2>4
<1> QED
  BY <1>4, <1>5, KeepsOrder DEF A

(* Removing the run of s keeps the entries of another socket: those behind *)
(* the run move up by n.                                                   *)
LEMMA RemovedKeeps ==
    ASSUME NEW L, WellFormed(L), NEW s \in Sockets, NEW n \in Nat \ {0}, Holds(L, s, n),
           NEW t \in Sockets \ {s}
    PROVE  EntriesOf(Removed(L, s, n), t) = EntriesOf(L, t)
<1> DEFINE R == Removed(L, s, n)
           r == L.recv
           nr == R.recv
           lr == Len(r)
<1>a. PICK k \in 1..MaxReceivers : RunAt(L, s, k, n)
  BY DEF Holds, Exact
<1>b. k \in Nat \ {0} /\ k = Start(L, s) /\ k + n - 1 <= Len(L.recv)
  BY <1>a, StartOfRun, Constants
<1>c. IsRemoved(R, L, k, n)
  BY <1>b, RemovedLists
<1> HIDE DEF R
<1>1. /\ \A j \in 1..(k - 1) : nr[j] = r[j]
      /\ \A j \in k..(lr - n) : nr[j] = r[j + n]
  BY <1>c DEF IsRemoved
<1>2. Len(nr) = lr - n /\ lr \in Nat /\ k + n - 1 <= lr
  BY <1>b, <1>c DEF IsRemoved, WellFormed, ListType
<1>3. \A j \in 1..lr : r[j].sock = t => j < k \/ j >= k + n
  BY <1>a, <1>b, <1>2 DEF RunAt
<1> DEFINE up(j) == IF j < k THEN j ELSE j - n
           back(j) == IF j < k THEN j ELSE j + n
<1>4. Keeps(L, R, t)
  <2> SUFFICES ASSUME NEW i \in 1..lr, NEW j \in 1..lr, i <= j, r[i].sock = t, r[j].sock = t
               PROVE  \E x \in 1..Len(nr), y \in 1..Len(nr) :
                         x <= y /\ nr[x] = r[i] /\ nr[y] = r[j]
    BY DEF Keeps
  <2> HIDE DEF r, nr, lr
  <2>1. ASSUME NEW q \in 1..lr, r[q].sock = t
        PROVE  up(q) \in 1..Len(nr) /\ nr[up(q)] = r[q]
    <3>1. CASE q < k
      <4>1. q \in 1..(k - 1) /\ q \in 1..Len(nr)
        BY <1>2, <1>b, <3>1
      <4> QED
        BY <1>1, <3>1, <4>1
    <3>2. CASE q >= k + n
      <4>1. q - n \in k..(lr - n) /\ q - n \in 1..Len(nr) /\ (q - n) + n = q /\ ~(q < k)
        BY <1>2, <1>b, <3>2
      <4> QED
        BY <1>1, <4>1
    <3> QED
      BY <1>3, <2>1, <3>1, <3>2
  <2>2. up(i) <= up(j)
    BY <1>3, <1>b
  <2> QED
    BY <2>1, <2>2
<1>5. Keeps(R, L, t)
  <2> SUFFICES ASSUME NEW i \in 1..Len(nr), NEW j \in 1..Len(nr), i <= j
               PROVE  \E x \in 1..lr, y \in 1..lr :
                         x <= y /\ r[x] = nr[i] /\ r[y] = nr[j]
    BY DEF Keeps
  <2> HIDE DEF r, nr, lr
  <2>1. ASSUME NEW q \in 1..Len(nr)
        PROVE  back(q) \in 1..lr /\ r[back(q)] = nr[q]
    <3>1. CASE q < k
      <4>1. q \in 1..(k - 1) /\ q \in 1..lr
        BY <1>2, <1>b, <3>1
      <4> QED
        BY <1>1, <3>1, <4>1
    <3>2. CASE q >= k
      <4>1. q \in k..(lr - n) /\ q + n \in 1..lr /\ ~(q < k)
        BY <1>2, <1>b, <3>2
      <4> QED
        BY <1>1, <4>1
    <3> QED
      BY <1>2, <1>b, <3>1, <3>2
  <2>2. back(i) <= back(j)
    BY <1>2, <1>b
  <2> QED
    BY <2>1, <2>2
<1> QED
  BY <1>4, <1>5, KeepsOrder DEF R

(* Removing a run and adding one of the same length gives the socket the   *)
(* entries it had, since empty_list is taken from and added to at its head. *)
LEMMA RelinkedKeeps ==
    ASSUME NEW L, WellFormed(L), NEW s \in Sockets, NEW n \in Nat \ {0}, Holds(L, s, n),
           NEW R, R = Removed(L, s, n), WellFormed(R), CanAdd(R, n)
    PROVE  EntriesOf(Added(R, s, n), s) = EntriesOf(L, s)
<1> DEFINE A == Added(R, s, n)
           r == L.recv
           nr == A.recv
           lr == Len(r)
<1>a. PICK k \in 1..MaxReceivers : RunAt(L, s, k, n)
  BY DEF Holds, Exact
<1>b. k \in Nat \ {0} /\ k = Start(L, s) /\ k + n - 1 <= Len(L.recv)
  BY <1>a, StartOfRun, Constants
<1>c. IsRemoved(R, L, k, n) /\ IsAdded(A, R, s, n) /\ Absent(R, s)
  BY <1>b, RemovedLists, RemovedHolds, AddedLists
<1> HIDE DEF A
<1>1. /\ lr \in Nat /\ k + n - 1 <= lr /\ Len(nr) = n + (lr - n)
      /\ r \in Seq(Recv)
  BY <1>b, <1>c DEF IsRemoved, IsAdded, WellFormed, ListType
<1>2. \A j \in 1..lr : r[j].sock = s <=> k <= j /\ j < k + n
  BY <1>a DEF RunAt
<1>3. \A j \in 1..n : nr[j] = [entry |-> r[k + j - 1].entry, sock |-> s]
  BY <1>c DEF IsRemoved, IsAdded
<1>4. ASSUME NEW j \in 1..(lr - n)
      PROVE  nr[n + j].sock # s
  <2>1. j \in 1..Len(R.recv)
    BY <1>c DEF IsRemoved
  <2>2. nr[n + j] = R.recv[j]
    BY <1>c, <2>1 DEF IsAdded
  <2>3. R.recv[j].sock # s
    BY <1>c, <2>1 DEF Absent
  <2> QED
    BY <2>2, <2>3
<1> HIDE DEF r, nr, lr
<1>5. ASSUME NEW j \in 1..n
      PROVE  j \in 1..Len(nr) /\ k + j - 1 \in 1..lr /\ nr[j] = r[k + j - 1]
  <2>1. j \in 1..Len(nr) /\ k + j - 1 \in 1..lr /\ k <= k + j - 1 /\ k + j - 1 < k + n
    BY <1>1, <1>b
  <2>2. r[k + j - 1] \in Recv /\ r[k + j - 1].sock = s
    <3>1. \A q \in 1..lr : r[q] \in Recv
      BY <1>1 DEF lr
    <3> QED
      BY <1>2, <2>1, <3>1
  <2>3. r[k + j - 1] = [entry |-> r[k + j - 1].entry, sock |-> s]
    BY <2>2 DEF Recv
  <2> QED
    BY <1>3, <2>1, <2>3
<1>6. Keeps(L, A, s)
  <2> SUFFICES ASSUME NEW i \in 1..lr, NEW j \in 1..lr, i <= j, r[i].sock = s, r[j].sock = s
               PROVE  \E x \in 1..Len(nr), y \in 1..Len(nr) :
                         x <= y /\ nr[x] = r[i] /\ nr[y] = r[j]
    BY DEF Keeps, r, nr, lr
  <2>1. ASSUME NEW q \in 1..lr, r[q].sock = s
        PROVE  q - k + 1 \in 1..n /\ k + (q - k + 1) - 1 = q
    BY <1>2, <1>b, <2>1
  <2>2. i - k + 1 <= j - k + 1
    BY <1>b
  <2>3. nr[i - k + 1] = r[i] /\ i - k + 1 \in 1..Len(nr)
    BY <1>5, <2>1
  <2>4. nr[j - k + 1] = r[j] /\ j - k + 1 \in 1..Len(nr)
    BY <1>5, <2>1
  <2> QED
    BY <2>2, <2>3, <2>4
<1>7. Keeps(A, L, s)
  <2> SUFFICES ASSUME NEW i \in 1..Len(nr), NEW j \in 1..Len(nr), i <= j,
                      nr[i].sock = s, nr[j].sock = s
               PROVE  \E x \in 1..lr, y \in 1..lr :
                         x <= y /\ r[x] = nr[i] /\ r[y] = nr[j]
    BY DEF Keeps, r, nr, lr
  <2>1. ASSUME NEW q \in 1..Len(nr), nr[q].sock = s
        PROVE  q \in 1..n
    <3>1. CASE q > n
      <4>1. q - n \in 1..(lr - n) /\ n + (q - n) = q
        BY <1>1, <3>1
      <4>2. nr[n + (q - n)].sock # s
        BY <1>4, <4>1
      <4> QED
        BY <2>1, <4>1, <4>2
    <3> QED
      BY <1>1, <3>1
  <2>2. i \in 1..n /\ j \in 1..n
    BY <2>1
  <2>3. k + i - 1 <= k + j - 1
    BY <1>b
  <2> QED
    BY <1>5, <2>2, <2>3
<1> QED
  BY <1>6, <1>7, KeepsOrder DEF A

(* The same for the loops over the devices. *)
LEMMA UnlinkedEntries ==
    ASSUME IInv, ~overtaken, NEW s \in Sockets, NEW d \in present, NEW t \in Sockets \ {s}
    PROVE  EntriesOf(Unlinked(s)[d], t) = EntriesOf(list[d], t)
<1>1. d \in Devices
  BY DEF IInv, Typed, TypeOK
<1>2. CASE HasFilter(s) /\ d \in Covered(ifindex[s])
  <2>1. flistlen[s] \in Nat \ {0} /\ Bound(s, d) = flistlen[s]
    BY <1>2, Constants DEF IInv, Typed, TypeOK, HasFilter, Unbound, Bound
  <2>2. WellFormed(list[d]) /\ Holds(list[d], s, flistlen[s])
    BY <1>1, <2>1 DEF IInv, AllWellFormed, Bindings
  <2>3. Unlinked(s)[d] = Removed(list[d], s, flistlen[s])
    BY <1>1, <1>2 DEF Unlinked
  <2> QED
    BY <2>1, <2>2, <2>3, RemovedKeeps
<1>3. CASE ~(HasFilter(s) /\ d \in Covered(ifindex[s]))
  BY <1>1, <1>3 DEF Unlinked
<1> QED
  BY <1>2, <1>3

LEMMA RelinkedEntries ==
    ASSUME IInv, ~overtaken, NEW s \in Sockets, NEW i, NEW fl \in NoFilter..MaxFilters,
           Linkable(Unlinked(s), i, fl), NEW d \in present
    PROVE  /\ \A t \in Sockets \ {s} :
                 EntriesOf(Linked(Unlinked(s), s, i, fl)[d], t) = EntriesOf(list[d], t)
           /\ i = ifindex[s] /\ Needed(fl) = flistlen[s] =>
                 EntriesOf(Linked(Unlinked(s), s, i, fl)[d], s) = EntriesOf(list[d], s)
<1> DEFINE U == Unlinked(s)[d]
           N == Linked(Unlinked(s), s, i, fl)[d]
           n == Needed(fl)
<1>1. d \in Devices
  BY DEF IInv, Typed, TypeOK
<1>2. WellFormed(U) /\ \A t \in Sockets \ {s} : EntriesOf(U, t) = EntriesOf(list[d], t)
  BY <1>1, UnlinkedHolds, UnlinkedLists, UnlinkedEntries DEF IInv
<1>3. n \in Nat /\ (n > 0 <=> fl # NoFilter)
  BY NeededIs
<1>4. CASE fl # NoFilter /\ d \in Covered(i)
  <2>1. N = Added(U, s, n) /\ CanAdd(U, n)
    BY <1>1, <1>4 DEF Linked, Linkable
  <2>2. \A t \in Sockets \ {s} : EntriesOf(N, t) = EntriesOf(list[d], t)
    <3> HIDE DEF U, N, n
    <3> QED
      BY <1>2, <1>3, <2>1, AddedKeeps
  <2>3. ASSUME i = ifindex[s], n = flistlen[s]
        PROVE  EntriesOf(N, s) = EntriesOf(list[d], s)
    <3>1. n \in Nat \ {0} /\ HasFilter(s) /\ Bound(s, d) = n
      BY <1>3, <1>4, <2>3 DEF HasFilter, Bound
    <3>2. WellFormed(list[d]) /\ Holds(list[d], s, n)
      BY <1>1, <3>1 DEF IInv, AllWellFormed, Bindings
    <3>3. U = Removed(list[d], s, n)
      BY <1>1, <1>4, <2>3, <3>1 DEF Unlinked
    <3> HIDE DEF U, N, n
    <3> QED
      BY <1>2, <2>1, <3>1, <3>2, <3>3, RelinkedKeeps
  <2> QED
    BY <2>2, <2>3
<1>5. CASE ~(fl # NoFilter /\ d \in Covered(i))
  <2>1. N = U
    BY <1>1, <1>5 DEF Linked
  <2>2. ASSUME i = ifindex[s], n = flistlen[s]
        PROVE  U = list[d]
    BY <1>1, <1>3, <1>5, <2>2 DEF Unlinked, HasFilter
  <2> QED
    BY <1>2, <2>1, <2>2
<1> QED
  BY <1>4, <1>5

(* What a step leaves of the entries of the sockets whose binding it does  *)
(* not change.                                                             *)
EntriesStay ==
    ~overtaken' =>
        \A s \in Sockets, d \in present \cap present' :
            flistlen'[s] = flistlen[s] /\ ifindex'[s] = ifindex[s]
               => EntriesOf(list'[d], s) = EntriesOf(list[d], s)

LEMMA RelinkStays ==
    ASSUME IInv, NEW s \in Sockets, NEW i, NEW fl \in NoFilter..MaxFilters,
           Linkable(Unlinked(s), i, fl), list' = Linked(Unlinked(s), s, i, fl),
           flistlen'[s] = Needed(fl), overtaken => overtaken', present' = present,
           ~overtaken' /\ ifindex'[s] = ifindex[s] => i = ifindex[s]
    PROVE  EntriesStay
<1> SUFFICES ASSUME ~overtaken', NEW t \in Sockets, NEW d \in present,
                    flistlen'[t] = flistlen[t], ifindex'[t] = ifindex[t]
             PROVE  EntriesOf(list'[d], t) = EntriesOf(list[d], t)
  BY DEF EntriesStay
<1>1. CASE t = s
  BY <1>1, RelinkedEntries
<1>2. CASE t # s
  BY <1>2, RelinkedEntries
<1> QED
  BY <1>1, <1>2

LEMMA EntriesStep == IInv /\ [Next]_vars => EntriesStay
<1> SUFFICES ASSUME IInv, [Next]_vars PROVE EntriesStay
  OBVIOUS
<1>1. ASSUME list' = list
      PROVE  EntriesStay
  BY <1>1 DEF EntriesStay
<1>2. ASSUME NEW i \in Devices, Register(i) \/ Unregister(i)
      PROVE  EntriesStay
  <2>1. \A d \in present \cap present' : list'[d] = list[d]
    BY <1>2 DEF Register, Unregister, IInv, Typed, TypeOK
  <2> QED
    BY <2>1 DEF EntriesStay
<1>3. ASSUME NEW s \in Sockets, NEW i \in 0..MaxDevices, Bind(s, i)
      PROVE  EntriesStay
  <2>1. CASE Crash("runaway")
    BY <1>1, <2>1 DEF Crash
  <2>2. CASE /\ Linkable(Unlinked(s), i, flist[s]) /\ list' = Linked(Unlinked(s), s, i, flist[s])
             /\ flistlen' = [flistlen EXCEPT ![s] = Needed(flist[s])]
             /\ ifindex' = [ifindex EXCEPT ![s] = i]
             /\ UNCHANGED <<present, flist, call, fault, overtaken>>
    <3>1. flist[s] \in NoFilter..MaxFilters /\ flistlen'[s] = Needed(flist[s]) /\ ifindex'[s] = i
      BY <2>2 DEF IInv, Typed, TypeOK
    <3> QED
      BY <2>2, <3>1, RelinkStays
  <2> QED
    BY <1>3, <2>1, <2>2 DEF Bind
<1>4. ASSUME NEW s \in Sockets, NEW fl \in {NoFilter} \cup 1..MaxFilters, SetFilter(s, fl)
      PROVE  EntriesStay
  BY <1>1, <1>4 DEF SetFilter
<1>5. ASSUME NEW s \in Sockets, Install(s)
      PROVE  EntriesStay
  <2> DEFINE i == call[s].ifindex
             fl == call[s].flist
  <2>1. CASE /\ Linkable(Unlinked(s), i, fl) /\ list' = Linked(Unlinked(s), s, i, fl)
             /\ flistlen' = [flistlen EXCEPT ![s] = Needed(fl)]
             /\ overtaken' = (overtaken \/ i # ifindex[s])
             /\ UNCHANGED <<present, ifindex, fault>>
    <3>1. fl \in NoFilter..MaxFilters /\ flistlen'[s] = Needed(fl)
      BY <2>1 DEF IInv, Typed, TypeOK
    <3>2. (overtaken => overtaken') /\ (~overtaken' => i = ifindex[s])
      BY <2>1
    <3> HIDE DEF i, fl
    <3> QED
      BY <2>1, <3>1, <3>2, RelinkStays
  <2> QED
    BY <1>1, <1>5, <2>1 DEF Install, Crash
<1>6. ASSUME NEW s \in Sockets, Close(s)
      PROVE  EntriesStay
  <2>1. CASE Crash("runaway")
    BY <1>1, <2>1 DEF Crash
  <2>2. CASE /\ list' = Unlinked(s) /\ flistlen' = [flistlen EXCEPT ![s] = Unbound]
             /\ UNCHANGED <<present, call, fault, overtaken>>
    <3> SUFFICES ASSUME ~overtaken', NEW t \in Sockets, NEW d \in present,
                        flistlen'[t] = flistlen[t]
                 PROVE  EntriesOf(list'[d], t) = EntriesOf(list[d], t)
      BY <2>2 DEF EntriesStay
    <3>1. CASE t # s
      BY <2>2, <3>1, UnlinkedEntries
    <3>2. CASE t = s
      <4>1. ~HasFilter(s) /\ d \in Devices
        BY <2>2, <3>2 DEF HasFilter, Unbound, IInv, Typed, TypeOK
      <4>2. list'[d] = list[d]
        BY <2>2, <4>1 DEF Unlinked
      <4> QED
        BY <4>2
    <3> QED
      BY <3>1, <3>2
  <2> QED
    BY <1>6, <2>1, <2>2 DEF Close
<1>7. CASE UNCHANGED vars
  BY <1>1, <1>7 DEF vars
<1> QED
  BY <1>2, <1>3, <1>4, <1>5, <1>6, <1>7 DEF Next

(* Until a binding is overtaken a socket keeps its entries, in order,      *)
(* while others bind, set filters and close, while its own bind fails with *)
(* -ENOSPC, and when it binds again to what it is bound to.                *)
THEOREM EntriesKept == Spec => EntriesFollowBinding
<1>1. IInv /\ [Next]_vars => [EntriesStay]_vars
  BY EntriesStep
<1> QED
  BY <1>1, Invariant, PTL DEF Spec, EntriesFollowBinding, EntriesStay
=============================================================================
