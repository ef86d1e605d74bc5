---------------------------- MODULE CanRingProofs ----------------------------
(***************************************************************************)
(* The receive ring of a CAN socket holds whole frames in order and        *)
(* recv_sem counts them, for any number of readers, any size of the ring   *)
(* and any frames.                                                         *)
(*                                                                         *)
(* The inductive invariant adds to the two properties what makes a read    *)
(* measure the frame at recv_head as deliver did (Measured), and that      *)
(* nobody is inside a closed socket (ClosedIsIdle).  The offsets of the    *)
(* frames are a recursive function; the first lemmas show that it exists   *)
(* and what appending and removing a frame do to it.                       *)
(***************************************************************************)
EXTENDS CanRing, FiniteSetTheorems, WellFoundedInduction, TLAPS

(* The length recvmsg computes from the header of a frame is the length of *)
(* its payload, or the payload is longer than 8 bytes.                     *)
Fair(f) ==
    \/ f.data = IF f.rtr THEN 0 ELSE Lesser(f.dlc, MaxData)
    \/ f.data > MaxData
Measured == Fair(walk.skb) /\ \A i \in 1..Len(queue) : Fair(queue[i])

ClosedIsIdle == ~open => walk.left = 0 /\ \A r \in Readers : call[r].pc = "idle"

IInv == TypeOK /\ Measured /\ ClosedIsIdle /\ RingHoldsFrames /\ PermitPerFrame

-----------------------------------------------------------------------------
(* Sets of natural numbers have a least element: the form of induction     *)
(* used below.                                                             *)
LEMMA LeastElement ==
    ASSUME NEW T, T \subseteq Nat, T # {}
    PROVE  \E x \in T : \A y \in T : x <= y
<1> DEFINE R == OpToRel(<, Nat)
<1>1. IsWellFoundedOn(R, Nat)
  BY NatLessThanWellFounded
<1>2. \A x, y \in Nat : x < y => <<x, y>> \in R
  BY DEF OpToRel
<1> HIDE DEF R
<1>3. PICK x \in T : \A y \in T : <<y, x>> \notin R
  BY <1>1, WFMin
<1>4. \A y \in T : ~(y < x)
  BY <1>2, <1>3
<1>5. \A y \in T : x <= y
  BY <1>4
<1> QED
  BY <1>5

LEMMA SizeType ==
    ASSUME NEW f \in FrameSet
    PROVE  SizeOf(f) \in Nat /\ SizeOf(f) >= HeaderSize + f.data /\ SizeOf(f) > 1
<1>1. f.data \in Nat /\ f.ts \in BOOLEAN
  BY DEF FrameSet
<1>2. HeaderSize \in Nat /\ HeaderSize > 1 /\ TimestampSize \in Nat
  BY CanRingAssumption
<1>3. CASE f.ts
  BY <1>1, <1>2, <1>3 DEF SizeOf
<1>4. CASE ~f.ts
  BY <1>1, <1>2, <1>4 DEF SizeOf
<1> QED
  BY <1>3, <1>4

-----------------------------------------------------------------------------
(* The offsets of frames lying one after the other.  sz[i] is the size of  *)
(* frame i.                                                                *)
Layout(at, q) ==
    /\ at \in [1..(Len(q) + 1) -> Nat] /\ at[1] = 0
    /\ \A i \in 1..Len(q) : at[i + 1] = at[i] + SizeOf(q[i])

LEMMA SizesOf ==
    ASSUME NEW q \in Seq(FrameSet)
    PROVE  Len(q) \in Nat /\ \A i \in 1..Len(q) : SizeOf(q[i]) \in Nat /\ SizeOf(q[i]) > 1
<1>1. Len(q) \in Nat /\ \A i \in 1..Len(q) : q[i] \in FrameSet
  OBVIOUS
<1> QED
  BY <1>1, SizeType

(* There is such a layout of the first frames, hence of all. *)
LEMMA LayoutExists ==
    ASSUME NEW n \in Nat, NEW sz \in [1..n -> Nat]
    PROVE  \E p \in [1..(n + 1) -> Nat] :
               p[1] = 0 /\ \A i \in 1..n : p[i + 1] = p[i] + sz[i]
<1> DEFINE Ok(m) == \E p \in [1..m -> Nat] :
                       p[1] = 0 /\ \A i \in 1..(m - 1) : p[i + 1] = p[i] + sz[i]
           T == {m \in 1..(n + 1) : ~Ok(m)}
<1>1. ASSUME NEW x \in T, \A y \in T : x <= y
      PROVE  FALSE
  <2>1. x \in 1..(n + 1) /\ ~Ok(x)
    OBVIOUS
  <2>2. x # 1
    <3>1. ASSUME x = 1
          PROVE  Ok(x)
      <4> DEFINE p == [i \in 1..1 |-> 0]
      <4>1. p \in [1..x -> Nat] /\ p[1] = 0 /\ \A i \in 1..(x - 1) : p[i + 1] = p[i] + sz[i]
        BY <3>1
      <4> QED
        BY <4>1
    <3> QED
      BY <2>1, <3>1
  <2>3. x - 1 \in 1..(n + 1) /\ x - 1 \in 1..n /\ ~(x <= x - 1)
    BY <2>1, <2>2
  <2>4. Ok(x - 1)
    BY <1>1, <2>3
  <2>5. PICK p \in [1..(x - 1) -> Nat] :
            p[1] = 0 /\ \A i \in 1..((x - 1) - 1) : p[i + 1] = p[i] + sz[i]
    BY <2>4
  <2> DEFINE g == [i \in 1..x |-> IF i = x THEN p[x - 1] + sz[x - 1] ELSE p[i]]
  <2>6. p[x - 1] \in Nat /\ sz[x - 1] \in Nat
    BY <2>3, <2>5
  <2>7. g \in [1..x -> Nat]
    <3>1. ASSUME NEW i \in 1..x, i # x
          PROVE  p[i] \in Nat
      <4>1. i \in 1..(x - 1)
        BY <2>1, <3>1
      <4> QED
        BY <2>5, <4>1
    <3> QED
      BY <2>6, <3>1
  <2>8. g[1] = 0
    BY <2>1, <2>2, <2>5
  <2>9. ASSUME NEW i \in 1..(x - 1)
        PROVE  g[i + 1] = g[i] + sz[i]
    <3>1. i \in 1..x /\ i + 1 \in 1..x /\ i # x
      BY <2>1
    <3>2. g[i] = p[i]
      BY <3>1
    <3>3. CASE i = x - 1
      <4>1. i + 1 = x
        BY <2>1, <3>3
      <4>2. g[i + 1] = p[x - 1] + sz[x - 1]
        BY <3>1, <4>1
      <4> QED
        BY <3>2, <3>3, <4>2
    <3>4. CASE i # x - 1
      <4>1. i + 1 # x /\ i \in 1..((x - 1) - 1)
        BY <2>1, <3>4
      <4>2. g[i + 1] = p[i + 1]
        BY <3>1, <4>1
      <4> QED
        BY <2>5, <3>2, <4>1, <4>2
    <3> QED
      BY <3>3, <3>4
  <2> HIDE DEF g
  <2>10. Ok(x)
    BY <2>7, <2>8, <2>9
  <2> QED
    BY <2>1, <2>10
<1>2. T = {}
  <2>1. T \subseteq Nat
    OBVIOUS
  <2> HIDE DEF T
  <2> QED
    BY <1>1, <2>1, LeastElement
<1>3. Ok(n + 1)
  <2>1. n + 1 \in 1..(n + 1)
    OBVIOUS
  <2> HIDE DEF Ok
  <2> QED
    BY <1>2, <2>1
<1>4. (n + 1) - 1 = n
  OBVIOUS
<1> QED
  BY <1>3, <1>4, Zenon

LEMMA OffsetsAre ==
    ASSUME NEW q \in Seq(FrameSet)
    PROVE  Layout(Offsets(q), q)
<1> DEFINE n == Len(q)
           P(g) == g = [i \in 1..(n + 1) |-> IF i = 1 THEN 0 ELSE g[i - 1] + SizeOf(q[i - 1])]
<1>1. n \in Nat /\ \A i \in 1..n : SizeOf(q[i]) \in Nat
  BY SizesOf
<1>2. Offsets(q) = CHOOSE g : P(g)
  BY DEF Offsets
<1> HIDE DEF n
<1>3. PICK p \in [1..(n + 1) -> Nat] : p[1] = 0 /\ \A i \in 1..n : p[i + 1] = p[i] + SizeOf(q[i])
  <2> DEFINE sz == [i \in 1..n |-> SizeOf(q[i])]
  <2>1. sz \in [1..n -> Nat] /\ \A i \in 1..n : sz[i] = SizeOf(q[i])
    BY <1>1
  <2> HIDE DEF sz
  <2>2. PICK p \in [1..(n + 1) -> Nat] : p[1] = 0 /\ \A i \in 1..n : p[i + 1] = p[i] + sz[i]
    BY <1>1, <2>1, LayoutExists
  <2> QED
    BY <2>1, <2>2
<1>4. P(p)
  <2>1. ASSUME NEW i \in 1..(n + 1)
        PROVE  p[i] = IF i = 1 THEN 0 ELSE p[i - 1] + SizeOf(q[i - 1])
    <3>1. CASE i = 1
      BY <1>3, <3>1
    <3>2. CASE i # 1
      <4>1. i - 1 \in 1..n /\ (i - 1) + 1 = i
        BY <1>1, <3>2
      <4> QED
        BY <1>3, <3>2, <4>1
    <3> QED
      BY <3>1, <3>2
  <2> QED
    BY <1>3, <2>1
<1>5. P(Offsets(q))
  <2> HIDE DEF P
  <2> QED
    BY <1>2, <1>4
<1> DEFINE a == Offsets(q)
<1>6. a = [i \in 1..(n + 1) |-> IF i = 1 THEN 0 ELSE a[i - 1] + SizeOf(q[i - 1])]
  BY <1>5
<1> HIDE DEF a
<1>7. 1 \in 1..(n + 1) /\ a[1] = 0
  BY <1>1, <1>6
<1>8. \A i \in 1..n : a[i + 1] = a[i] + SizeOf(q[i])
  <2> TAKE i \in 1..n
  <2>1. i + 1 \in 1..(n + 1) /\ i + 1 # 1 /\ (i + 1) - 1 = i
    BY <1>1
  <2> QED
    BY <1>6, <2>1
<1>9. \A i \in 1..(n + 1) : a[i] \in Nat
  <2> DEFINE T == {i \in 1..(n + 1) : a[i] \notin Nat}
  <2>1. ASSUME NEW x \in T, \A y \in T : x <= y
        PROVE  FALSE
    <3>1. x \in 1..(n + 1) /\ a[x] \notin Nat
      OBVIOUS
    <3>2. x # 1
      BY <1>7, <3>1
    <3>3. x - 1 \in 1..n /\ x - 1 \in 1..(n + 1) /\ ~(x <= x - 1) /\ (x - 1) + 1 = x
      BY <1>1, <3>1, <3>2
    <3>4. a[x - 1] \in Nat
      BY <2>1, <3>3
    <3>5. a[x] = a[x - 1] + SizeOf(q[x - 1])
      BY <1>8, <3>3
    <3>6. SizeOf(q[x - 1]) \in Nat
      BY <1>1, <3>3
    <3> QED
      BY <3>1, <3>4, <3>5, <3>6
  <2>2. T \subseteq Nat
    BY <1>1
  <2>3. T = {}
    <3> HIDE DEF T
    <3> QED
      BY <2>1, <2>2, LeastElement
  <2> QED
    BY <2>3
<1>10. a \in [1..(n + 1) -> Nat]
  BY <1>6, <1>9
<1> QED
  BY <1>7, <1>8, <1>10 DEF Layout, a, n

(* ... and only one. *)
LEMMA LayoutUnique ==
    ASSUME NEW q \in Seq(FrameSet), NEW a, NEW b, Layout(a, q), Layout(b, q)
    PROVE  a = b
<1> DEFINE n == Len(q)
           T == {i \in 1..(n + 1) : a[i] # b[i]}
<1>1. n \in Nat
  BY SizesOf
<1>2. /\ a \in [1..(n + 1) -> Nat] /\ a[1] = 0 /\ \A i \in 1..n : a[i + 1] = a[i] + SizeOf(q[i])
      /\ b \in [1..(n + 1) -> Nat] /\ b[1] = 0 /\ \A i \in 1..n : b[i + 1] = b[i] + SizeOf(q[i])
  BY DEF Layout
<1> HIDE DEF n
<1>3. ASSUME NEW x \in T, \A y \in T : x <= y
      PROVE  FALSE
  <2>1. x \in 1..(n + 1) /\ a[x] # b[x]
    OBVIOUS
  <2>2. x # 1
    BY <1>2, <2>1
  <2>3. x - 1 \in 1..n /\ x - 1 \in 1..(n + 1) /\ ~(x <= x - 1) /\ (x - 1) + 1 = x
    BY <1>1, <2>1, <2>2
  <2>4. a[x - 1] = b[x - 1]
    BY <1>3, <2>3
  <2>5. a[x] = a[x - 1] + SizeOf(q[x - 1]) /\ b[x] = b[x - 1] + SizeOf(q[x - 1])
    BY <1>2, <2>3
  <2> QED
    BY <2>1, <2>4, <2>5
<1>4. T = {}
  <2>1. T \subseteq Nat
    BY <1>1
  <2> HIDE DEF T
  <2> QED
    BY <1>3, <2>1, LeastElement
<1>5. \A i \in 1..(n + 1) : a[i] = b[i]
  BY <1>4
<1>6. a \in [1..(n + 1) -> Nat] /\ b \in [1..(n + 1) -> Nat]
  BY <1>2
<1>7. a = [i \in 1..(n + 1) |-> a[i]] /\ b = [i \in 1..(n + 1) |-> b[i]]
  BY <1>6
<1>8. [i \in 1..(n + 1) |-> a[i]] = [i \in 1..(n + 1) |-> b[i]]
  BY <1>5
<1> QED
  BY <1>7, <1>8

(* A frame ends where or before every later one begins. *)
LEMMA LayoutGrows ==
    ASSUME NEW q \in Seq(FrameSet), NEW a, Layout(a, q),
           NEW i \in 1..Len(q), NEW j \in 1..(Len(q) + 1), i < j
    PROVE  a[i] + SizeOf(q[i]) <= a[j]
<1> DEFINE n == Len(q)
           e == a[i] + SizeOf(q[i])
           T == {k \in 1..(n + 1) : i < k /\ ~(e <= a[k])}
<1>1. n \in Nat /\ (\A k \in 1..n : SizeOf(q[k]) \in Nat) /\ i \in 1..n /\ j \in 1..(n + 1)
  BY SizesOf
<1>2. (\A k \in 1..(n + 1) : a[k] \in Nat) /\ \A k \in 1..n : a[k + 1] = a[k] + SizeOf(q[k])
  BY DEF Layout
<1> HIDE DEF n
<1>3. e \in Nat /\ a[i + 1] = e
  BY <1>1, <1>2
<1> HIDE DEF e
<1>4. ASSUME NEW x \in T, \A y \in T : x <= y
      PROVE  FALSE
  <2>1. x \in 1..(n + 1) /\ i < x /\ ~(e <= a[x])
    OBVIOUS
  <2>2. x # i + 1
    <3>1. a[i + 1] <= a[i + 1]
      BY <1>3
    <3> QED
      BY <1>3, <2>1, <3>1
  <2>3. /\ x - 1 \in 1..n /\ x - 1 \in 1..(n + 1) /\ ~(x <= x - 1) /\ (x - 1) + 1 = x
        /\ i < x - 1
    BY <1>1, <2>1, <2>2
  <2>4. e <= a[x - 1]
    BY <1>4, <2>3
  <2>5. a[x] = a[x - 1] + SizeOf(q[x - 1])
    BY <1>2, <2>3
  <2>6. SizeOf(q[x - 1]) \in Nat /\ a[x - 1] \in Nat
    BY <1>1, <1>2, <2>3
  <2> QED
    BY <1>3, <2>1, <2>4, <2>5, <2>6
<1>5. T = {}
  <2>1. T \subseteq Nat
    BY <1>1
  <2> HIDE DEF T
  <2> QED
    BY <1>4, <2>1, LeastElement
<1>6. e <= a[j]
  BY <1>1, <1>5
<1> QED
  BY <1>6 DEF e

(* The layouts after a frame was added at the end and taken from the front *)
LEMMA AppendedLayout ==
    ASSUME NEW q \in Seq(FrameSet), NEW a, Layout(a, q), NEW f \in FrameSet
    PROVE  LET b == Offsets(Append(q, f))
           IN  /\ \A i \in 1..(Len(q) + 1) : b[i] = a[i]
               /\ b[Len(q) + 2] = a[Len(q) + 1] + SizeOf(f)
<1> DEFINE n == Len(q)
           s == Append(q, f)
           g == [i \in 1..(n + 2) |-> IF i = n + 2 THEN a[n + 1] + SizeOf(f) ELSE a[i]]
<1>1. n \in Nat /\ SizeOf(f) \in Nat
  BY SizesOf, SizeType
<1>2. a \in [1..(n + 1) -> Nat] /\ a[1] = 0 /\ \A i \in 1..n : a[i + 1] = a[i] + SizeOf(q[i])
  BY DEF Layout
<1>3. s \in Seq(FrameSet) /\ Len(s) = n + 1 /\ s[n + 1] = f /\ \A i \in 1..n : s[i] = q[i]
  OBVIOUS
<1> HIDE DEF n, s
<1>4. g \in [1..(n + 2) -> Nat]
  <2>1. a[n + 1] \in Nat /\ a[n + 1] + SizeOf(f) \in Nat
    BY <1>1, <1>2
  <2>2. \A i \in 1..(n + 2) : i # n + 2 => a[i] \in Nat
    BY <1>1, <1>2
  <2> QED
    BY <2>1, <2>2
<1>5. (\A i \in 1..(n + 1) : g[i] = a[i]) /\ g[n + 2] = a[n + 1] + SizeOf(f)
  BY <1>1
<1>6. ASSUME NEW i \in 1..(n + 1)
      PROVE  g[i + 1] = g[i] + SizeOf(s[i])
  <2> HIDE DEF g
  <2>1. CASE i = n + 1
    <3>1. i + 1 = n + 2
      BY <1>1, <2>1
    <3> QED
      BY <1>3, <1>5, <2>1, <3>1
  <2>2. CASE i # n + 1
    <3>1. i \in 1..n /\ i + 1 \in 1..(n + 1)
      BY <1>1, <2>2
    <3> QED
      BY <1>2, <1>3, <1>5, <3>1
  <2> QED
    BY <2>1, <2>2
<1>7. g[1] = 0 /\ (n + 1) + 1 = n + 2
  BY <1>1, <1>2
<1> HIDE DEF g
<1>8. Layout(g, s)
  BY <1>3, <1>4, <1>6, <1>7 DEF Layout
<1>9. g = Offsets(s)
  BY <1>3, <1>8, OffsetsAre, LayoutUnique
<1> QED
  BY <1>5, <1>9 DEF n, s

LEMMA TailLayout ==
    ASSUME NEW q \in Seq(FrameSet), NEW a, Layout(a, q), q # <<>>
    PROVE  \A i \in 1..Len(q) : Offsets(Tail(q))[i] = a[i + 1] - SizeOf(q[1])
<1> DEFINE n == Len(q)
           s == Tail(q)
           z == SizeOf(q[1])
           g == [i \in 1..n |-> a[i + 1] - z]
<1>1. n \in Nat \ {0} /\ z \in Nat
  BY SizesOf
<1>2. a \in [1..(n + 1) -> Nat] /\ a[1] = 0 /\ \A i \in 1..n : a[i + 1] = a[i] + SizeOf(q[i])
  BY DEF Layout
<1>3. s \in Seq(FrameSet) /\ Len(s) = n - 1 /\ \A i \in 1..(n - 1) : s[i] = q[i + 1]
  OBVIOUS
<1>4. \A i \in 1..n : a[1] + SizeOf(q[1]) <= a[i + 1]
  <2> TAKE i \in 1..n
  <2>1. 1 \in 1..n /\ i + 1 \in 1..(n + 1) /\ 1 < i + 1
    BY <1>1
  <2> QED
    BY <2>1, LayoutGrows
<1>5. a[1] = 0 /\ a[1 + 1] = a[1] + z
  BY <1>1, <1>2
<1> HIDE DEF n, s
<1>6. \A i \in 1..n : a[i + 1] \in Nat /\ a[i + 1] - z \in Nat
  <2> TAKE i \in 1..n
  <2>1. a[i + 1] \in Nat
    BY <1>1, <1>2
  <2>2. 0 + z <= a[i + 1]
    BY <1>4, <1>5
  <2> HIDE DEF z
  <2> QED
    BY <1>1, <2>1, <2>2
<1> HIDE DEF z
<1>7. g \in [1..n -> Nat]
  BY <1>6
<1>8. ASSUME NEW i \in 1..(n - 1)
      PROVE  g[i + 1] = g[i] + SizeOf(s[i])
  <2>1. i \in 1..n /\ i + 1 \in 1..n
    BY <1>1
  <2>2. g[i + 1] = a[(i + 1) + 1] - z /\ g[i] = a[i + 1] - z
    BY <2>1
  <2>3. a[(i + 1) + 1] = a[i + 1] + SizeOf(q[i + 1])
    BY <1>2, <2>1
  <2>4. a[(i + 1) + 1] \in Nat /\ a[i + 1] \in Nat
    BY <1>6, <2>1
  <2>5. SizeOf(q[i + 1]) \in Nat
    BY <2>1, SizesOf DEF n
  <2>6. s[i] = q[i + 1]
    BY <1>3
  <2> QED
    BY <1>1, <2>2, <2>3, <2>4, <2>5, <2>6
<1>9. g[1] = 0 /\ (n - 1) + 1 = n
  <2>1. 1 \in 1..n
    BY <1>1
  <2>2. g[1] = a[1 + 1] - z
    BY <2>1
  <2> QED
    BY <1>1, <1>5, <2>2
<1>10. \A i \in 1..n : g[i] = a[i + 1] - z
  OBVIOUS
<1> HIDE DEF g
<1>11. Layout(g, s)
  BY <1>3, <1>7, <1>8, <1>9 DEF Layout
<1>12. g = Offsets(s)
  BY <1>3, <1>11, OffsetsAre, LayoutUnique
<1> QED
  BY <1>10, <1>12 DEF n, s, z

-----------------------------------------------------------------------------
(* Positions in the ring *)
LEMMA RingSize == /\ RXBUF_SIZE \in Nat \ {0} /\ 0 \in Slots /\ Slots \subseteq Nat
                  /\ \A p \in Slots : p < RXBUF_SIZE
<1>1. RXBUF_SIZE \in Nat \ {0}
  BY CanRingAssumption
<1> QED
  BY <1>1 DEF Slots

LEMMA Place ==
    ASSUME NEW p \in Slots, NEW n \in 0..RXBUF_SIZE
    PROVE  /\ At(p, n) = IF p + n < RXBUF_SIZE THEN p + n ELSE p + n - RXBUF_SIZE
           /\ At(p, n) \in Slots
<1>1. RXBUF_SIZE \in Nat \ {0}
  BY RingSize
<1> QED
  BY <1>1 DEF At, Slots

LEMMA Gap ==
    ASSUME NEW p \in Slots, NEW s \in Slots
    PROVE  /\ At(s - p, RXBUF_SIZE) = IF s >= p THEN s - p ELSE s - p + RXBUF_SIZE
           /\ At(s - p, RXBUF_SIZE) \in Nat
<1>1. RXBUF_SIZE \in Nat \ {0}
  BY RingSize
<1>2. CASE s >= p
  BY <1>1, <1>2 DEF At, Slots
<1>3. CASE ~(s >= p)
  BY <1>1, <1>3 DEF At, Slots
<1> QED
  BY <1>2, <1>3

(* The distance between two positions at offsets u and i of the same slot, *)
(* and two steps along the ring.                                           *)
LEMMA GapOfPlaces ==
    ASSUME NEW p \in Slots, NEW u \in 0..(RXBUF_SIZE - 1), NEW i \in 0..(RXBUF_SIZE - 1)
    PROVE  At(At(p, i) - At(p, u), RXBUF_SIZE) = IF i >= u THEN i - u ELSE i - u + RXBUF_SIZE
<1>1. RXBUF_SIZE \in Nat \ {0} /\ p \in Nat /\ p < RXBUF_SIZE
  BY RingSize
<1>2. u \in 0..RXBUF_SIZE /\ i \in 0..RXBUF_SIZE
  BY <1>1
<1> DEFINE x == At(p, i)
           y == At(p, u)
<1>3. /\ x = IF p + i < RXBUF_SIZE THEN p + i ELSE p + i - RXBUF_SIZE
      /\ y = IF p + u < RXBUF_SIZE THEN p + u ELSE p + u - RXBUF_SIZE
      /\ x \in Slots /\ y \in Slots
  BY <1>2, Place
<1> HIDE DEF x, y
<1>4. At(x - y, RXBUF_SIZE) = IF x >= y THEN x - y ELSE x - y + RXBUF_SIZE
  BY <1>3, Gap
<1>5. (IF x >= y THEN x - y ELSE x - y + RXBUF_SIZE) = IF i >= u THEN i - u ELSE i - u + RXBUF_SIZE
  BY <1>1, <1>3
<1> QED
  BY <1>4, <1>5 DEF x, y

LEMMA PlaceAdds ==
    ASSUME NEW p \in Slots, NEW i \in Nat, NEW j \in Nat, i + j <= RXBUF_SIZE
    PROVE  At(At(p, i), j) = At(p, i + j)
<1>1. RXBUF_SIZE \in Nat \ {0} /\ p \in Nat /\ p < RXBUF_SIZE
  BY RingSize
<1>2. i \in 0..RXBUF_SIZE /\ j \in 0..RXBUF_SIZE /\ i + j \in 0..RXBUF_SIZE
  BY <1>1
<1> DEFINE x == At(p, i)
<1>3. x = (IF p + i < RXBUF_SIZE THEN p + i ELSE p + i - RXBUF_SIZE) /\ x \in Slots
  BY <1>2, Place
<1> HIDE DEF x
<1>4. At(x, j) = IF x + j < RXBUF_SIZE THEN x + j ELSE x + j - RXBUF_SIZE
  BY <1>2, <1>3, Place
<1>5. At(p, i + j) = IF p + (i + j) < RXBUF_SIZE THEN p + (i + j) ELSE p + (i + j) - RXBUF_SIZE
  BY <1>2, Place
<1>6. (IF x + j < RXBUF_SIZE THEN x + j ELSE x + j - RXBUF_SIZE)
        = IF p + (i + j) < RXBUF_SIZE THEN p + (i + j) ELSE p + (i + j) - RXBUF_SIZE
  BY <1>1, <1>3
<1> QED
  BY <1>4, <1>5, <1>6 DEF x

-----------------------------------------------------------------------------
(* A ring of slots h..t, bytes c, holds the frames q laid out by a. *)
Held(h, t, c, a, q) ==
    /\ a[Len(q) + 1] < RXBUF_SIZE
    /\ t = At(h, a[Len(q) + 1])
    /\ \A i \in 1..Len(q) : \A b \in 0..(SizeOf(q[i]) - 1) : c[At(h, a[i] + b)] = <<q[i], b>>

RingSet == [head : Slots, tail : Slots, buf : [Slots -> Byte], sem : Nat]

(* size_free is what the frames leave. *)
LEMMA FreeIsRest ==
    ASSUME NEW r \in RingSet, NEW u \in 0..(RXBUF_SIZE - 1), r.tail = At(r.head, u)
    PROVE  SizeFree(r) = RXBUF_SIZE - u
<1>1. r.head \in Slots /\ r.tail \in Slots
  BY DEF RingSet
<1>a. RXBUF_SIZE \in Nat \ {0} /\ Slots \subseteq Nat /\ r.head < RXBUF_SIZE
  BY <1>1, RingSize
<1>2. RXBUF_SIZE \in Nat \ {0} /\ Slots \subseteq Nat /\ u \in 0..RXBUF_SIZE
      /\ r.head < RXBUF_SIZE
  BY <1>a
<1> DEFINE h == r.head
           t == r.tail
<1>3. t = IF h + u < RXBUF_SIZE THEN h + u ELSE h + u - RXBUF_SIZE
  BY <1>1, <1>2, Place
<1>4. SizeFree(r) = IF h - t <= 0 THEN h - t + RXBUF_SIZE ELSE h - t
  BY DEF SizeFree
<1>5. h \in Nat /\ h < RXBUF_SIZE
  BY <1>1, <1>2
<1> HIDE DEF h, t
<1> QED
  BY <1>2, <1>3, <1>4, <1>5

(* The offset of every byte of a frame lies below the space used. *)
LEMMA OffsetRange ==
    ASSUME NEW q \in Seq(FrameSet), NEW a, Layout(a, q), a[Len(q) + 1] < RXBUF_SIZE,
           NEW i \in 1..Len(q), NEW b \in 0..(SizeOf(q[i]) - 1)
    PROVE  /\ a[i] + b \in 0..(RXBUF_SIZE - 1) /\ a[i] + b < a[Len(q) + 1]
           /\ a[i] \in Nat /\ b \in Nat
<1> DEFINE n == Len(q)
           z == SizeOf(q[i])
           u == a[n + 1]
           o == a[i]
<1>1. n \in Nat /\ z \in Nat
  BY SizesOf
<1>2. a \in [1..(n + 1) -> Nat]
  BY DEF Layout
<1>3. n + 1 \in 1..(n + 1) /\ i \in 1..(n + 1) /\ i < n + 1
  BY <1>1
<1>4. o \in Nat /\ u \in Nat
  BY <1>2, <1>3
<1>5. o + z <= u
  BY <1>3, LayoutGrows
<1>6. b \in 0..(z - 1) /\ u < RXBUF_SIZE /\ RXBUF_SIZE \in Nat
  BY RingSize
<1> HIDE DEF n, z, u, o
<1>7. o + b \in 0..(RXBUF_SIZE - 1) /\ o + b < u /\ o \in Nat /\ b \in Nat
  BY <1>1, <1>4, <1>5, <1>6
<1> QED
  BY <1>7 DEF n, u, o

(* Storing a frame that fits, and reading the first one, in the terms of   *)
(* the layout.                                                             *)
LEMMA StoredHeld ==
    ASSUME NEW r \in RingSet, NEW q \in Seq(FrameSet), NEW a, Layout(a, q),
           Held(r.head, r.tail, r.buf, a, q), NEW f \in FrameSet, SizeFree(r) > SizeOf(f)
    PROVE  Held(Store(r, f).head, Store(r, f).tail, Store(r, f).buf,
                Offsets(Append(q, f)), Append(q, f))
<1> DEFINE n == Len(q)
           s == Append(q, f)
           v == Offsets(s)
           z == SizeOf(f)
           h == r.head
           t == r.tail
           c == r.buf
           u == a[n + 1]
           d == [x \in Slots |-> LET i == At(x - t, RXBUF_SIZE)
                                 IN  IF i < z THEN <<f, i>> ELSE c[x]]
<1>1. n \in Nat /\ z \in Nat
  BY SizesOf, SizeType
<1>2. h \in Slots /\ t \in Slots /\ RXBUF_SIZE \in Nat \ {0}
  BY RingSize DEF RingSet
<1>3. Store(r, f).head = h /\ Store(r, f).tail = At(t, z) /\ Store(r, f).buf = d
  BY DEF Store, RingSet
<1>4. /\ u < RXBUF_SIZE /\ t = At(h, u)
      /\ \A i \in 1..n : \A b \in 0..(SizeOf(q[i]) - 1) : c[At(h, a[i] + b)] = <<q[i], b>>
  BY DEF Held
<1>5. u \in Nat
  BY <1>1 DEF Layout
<1>6. u + z < RXBUF_SIZE
  <2>1. u \in 0..(RXBUF_SIZE - 1)
    BY <1>2, <1>4, <1>5
  <2>2. SizeFree(r) = RXBUF_SIZE - u
    BY <1>4, <2>1, FreeIsRest
  <2> QED
    BY <1>1, <1>2, <1>5, <2>2
<1>7. (\A i \in 1..(n + 1) : v[i] = a[i]) /\ v[n + 2] = u + z
  BY AppendedLayout
<1>8. Len(s) = n + 1 /\ s[n + 1] = f /\ \A i \in 1..n : s[i] = q[i]
  OBVIOUS
<1>9. \A i \in 1..n : \A b \in 0..(SizeOf(q[i]) - 1) :
          a[i] + b \in 0..(RXBUF_SIZE - 1) /\ a[i] + b < u
  BY <1>4, OffsetRange
<1> HIDE DEF n, s, v, z, h, t, c, u
<1>10. ASSUME NEW i \in 1..n, NEW b \in 0..(SizeOf(q[i]) - 1)
       PROVE  d[At(h, v[i] + b)] = <<q[i], b>>
  <2> DEFINE o == a[i] + b
             x == At(h, o)
  <2>1. i \in 1..(n + 1)
    BY <1>1
  <2>2. v[i] + b = o
    BY <1>7, <2>1
  <2>3. o \in 0..(RXBUF_SIZE - 1) /\ o < u /\ u \in 0..(RXBUF_SIZE - 1)
    BY <1>2, <1>4, <1>5, <1>9
  <2>4. c[x] = <<q[i], b>>
    BY <1>4
  <2> HIDE DEF o
  <2>5. x \in Slots
    <3>1. o \in 0..RXBUF_SIZE
      BY <1>2, <2>3
    <3> QED
      BY <1>2, <3>1, Place
  <2>6. At(x - t, RXBUF_SIZE) = o - u + RXBUF_SIZE
    <3>1. At(x - t, RXBUF_SIZE) = IF o >= u THEN o - u ELSE o - u + RXBUF_SIZE
      BY <1>2, <1>4, <2>3, GapOfPlaces
    <3> QED
      BY <2>3, <3>1
  <2>7. ~(o - u + RXBUF_SIZE < z)
    BY <1>1, <1>2, <1>5, <1>6, <2>3
  <2>8. d[x] = c[x]
    BY <2>5, <2>6, <2>7
  <2> HIDE DEF d
  <2> QED
    BY <2>2, <2>4, <2>8
<1>11. ASSUME NEW b \in 0..(z - 1)
       PROVE  d[At(h, u + b)] = <<f, b>>
  <2> DEFINE x == At(h, u + b)
  <2>1. u + b \in 0..(RXBUF_SIZE - 1) /\ u + b \in 0..RXBUF_SIZE /\ u \in 0..(RXBUF_SIZE - 1)
        /\ b < z /\ b \in Nat
    BY <1>1, <1>2, <1>5, <1>6
  <2>2. x \in Slots
    BY <1>2, <2>1, Place
  <2>3. At(x - t, RXBUF_SIZE) = b
    <3>1. At(x - t, RXBUF_SIZE) = IF u + b >= u THEN (u + b) - u ELSE (u + b) - u + RXBUF_SIZE
      BY <1>2, <1>4, <2>1, GapOfPlaces
    <3> QED
      BY <1>5, <2>1, <3>1
  <2> HIDE DEF x
  <2>4. d[x] = <<f, b>>
    BY <2>1, <2>2, <2>3
  <2> QED
    BY <2>4 DEF x
<1>12. At(t, z) = At(h, u + z)
  BY <1>1, <1>2, <1>4, <1>5, <1>6, PlaceAdds
<1> HIDE DEF d
<1>13. /\ v[Len(s) + 1] < RXBUF_SIZE
       /\ At(t, z) = At(h, v[Len(s) + 1])
  <2>1. Len(s) + 1 = n + 2
    BY <1>1, <1>8
  <2> QED
    BY <1>6, <1>7, <1>12, <2>1
<1>14. ASSUME NEW i \in 1..Len(s), NEW b \in 0..(SizeOf(s[i]) - 1)
       PROVE  d[At(h, v[i] + b)] = <<s[i], b>>
  <2>1. CASE i = n + 1
    <3>1. s[i] = f /\ b \in 0..(z - 1)
      BY <1>8, <2>1 DEF z
    <3>2. i \in 1..(n + 1) /\ v[i] = u
      BY <1>7, <1>8, <2>1 DEF u
    <3> QED
      BY <1>11, <3>1, <3>2
  <2>2. CASE i # n + 1
    <3>1. i \in 1..n
      BY <1>1, <1>8, <2>2
    <3>2. s[i] = q[i]
      BY <1>8, <3>1
    <3> QED
      BY <1>10, <3>1, <3>2
  <2> QED
    BY <2>1, <2>2
<1>15. Held(h, At(t, z), d, v, s)
  BY <1>13, <1>14 DEF Held
<1> QED
  BY <1>3, <1>15 DEF v, s

LEMMA ReadHeld ==
    ASSUME NEW h \in Slots, NEW t, NEW c, NEW q \in Seq(FrameSet), NEW a, Layout(a, q),
           Held(h, t, c, a, q), q # <<>>
    PROVE  LET z == SizeOf(q[1])
               d == [x \in Slots |-> IF At(x - h, RXBUF_SIZE) < z THEN Junk ELSE c[x]]
           IN  Held(At(h, z), t, d, Offsets(Tail(q)), Tail(q)) /\ z \in 0..RXBUF_SIZE
<1> DEFINE n == Len(q)
           s == Tail(q)
           v == Offsets(s)
           z == SizeOf(q[1])
           u == a[n + 1]
           d == [x \in Slots |-> IF At(x - h, RXBUF_SIZE) < z THEN Junk ELSE c[x]]
<1>1. n \in Nat \ {0} /\ z \in Nat /\ RXBUF_SIZE \in Nat \ {0}
  BY SizesOf, RingSize
<1>2. s \in Seq(FrameSet) /\ Len(s) = n - 1 /\ \A i \in 1..(n - 1) : s[i] = q[i + 1]
  OBVIOUS
<1>3. /\ u < RXBUF_SIZE /\ t = At(h, u)
      /\ \A i \in 1..n : \A b \in 0..(SizeOf(q[i]) - 1) : c[At(h, a[i] + b)] = <<q[i], b>>
  BY DEF Held
<1>4. a \in [1..(n + 1) -> Nat] /\ a[1] = 0
  BY DEF Layout
<1>5. \A i \in 1..n : v[i] = a[i + 1] - z
  BY TailLayout
<1>6. \A i \in 1..n : a[1] + z <= a[i + 1]
  <2> TAKE i \in 1..n
  <2>1. 1 \in 1..n /\ i + 1 \in 1..(n + 1) /\ 1 < i + 1
    BY <1>1
  <2> QED
    BY <2>1, LayoutGrows
<1>7. \A i \in 1..n : \A b \in 0..(SizeOf(q[i]) - 1) :
          a[i] + b \in 0..(RXBUF_SIZE - 1) /\ a[i] + b < u /\ a[i] \in Nat /\ b \in Nat
  BY <1>3, OffsetRange
<1>8. \A i \in 1..n : a[i + 1] \in Nat /\ z <= a[i + 1]
  <2> HIDE DEF z, n
  <2> TAKE i \in 1..n
  <2>1. a[i + 1] \in Nat
    BY <1>1, <1>4
  <2>2. 0 + z <= a[i + 1]
    BY <1>4, <1>6
  <2> QED
    BY <1>1, <2>1, <2>2
<1> HIDE DEF n, s, v, z, u
<1>9. u \in Nat /\ z <= u /\ v[n] = u - z
  <2>1. n \in 1..n
    BY <1>1
  <2> QED
    BY <1>5, <1>8, <2>1 DEF u
<1>10. ASSUME NEW i \in 1..Len(s), NEW b \in 0..(SizeOf(s[i]) - 1)
       PROVE  d[At(At(h, z), v[i] + b)] = <<s[i], b>>
  <2> DEFINE k == i + 1
             o == a[k] + b
             x == At(h, o)
  <2>1. k \in 1..n /\ i \in 1..n /\ i \in 1..(n - 1)
    BY <1>1, <1>2
  <2>2. s[i] = q[k] /\ b \in 0..(SizeOf(q[k]) - 1)
    BY <1>2, <2>1
  <2>3. c[x] = <<q[k], b>>
    BY <1>3, <2>1, <2>2
  <2>4. o \in 0..(RXBUF_SIZE - 1) /\ b \in Nat
    BY <1>7, <2>1, <2>2
  <2>5. a[k] \in Nat /\ z <= a[k] /\ v[i] = a[k] - z
    BY <1>5, <1>8, <2>1
  <2> HIDE DEF k
  <2>6. v[i] + b \in Nat /\ z + (v[i] + b) = o /\ o <= RXBUF_SIZE /\ z <= o
    BY <1>1, <2>4, <2>5
  <2>7. At(At(h, z), v[i] + b) = x
    BY <1>1, <2>6, PlaceAdds
  <2> HIDE DEF o
  <2>8. x \in Slots
    <3>1. o \in 0..RXBUF_SIZE
      BY <1>1, <2>4
    <3> QED
      BY <3>1, Place
  <2>9. At(x - h, RXBUF_SIZE) = o
    <3>1. 0 \in 0..(RXBUF_SIZE - 1) /\ 0 \in 0..RXBUF_SIZE
      BY <1>1
    <3>2. At(h, 0) = h
      <4>1. At(h, 0) = IF h + 0 < RXBUF_SIZE THEN h + 0 ELSE h + 0 - RXBUF_SIZE
        BY <3>1, Place
      <4>2. h \in Nat /\ h < RXBUF_SIZE
        BY RingSize
      <4> QED
        BY <1>1, <4>1, <4>2
    <3>3. At(x - At(h, 0), RXBUF_SIZE) = IF o >= 0 THEN o - 0 ELSE o - 0 + RXBUF_SIZE
      BY <2>4, <3>1, GapOfPlaces
    <3> QED
      BY <2>4, <3>2, <3>3
  <2>10. ~(At(x - h, RXBUF_SIZE) < z)
    BY <1>1, <2>4, <2>6, <2>9
  <2> HIDE DEF x
  <2>11. d[x] = c[x]
    BY <2>8, <2>10
  <2> HIDE DEF d
  <2> QED
    BY <2>2, <2>3, <2>7, <2>11
<1>11. Len(s) + 1 = n
  BY <1>1, <1>2
<1>12. v[n] < RXBUF_SIZE /\ t = At(At(h, z), v[n])
  <2>1. u - z \in Nat /\ z + (u - z) = u /\ u <= RXBUF_SIZE /\ u - z < RXBUF_SIZE
    BY <1>1, <1>3, <1>9
  <2>2. At(At(h, z), u - z) = At(h, z + (u - z))
    BY <1>1, <2>1, PlaceAdds
  <2> QED
    BY <1>3, <1>9, <2>1, <2>2
<1>13. z \in 0..RXBUF_SIZE
  BY <1>1, <1>3, <1>9
<1> HIDE DEF d
<1>14. Held(At(h, z), t, d, v, s)
  BY <1>10, <1>11, <1>12 DEF Held
<1> QED
  BY <1>13, <1>14 DEF v, s, z, d

(* The property of the ring, in these terms *)
LEMMA HoldsIsHeld ==
    RingHoldsFrames <=> (~astray => Held(ring.head, ring.tail, ring.buf, Offsets(queue), queue))
  BY DEF RingHoldsFrames, Held

-----------------------------------------------------------------------------
(* What a reader finds at recv_head: something of the type of a header,    *)
(* and while the ring is in step the header of the first frame.            *)
LEMMA Numbers ==
    /\ RXBUF_SIZE \in Nat \ {0} /\ HeaderSize \in Nat \ {0, 1} /\ TimestampSize \in Nat \ {0}
    /\ MaxData \in Nat /\ ChipDlcs \subseteq Nat /\ SoftDlcs \subseteq Nat
    /\ HeaderSize < RXBUF_SIZE /\ MaxEntries \in Nat /\ Seqs \in Nat \ {0}
  BY CanRingAssumption

LEMMA AtType ==
    ASSUME NEW p \in Slots, NEW n \in Nat
    PROVE  At(p, n) \in Slots
<1>1. RXBUF_SIZE \in Nat \ {0} /\ p \in Nat
  BY RingSize
<1> QED
  BY <1>1 DEF At, Slots

LEMMA HeaderType ==
    ASSUME TypeOK, NEW h \in Headers(ring.head), NEW control \in BOOLEAN
    PROVE  ReadSize(h, control) \in Nat
<1> DEFINE id == ring.buf[ring.head]
           last == ring.buf[At(ring.head, HeaderSize - 1)]
<1>1. ring.head \in Slots /\ ring.buf \in [Slots -> Byte]
  BY DEF TypeOK
<1>2. At(ring.head, HeaderSize - 1) \in Slots
  <2>1. HeaderSize - 1 \in Nat
    BY Numbers
  <2> QED
    BY <1>1, <2>1, AtType
<1>3. id \in Byte /\ last \in Byte
  BY <1>1, <1>2
<1> DEFINE rtrs == IF id # Junk /\ id[2] = 0 THEN {id[1].rtr} ELSE BOOLEAN
           dlcs == IF last # Junk /\ last[2] = HeaderSize - 1
                   THEN {<<last[1].dlc, last[1].ts>>} ELSE (ChipDlcs \cup SoftDlcs) \X BOOLEAN
<1>4. PICK b \in rtrs, d \in dlcs : h = [rtr |-> b, dlc |-> d[1], ts |-> d[2]]
  BY DEF Headers
<1> HIDE DEF id, last
<1>5. d[1] \in Nat
  <2>1. CASE last # Junk /\ last[2] = HeaderSize - 1
    <3>1. last[1] \in FrameSet /\ d = <<last[1].dlc, last[1].ts>>
      BY <1>3, <1>4, <2>1 DEF Byte
    <3> QED
      BY <3>1 DEF FrameSet
  <2>2. CASE ~(last # Junk /\ last[2] = HeaderSize - 1)
    <3>1. d \in (ChipDlcs \cup SoftDlcs) \X BOOLEAN
      BY <1>4, <2>2
    <3> QED
      BY <3>1, Numbers
  <2> QED
    BY <2>1, <2>2
<1> DEFINE y == h.dlc
<1>6. y \in Nat
  BY <1>4, <1>5
<1>7. /\ Lesser(y, MaxData) \in Nat
      /\ ReadSize(h, control) = HeaderSize + (IF h.rtr THEN 0 ELSE Lesser(y, MaxData))
                                  + (IF control /\ h.ts THEN TimestampSize ELSE 0)
  BY <1>6, Numbers DEF Lesser, ReadSize
<1> HIDE DEF y
<1> QED
  BY <1>7, Numbers

LEMMA HeaderSays ==
    ASSUME TypeOK, Measured, RingHoldsFrames, ~astray, queue # <<>>,
           NEW h \in Headers(ring.head), NEW control \in BOOLEAN,
           ~Mismeasured(queue[1], control)
    PROVE  ReadSize(h, control) = SizeOf(queue[1])
<1> DEFINE f == queue[1]
           a == Offsets(queue)
           id == ring.buf[ring.head]
           last == ring.buf[At(ring.head, HeaderSize - 1)]
<1>1. ring.head \in Slots /\ queue \in Seq(FrameSet)
  BY DEF TypeOK
<1>2. f \in FrameSet /\ 1 \in 1..Len(queue)
  BY <1>1
<1>3. Layout(a, queue)
  BY <1>1, OffsetsAre
<1>4. a[1] = 0
  BY <1>3 DEF Layout
<1>5. SizeOf(f) \in Nat /\ SizeOf(f) >= HeaderSize + f.data /\ f.data \in Nat
  BY <1>2, SizeType DEF FrameSet
<1>6. 0 \in 0..(SizeOf(f) - 1) /\ HeaderSize - 1 \in 0..(SizeOf(f) - 1)
  <2> DEFINE z == SizeOf(f)
             e == f.data
  <2>1. z \in Nat /\ z >= HeaderSize + e /\ e \in Nat
    BY <1>5
  <2> HIDE DEF z, e
  <2>2. 0 \in 0..(z - 1) /\ HeaderSize - 1 \in 0..(z - 1)
    BY <2>1, Numbers
  <2> QED
    BY <2>2 DEF z
<1>7. \A b \in 0..(SizeOf(f) - 1) : ring.buf[At(ring.head, a[1] + b)] = <<f, b>>
  BY <1>2, HoldsIsHeld DEF Held
<1>8. At(ring.head, 0 + 0) = ring.head /\ 0 + (HeaderSize - 1) = HeaderSize - 1
  <2>1. 0 \in 0..RXBUF_SIZE
    BY Numbers
  <2>2. At(ring.head, 0) = IF ring.head + 0 < RXBUF_SIZE THEN ring.head + 0 ELSE ring.head + 0 - RXBUF_SIZE
    BY <1>1, <2>1, Place
  <2>3. ring.head \in Nat /\ ring.head < RXBUF_SIZE
    BY <1>1, RingSize
  <2> QED
    BY <2>2, <2>3, Numbers
<1>9. id = <<f, 0>> /\ last = <<f, HeaderSize - 1>>
  BY <1>4, <1>6, <1>7, <1>8
<1>10. id # Junk /\ last # Junk /\ id[1] = f /\ id[2] = 0 /\ last[1] = f /\ last[2] = HeaderSize - 1
  BY <1>9 DEF Junk
<1>11. h.rtr = f.rtr /\ h.dlc = f.dlc /\ h.ts = f.ts
  <2> DEFINE rtrs == IF id # Junk /\ id[2] = 0 THEN {id[1].rtr} ELSE BOOLEAN
             dlcs == IF last # Junk /\ last[2] = HeaderSize - 1
                     THEN {<<last[1].dlc, last[1].ts>>} ELSE (ChipDlcs \cup SoftDlcs) \X BOOLEAN
  <2>1. PICK b \in rtrs, d \in dlcs : h = [rtr |-> b, dlc |-> d[1], ts |-> d[2]]
    BY DEF Headers
  <2> HIDE DEF id, last, f
  <2>2. rtrs = {f.rtr} /\ dlcs = {<<f.dlc, f.ts>>}
    BY <1>10
  <2> QED
    BY <2>1, <2>2
<1>12. f.data = (IF f.rtr THEN 0 ELSE Lesser(f.dlc, MaxData)) /\ (control /\ f.ts <=> f.ts)
  <2>1. Fair(f) /\ ~(f.ts /\ ~control) /\ ~(f.data > MaxData)
    BY <1>2 DEF Measured, Mismeasured
  <2> QED
    BY <2>1 DEF Fair
<1> HIDE DEF f
<1>13. ReadSize(h, control) = HeaderSize + (IF f.rtr THEN 0 ELSE Lesser(f.dlc, MaxData))
                                 + (IF control /\ f.ts THEN TimestampSize ELSE 0)
  BY <1>11, Zenon DEF ReadSize
<1>14. (IF control /\ f.ts THEN TimestampSize ELSE 0) = IF f.ts THEN TimestampSize ELSE 0
  BY <1>12, Zenon
<1>15. SizeOf(f) = HeaderSize + f.data + (IF f.ts THEN TimestampSize ELSE 0)
  BY DEF SizeOf
<1>16. f.data = IF f.rtr THEN 0 ELSE Lesser(f.dlc, MaxData)
  BY <1>12
<1>17. ReadSize(h, control) = SizeOf(f)
  <2> DEFINE y == IF f.rtr THEN 0 ELSE Lesser(f.dlc, MaxData)
             w == IF f.ts THEN TimestampSize ELSE 0
  <2>1. ReadSize(h, control) = HeaderSize + y + w
    BY <1>13, <1>14, Zenon
  <2>2. SizeOf(f) = HeaderSize + f.data + w
    BY <1>15
  <2>3. f.data = y
    BY <1>16
  <2> HIDE DEF y, w
  <2> QED
    BY <2>1, <2>2, <2>3
<1> QED
  BY <1>17 DEF f

-----------------------------------------------------------------------------
LEMMA NoWalkType == NoWalk \in [skb : SkbSet, left : 0..MaxEntries] /\ Fair(NoWalk.skb)
<1>1. 0 \in 0..(Seqs - 1) /\ 0 \in 0..MaxEntries
  BY Numbers
<1>2. NoWalk \in [skb : SkbSet, left : 0..MaxEntries]
  BY <1>1 DEF NoWalk, SkbSet
<1>3. Lesser(0, MaxData) = 0
  BY Numbers DEF Lesser
<1> QED
  BY <1>2, <1>3 DEF NoWalk, Fair

LEMMA EmptyRingType == EmptyRing \in RingSet
<1>1. [s \in Slots |-> Junk] \in [Slots -> Byte]
  BY DEF Byte
<1> QED
  BY <1>1, RingSize DEF EmptyRing, RingSet

(* An empty ring holds no frames. *)
LEMMA EmptyRingHolds ==
    Held(EmptyRing.head, EmptyRing.tail, EmptyRing.buf, Offsets(<<>>), <<>>)
<1> DEFINE e == << >>
<1>1. e \in Seq(FrameSet) /\ Len(e) = 0 /\ Len(e) + 1 = 1
  OBVIOUS
<1>2. Offsets(e)[1] = 0
  BY <1>1, OffsetsAre DEF Layout
<1>3. At(0, 0) = 0
  <2>1. 0 \in 0..RXBUF_SIZE /\ 0 + 0 < RXBUF_SIZE
    BY Numbers
  <2> QED
    BY <2>1, RingSize, Place
<1> HIDE DEF e
<1>4. Held(EmptyRing.head, EmptyRing.tail, EmptyRing.buf, Offsets(e), e)
  BY <1>1, <1>2, <1>3, Numbers DEF Held, EmptyRing
<1> QED
  BY <1>4 DEF e

(* The frames that come from the bus and from sendmsg *)
LEMMA FramesAre ==
    ASSUME seq \in 0..(Seqs - 1), NEW skb \in Frames
    PROVE  skb \in SkbSet /\ Fair(skb)
<1>1. ASSUME NEW rtr \in BOOLEAN, NEW dlc \in ChipDlcs \cup SoftDlcs, NEW soft \in BOOLEAN
      PROVE  Skb(rtr, dlc, soft) \in SkbSet /\ Fair(Skb(rtr, dlc, soft))
  <2> DEFINE e == IF rtr THEN 0 ELSE IF soft THEN dlc ELSE Lesser(dlc, MaxData)
             k == Skb(rtr, dlc, soft)
  <2>1. dlc \in Nat /\ MaxData \in Nat
    BY Numbers
  <2>2. e \in Nat
    BY <2>1 DEF Lesser
  <2>3. k = [seq |-> seq, rtr |-> rtr, dlc |-> dlc, data |-> e]
    BY DEF Skb
  <2>4. e = (IF rtr THEN 0 ELSE Lesser(dlc, MaxData)) \/ e > MaxData
    BY <2>1 DEF Lesser
  <2> HIDE DEF e, k
  <2>5. k \in SkbSet /\ Fair(k)
    BY <2>1, <2>2, <2>3, <2>4 DEF SkbSet, Fair
  <2> QED
    BY <2>5 DEF k
<1>2. CASE skb \in {Skb(x[1], x[2], FALSE) : x \in BOOLEAN \X ChipDlcs}
  <2>1. PICK x \in BOOLEAN \X ChipDlcs : skb = Skb(x[1], x[2], FALSE)
    BY <1>2
  <2>2. x[1] \in BOOLEAN /\ x[2] \in ChipDlcs \cup SoftDlcs
    OBVIOUS
  <2> QED
    BY <1>1, <2>1, <2>2
<1>3. CASE skb \in {Skb(x[1], x[2], TRUE) : x \in BOOLEAN \X SoftDlcs}
  <2>1. PICK x \in BOOLEAN \X SoftDlcs : skb = Skb(x[1], x[2], TRUE)
    BY <1>3
  <2>2. x[1] \in BOOLEAN /\ x[2] \in ChipDlcs \cup SoftDlcs
    OBVIOUS
  <2> QED
    BY <1>1, <2>1, <2>2
<1> QED
  BY <1>2, <1>3 DEF Frames

LEMMA StoredIs ==
    ASSUME TypeOK, Measured
    PROVE  Stored(walk.skb) \in FrameSet /\ Fair(Stored(walk.skb))
<1> DEFINE k == walk.skb
<1>1. k \in SkbSet /\ stamp \in BOOLEAN /\ Fair(k)
  BY DEF TypeOK, Measured
<1> HIDE DEF k
<1>2. Stored(k) \in FrameSet /\ Fair(Stored(k))
  BY <1>1 DEF Stored, FrameSet, SkbSet, Fair
<1> QED
  BY <1>2 DEF k

LEMMA StoreType ==
    ASSUME NEW r \in RingSet, NEW f \in FrameSet
    PROVE  /\ Store(r, f) \in RingSet
           /\ Store(r, f).sem = IF SizeFree(r) > SizeOf(f) THEN r.sem + 1 ELSE r.sem
           /\ r.sem \in Nat
<1> DEFINE t == r.tail
           c == r.buf
           z == SizeOf(f)
           d == [s \in Slots |-> LET i == At(s - t, RXBUF_SIZE)
                                 IN  IF i < z THEN <<f, i>> ELSE c[s]]
<1>1. t \in Slots /\ c \in [Slots -> Byte] /\ z \in Nat /\ r.sem \in Nat
  BY SizeType DEF RingSet
<1>2. Store(r, f) = IF SizeFree(r) > z THEN [r EXCEPT !.buf = d, !.tail = At(t, z), !.sem = r.sem + 1]
                    ELSE r
  BY DEF Store
<1> HIDE DEF t, c, z
<1>3. d \in [Slots -> Byte]
  <2>1. ASSUME NEW s \in Slots
        PROVE  (LET i == At(s - t, RXBUF_SIZE) IN IF i < z THEN <<f, i>> ELSE c[s]) \in Byte
    <3>1. At(s - t, RXBUF_SIZE) \in Nat
      BY <1>1, Gap
    <3>2. c[s] \in Byte
      BY <1>1
    <3> QED
      BY <3>1, <3>2 DEF Byte
  <2> QED
    BY <2>1
<1>4. At(t, z) \in Slots
  BY <1>1, AtType
<1> HIDE DEF d
<1>5. [r EXCEPT !.buf = d, !.tail = At(t, z), !.sem = r.sem + 1] \in RingSet
  <2> DEFINE y == r.sem + 1
             w == At(t, z)
             B == [Slots -> Byte]
  <2>1. y \in Nat /\ w \in Slots /\ d \in B
    BY <1>1, <1>3, <1>4
  <2>2. r \in [head : Slots, tail : Slots, buf : B, sem : Nat]
    BY DEF RingSet
  <2> HIDE DEF y, w, B
  <2>3. [r EXCEPT !.buf = d, !.tail = w, !.sem = y] \in [head : Slots, tail : Slots, buf : B, sem : Nat]
    BY <2>1, <2>2
  <2> QED
    BY <2>3 DEF RingSet, y, w, B
<1>6. [r EXCEPT !.buf = d, !.tail = At(t, z), !.sem = r.sem + 1].sem = r.sem + 1
  BY DEF RingSet
<1> QED
  BY <1>1, <1>2, <1>5, <1>6 DEF z

-----------------------------------------------------------------------------
LEMMA InitInv == Init => IInv
<1> SUFFICES ASSUME Init PROVE IInv
  OBVIOUS
<1>1. queue = <<>> /\ ring = EmptyRing /\ walk = NoWalk /\ call = [r \in Readers |-> Idle]
  BY DEF Init
<1>2. queue \in Seq(FrameSet) /\ Len(queue) = 0
  BY <1>1
<1>3. TypeOK
  <2>1. ring \in [head : Slots, tail : Slots, buf : [Slots -> Byte], sem : Nat]
    BY <1>1, EmptyRingType DEF RingSet
  <2>2. walk \in [skb : SkbSet, left : 0..MaxEntries]
    BY <1>1, NoWalkType
  <2>3. call \in [Readers -> [pc : PCs, peek : BOOLEAN, control : BOOLEAN]]
    BY <1>1 DEF Idle, PCs
  <2>4. stamp \in BOOLEAN /\ open \in BOOLEAN /\ astray \in BOOLEAN
    BY DEF Init
  <2>5. seq \in 0..(Seqs - 1)
    BY Numbers DEF Init
  <2> QED
    BY <1>2, <2>1, <2>2, <2>3, <2>4, <2>5, Zenon DEF TypeOK
<1>4. Measured
  BY <1>1, <1>2, NoWalkType DEF Measured
<1>5. ClosedIsIdle
  BY <1>1 DEF ClosedIsIdle, NoWalk, Idle
<1>6. RingHoldsFrames
  BY <1>1, EmptyRingHolds, HoldsIsHeld
<1>7. PermitPerFrame
  <2> DEFINE X == {r \in Readers : call[r].pc = "read"}
  <2>1. X = {}
    BY <1>1 DEF Idle
  <2> HIDE DEF X
  <2>2. Cardinality(X) = 0
    BY <2>1, FS_EmptySet
  <2>3. ring.sem = 0
    BY <1>1 DEF EmptyRing
  <2>4. ring.sem + Cardinality(X) = Len(queue)
    BY <1>2, <2>2, <2>3
  <2> QED
    BY <2>4 DEF PermitPerFrame, X
<1> QED
  BY <1>3, <1>4, <1>5, <1>6, <1>7 DEF IInv

-----------------------------------------------------------------------------
(* The steps *)
LEMMA HoldsNext ==
    RingHoldsFrames' <=>
        (~astray' => Held(ring'.head, ring'.tail, ring'.buf, Offsets(queue'), queue'))
  BY DEF RingHoldsFrames, Held

Reading == {r \in Readers : call[r].pc = "read"}
LEMMA ReadingFinite == IsFiniteSet(Reading) /\ Cardinality(Reading) \in Nat
<1>1. IsFiniteSet(Readers) /\ Reading \subseteq Readers
  BY CanRingAssumption DEF Reading
<1> QED
  BY <1>1, FS_Subset, FS_CardinalityType

(* Socket and close, which find nobody inside, leave an empty ring. *)
LEMMA EmptiedInv ==
    ASSUME IInv, walk.left = 0, \A r \in Readers : call[r].pc = "idle",
           open' \in BOOLEAN, ring' = EmptyRing, stamp' = FALSE, queue' = <<>>, seq' = 0,
           astray' = FALSE, UNCHANGED <<walk, call>>
    PROVE  IInv'
<1>1. queue' \in Seq(FrameSet) /\ Len(queue') = 0
  OBVIOUS
<1>2. TypeOK'
  <2>1. ring' \in [head : Slots, tail : Slots, buf : [Slots -> Byte], sem : Nat]
    BY EmptyRingType DEF RingSet
  <2>2. /\ walk' \in [skb : SkbSet, left : 0..MaxEntries]
        /\ call' \in [Readers -> [pc : PCs, peek : BOOLEAN, control : BOOLEAN]]
    BY DEF IInv, TypeOK
  <2>3. seq' \in 0..(Seqs - 1)
    BY Numbers
  <2>4. stamp' \in BOOLEAN /\ open' \in BOOLEAN /\ astray' \in BOOLEAN
    OBVIOUS
  <2> QED
    BY <1>1, <2>1, <2>2, <2>3, <2>4, Zenon DEF TypeOK
<1>3. Measured'
  BY <1>1 DEF IInv, Measured
<1>4. ClosedIsIdle'
  BY DEF ClosedIsIdle
<1>5. RingHoldsFrames'
  BY EmptyRingHolds, HoldsNext
<1>6. PermitPerFrame'
  <2> DEFINE X == {r \in Readers : call'[r].pc = "read"}
  <2>1. X = {}
    OBVIOUS
  <2> HIDE DEF X
  <2>2. Cardinality(X) = 0 /\ ring'.sem = 0
    BY <2>1, FS_EmptySet DEF EmptyRing
  <2>3. ring'.sem + Cardinality(X) = Len(queue')
    BY <1>1, <2>2
  <2> QED
    BY <2>3 DEF PermitPerFrame, X
<1> QED
  BY <1>2, <1>3, <1>4, <1>5, <1>6 DEF IInv

(* Steps that leave ring and frames alone and move no reader to or from    *)
(* the copy out of the ring                                                *)
LEMMA OutsideInv ==
    ASSUME IInv, UNCHANGED <<ring, queue, astray>>, TypeOK', ClosedIsIdle', Fair(walk'.skb),
           {r \in Readers : call'[r].pc = "read"} = Reading
    PROVE  IInv'
<1>1. Measured'
  BY DEF IInv, Measured
<1>2. RingHoldsFrames'
  BY HoldsIsHeld, HoldsNext DEF IInv
<1>3. PermitPerFrame'
  BY DEF IInv, PermitPerFrame, Reading
<1> QED
  BY <1>1, <1>2, <1>3 DEF IInv

LEMMA DeliverInv ==
    ASSUME IInv, Deliver
    PROVE  IInv'
<1> DEFINE f == Stored(walk.skb)
           n == Cardinality(Reading)
<1>1. TypeOK /\ Measured /\ ClosedIsIdle /\ RingHoldsFrames /\ PermitPerFrame
  BY DEF IInv
<1>2. f \in FrameSet /\ Fair(f)
  BY <1>1, StoredIs
<1>3. ring \in RingSet /\ queue \in Seq(FrameSet)
  BY <1>1 DEF TypeOK, RingSet
<1>4. /\ walk.left > 0 /\ ring' = Store(ring, f)
      /\ queue' = IF ring'.sem > ring.sem THEN Append(queue, f) ELSE queue
      /\ walk' = IF walk.left = 1 THEN NoWalk ELSE [walk EXCEPT !.left = @ - 1]
      /\ UNCHANGED <<stamp, open, call, seq, astray>>
  BY DEF Deliver
<1> HIDE DEF f
<1>5. /\ ring' \in RingSet /\ ring.sem \in Nat
      /\ ring'.sem = IF SizeFree(ring) > SizeOf(f) THEN ring.sem + 1 ELSE ring.sem
  BY <1>2, <1>3, <1>4, StoreType
<1>6. ring'.sem > ring.sem <=> SizeFree(ring) > SizeOf(f)
  <2> DEFINE x == ring.sem
             y == ring'.sem
             p == SizeFree(ring) > SizeOf(f)
  <2>1. x \in Nat /\ y = IF p THEN x + 1 ELSE x
    BY <1>5
  <2> HIDE DEF x, y, p
  <2>2. y > x <=> p
    BY <2>1
  <2> QED
    BY <2>2 DEF x, y, p
<1>7. open
  BY <1>1, <1>4 DEF ClosedIsIdle, TypeOK
<1>8. walk' \in [skb : SkbSet, left : 0..MaxEntries] /\ Fair(walk'.skb)
  <2>1. walk \in [skb : SkbSet, left : 0..MaxEntries] /\ Fair(walk.skb)
    BY <1>1 DEF TypeOK, Measured
  <2>2. CASE walk.left = 1
    BY <1>4, <2>2, NoWalkType
  <2>3. CASE walk.left # 1
    <3> DEFINE l == walk.left
    <3>1. l \in 0..MaxEntries /\ l > 0
      BY <1>4, <2>1
    <3> HIDE DEF l
    <3>2. l - 1 \in 0..MaxEntries
      BY <3>1, Numbers
    <3>3. walk' = [walk EXCEPT !.left = l - 1]
      BY <1>4, <2>3 DEF l
    <3> QED
      BY <2>1, <3>2, <3>3
  <2> QED
    BY <2>2, <2>3
<1>9. queue' \in Seq(FrameSet)
  BY <1>2, <1>3, <1>4
<1>10. TypeOK'
  <2>1. /\ call' \in [Readers -> [pc : PCs, peek : BOOLEAN, control : BOOLEAN]]
        /\ seq' \in 0..(Seqs - 1) /\ stamp' \in BOOLEAN /\ open' \in BOOLEAN /\ astray' \in BOOLEAN
    BY <1>1, <1>4 DEF TypeOK
  <2>2. ring' \in [head : Slots, tail : Slots, buf : [Slots -> Byte], sem : Nat]
    BY <1>5 DEF RingSet
  <2> QED
    BY <1>8, <1>9, <2>1, <2>2, Zenon DEF TypeOK
<1>11. Measured'
  <2>1. CASE queue' = queue
    BY <1>1, <1>8, <2>1 DEF Measured
  <2>2. CASE queue' = Append(queue, f)
    <3>1. ASSUME NEW i \in 1..Len(queue')
          PROVE  Fair(queue'[i])
      <4>1. CASE i = Len(queue) + 1
        <5>1. queue'[i] = f
          BY <1>3, <2>2, <4>1
        <5> QED
          BY <1>2, <5>1
      <4>2. CASE i # Len(queue) + 1
        <5>1. i \in 1..Len(queue) /\ queue'[i] = queue[i]
          BY <1>3, <2>2, <4>2
        <5> QED
          BY <1>1, <5>1 DEF Measured
      <4> QED
        BY <4>1, <4>2
    <3> QED
      BY <1>8, <3>1 DEF Measured
  <2> QED
    BY <1>4, <2>1, <2>2
<1>12. ClosedIsIdle'
  BY <1>4, <1>7 DEF ClosedIsIdle
<1>13. RingHoldsFrames'
  <2> SUFFICES ASSUME ~astray'
               PROVE  Held(ring'.head, ring'.tail, ring'.buf, Offsets(queue'), queue')
    BY HoldsNext
  <2>1. Held(ring.head, ring.tail, ring.buf, Offsets(queue), queue)
    BY <1>1, <1>4, HoldsIsHeld
  <2>2. CASE SizeFree(ring) > SizeOf(f)
    <3>1. queue' = Append(queue, f)
      BY <1>4, <1>6, <2>2
    <3>2. Layout(Offsets(queue), queue)
      BY <1>3, OffsetsAre
    <3> QED
      BY <1>2, <1>3, <1>4, <2>1, <2>2, <3>1, <3>2, StoredHeld
  <2>3. CASE ~(SizeFree(ring) > SizeOf(f))
    <3>1. queue' = queue /\ ring' = ring
      BY <1>4, <1>6, <2>3 DEF Store
    <3> QED
      BY <2>1, <3>1
  <2> QED
    BY <2>2, <2>3
<1>14. PermitPerFrame'
  <2>1. ring.sem + n = Len(queue)
    BY <1>1 DEF PermitPerFrame, Reading
  <2>2. {r \in Readers : call'[r].pc = "read"} = Reading
    BY <1>4 DEF Reading
  <2>3. n \in Nat
    BY ReadingFinite
  <2> HIDE DEF n
  <2>4. ring'.sem + n = Len(queue')
    <3>1. CASE SizeFree(ring) > SizeOf(f)
      <4>1. Len(queue') = Len(queue) + 1 /\ ring'.sem = ring.sem + 1
        BY <1>3, <1>4, <1>5, <1>6, <3>1
      <4> DEFINE x == ring.sem
                 l == Len(queue)
      <4>2. x \in Nat /\ x + n = l
        BY <1>5, <2>1
      <4> HIDE DEF x, l
      <4>3. (x + 1) + n = l + 1
        BY <2>3, <4>2
      <4> QED
        BY <4>1, <4>3 DEF x, l
    <3>2. CASE ~(SizeFree(ring) > SizeOf(f))
      BY <1>4, <1>5, <1>6, <2>1, <3>2
    <3> QED
      BY <3>1, <3>2
  <2> QED
    BY <2>2, <2>4 DEF PermitPerFrame, n
<1> QED
  BY <1>10, <1>11, <1>12, <1>13, <1>14 DEF IInv

(* A reader takes a permit, and gives it back or uses it up. *)
LEMMA DownInv ==
    ASSUME IInv, NEW r \in Readers, Down(r)
    PROVE  IInv'
<1> DEFINE n == Cardinality(Reading)
           X == {x \in Readers : call'[x].pc = "read"}
<1>1. TypeOK /\ Measured /\ ClosedIsIdle /\ RingHoldsFrames /\ PermitPerFrame
  BY DEF IInv
<1>2. /\ call[r].pc = "down" /\ ring.sem > 0 /\ ring' = [ring EXCEPT !.sem = @ - 1]
      /\ call' = [call EXCEPT ![r].pc = "read"]
      /\ UNCHANGED <<stamp, open, walk, queue, seq, astray>>
  BY DEF Down
<1>3. ring \in RingSet /\ call \in [Readers -> [pc : PCs, peek : BOOLEAN, control : BOOLEAN]]
  BY <1>1 DEF TypeOK, RingSet
<1>4. /\ ring' \in RingSet /\ ring'.sem = ring.sem - 1 /\ ring.sem \in Nat
      /\ ring'.head = ring.head /\ ring'.tail = ring.tail /\ ring'.buf = ring.buf
  <2> DEFINE B == [Slots -> Byte]
             y == ring.sem - 1
  <2>1. ring \in [head : Slots, tail : Slots, buf : B, sem : Nat] /\ ring.sem \in Nat
    BY <1>3 DEF RingSet
  <2>2. y \in Nat /\ ring' = [ring EXCEPT !.sem = y]
    BY <1>2, <2>1
  <2> HIDE DEF B, y
  <2>3. /\ ring' \in [head : Slots, tail : Slots, buf : B, sem : Nat] /\ ring'.sem = y
        /\ ring'.head = ring.head /\ ring'.tail = ring.tail /\ ring'.buf = ring.buf
    BY <2>1, <2>2
  <2> QED
    BY <2>1, <2>3 DEF RingSet, B, y
<1>5. call' \in [Readers -> [pc : PCs, peek : BOOLEAN, control : BOOLEAN]]
  BY <1>2, <1>3 DEF PCs
<1>6. TypeOK'
  <2>1. ring' \in [head : Slots, tail : Slots, buf : [Slots -> Byte], sem : Nat]
    BY <1>4 DEF RingSet
  <2>2. /\ walk' \in [skb : SkbSet, left : 0..MaxEntries] /\ queue' \in Seq(FrameSet)
        /\ seq' \in 0..(Seqs - 1) /\ stamp' \in BOOLEAN /\ open' \in BOOLEAN /\ astray' \in BOOLEAN
    BY <1>1, <1>2 DEF TypeOK
  <2> QED
    BY <1>5, <2>1, <2>2, Zenon DEF TypeOK
<1>7. Measured'
  BY <1>1, <1>2 DEF Measured
<1>8. ClosedIsIdle'
  <2>1. open
    BY <1>1, <1>2 DEF ClosedIsIdle
  <2> QED
    BY <1>2, <2>1 DEF ClosedIsIdle
<1>9. RingHoldsFrames'
  BY <1>1, <1>2, <1>4, HoldsIsHeld, HoldsNext
<1>10. PermitPerFrame'
  <2>1. ring.sem + n = Len(queue) /\ n \in Nat
    BY <1>1, ReadingFinite DEF PermitPerFrame, Reading
  <2>2. X = Reading \cup {r} /\ r \notin Reading
    BY <1>2, <1>3 DEF Reading
  <2> HIDE DEF X
  <2>3. Cardinality(X) = n + 1
    BY <2>2, ReadingFinite, FS_AddElement
  <2> HIDE DEF n
  <2>4. ring'.sem + Cardinality(X) = Len(queue')
    <3> DEFINE x == ring.sem
    <3>1. x \in Nat /\ x + n = Len(queue)
      BY <1>4, <2>1
    <3> HIDE DEF x
    <3>2. (x - 1) + (n + 1) = Len(queue)
      BY <2>1, <3>1
    <3> QED
      BY <1>2, <1>4, <2>3, <3>2 DEF x
  <2> QED
    BY <2>4 DEF PermitPerFrame, X
<1> QED
  BY <1>6, <1>7, <1>8, <1>9, <1>10 DEF IInv

LEMMA ReadInv ==
    ASSUME IInv, NEW r \in Readers, Read(r)
    PROVE  IInv'
<1> DEFINE n == Cardinality(Reading)
           X == {x \in Readers : call'[x].pc = "read"}
<1>1. TypeOK /\ Measured /\ ClosedIsIdle /\ RingHoldsFrames /\ PermitPerFrame
  BY DEF IInv
<1>2. /\ call[r].pc = "read" /\ walk.left = 0 /\ call' = [call EXCEPT ![r] = Idle]
      /\ UNCHANGED <<stamp, open, walk, seq>>
  BY DEF Read
<1>3. /\ ring \in RingSet /\ call \in [Readers -> [pc : PCs, peek : BOOLEAN, control : BOOLEAN]]
      /\ queue \in Seq(FrameSet) /\ astray \in BOOLEAN
  BY <1>1 DEF TypeOK, RingSet
<1>4. call' \in [Readers -> [pc : PCs, peek : BOOLEAN, control : BOOLEAN]]
  BY <1>2, <1>3 DEF PCs, Idle
<1>5. X = Reading \ {r} /\ r \in Reading
  BY <1>2, <1>3 DEF Reading, Idle
<1> HIDE DEF X
<1>6. Cardinality(X) = n - 1 /\ Cardinality(X) \in Nat /\ n \in Nat
  BY <1>5, ReadingFinite, FS_RemoveElement, FS_CardinalityType
<1>7. ring.sem + n = Len(queue) /\ ring.sem \in Nat
  BY <1>1, <1>3 DEF PermitPerFrame, Reading, RingSet
<1> HIDE DEF n
<1>8. queue # <<>>
  <2>1. Len(queue) > 0
    <3> DEFINE x == ring.sem
               l == Len(queue)
    <3>1. x + n = l /\ x \in Nat /\ n > 0 /\ n \in Nat
      BY <1>6, <1>7
    <3> HIDE DEF x, l
    <3>2. l > 0
      BY <3>1
    <3> QED
      BY <3>2 DEF l
  <2> QED
    BY <2>1
<1>9. ClosedIsIdle'
  <2>1. open
    BY <1>1, <1>2 DEF ClosedIsIdle
  <2> QED
    BY <1>2, <2>1 DEF ClosedIsIdle
<1>10. ASSUME ring' \in RingSet, queue' \in Seq(FrameSet), astray' \in BOOLEAN
       PROVE  TypeOK'
  <2>1. ring' \in [head : Slots, tail : Slots, buf : [Slots -> Byte], sem : Nat]
    BY <1>10 DEF RingSet
  <2>2. /\ walk' \in [skb : SkbSet, left : 0..MaxEntries]
        /\ seq' \in 0..(Seqs - 1) /\ stamp' \in BOOLEAN /\ open' \in BOOLEAN
    BY <1>1, <1>2 DEF TypeOK
  <2> QED
    BY <1>4, <1>10, <2>1, <2>2, Zenon DEF TypeOK
<1>11. CASE call[r].peek
  <2>1. ring' = [ring EXCEPT !.sem = @ + 1] /\ UNCHANGED <<queue, astray>>
    BY <1>11 DEF Read
  <2>2. /\ ring' \in RingSet /\ ring'.sem = ring.sem + 1
        /\ ring'.head = ring.head /\ ring'.tail = ring.tail /\ ring'.buf = ring.buf
    <3> DEFINE B == [Slots -> Byte]
               y == ring.sem + 1
    <3>1. ring \in [head : Slots, tail : Slots, buf : B, sem : Nat]
      BY <1>3 DEF RingSet
    <3>2. y \in Nat /\ ring' = [ring EXCEPT !.sem = y]
      BY <1>7, <2>1
    <3> HIDE DEF B, y
    <3>3. /\ ring' \in [head : Slots, tail : Slots, buf : B, sem : Nat] /\ ring'.sem = y
          /\ ring'.head = ring.head /\ ring'.tail = ring.tail /\ ring'.buf = ring.buf
      BY <3>1, <3>2
    <3> QED
      BY <3>3 DEF RingSet, B, y
  <2>3. TypeOK'
    BY <1>3, <1>10, <2>1, <2>2
  <2>4. Measured'
    BY <1>1, <1>2, <2>1 DEF Measured
  <2>5. RingHoldsFrames'
    BY <1>1, <2>1, <2>2, HoldsIsHeld, HoldsNext
  <2>6. PermitPerFrame'
    <3> DEFINE x == ring.sem
               c == Cardinality(X)
    <3>1. x + n = Len(queue) /\ x \in Nat /\ c = n - 1 /\ n \in Nat
      BY <1>6, <1>7
    <3> HIDE DEF x, c
    <3>2. (x + 1) + c = Len(queue)
      BY <3>1
    <3>3. ring'.sem + Cardinality(X) = Len(queue')
      BY <2>1, <2>2, <3>2 DEF x, c
    <3> QED
      BY <3>3 DEF PermitPerFrame, X
  <2> QED
    BY <1>9, <2>3, <2>4, <2>5, <2>6 DEF IInv
<1>12. CASE ~call[r].peek
  <2> DEFINE control == call[r].control
             h == ring.head
             t == ring.tail
             c == ring.buf
             Cut(z) == [s \in Slots |-> IF At(s - h, RXBUF_SIZE) < z THEN Junk ELSE c[s]]
  <2>1. PICK hd \in Headers(ring.head) :
            LET size == ReadSize(hd, call[r].control)
            IN  /\ ring' = [ring EXCEPT !.head = At(@, size),
                              !.buf = [s \in Slots |->
                                 IF At(s - ring.head, RXBUF_SIZE) < size THEN Junk ELSE @[s]]]
                /\ astray' = (astray \/ queue = <<>> \/ Mismeasured(queue[1], call[r].control))
                /\ queue' = IF queue = <<>> THEN queue ELSE Tail(queue)
    BY <1>12 DEF Read
  <2> DEFINE z == ReadSize(hd, control)
  <2>2. /\ ring' = [ring EXCEPT !.head = At(h, z), !.buf = Cut(z)]
        /\ astray' = (astray \/ Mismeasured(queue[1], control))
        /\ queue' = Tail(queue)
    BY <1>8, <2>1
  <2>3. control \in BOOLEAN /\ h \in Slots /\ c \in [Slots -> Byte] /\ t \in Slots
    BY <1>3 DEF RingSet
  <2>4. z \in Nat
    BY <1>1, <2>3, HeaderType
  <2> HIDE DEF z, control
  <2>5. Cut(z) \in [Slots -> Byte] /\ At(h, z) \in Slots
    BY <2>3, <2>4, AtType DEF Byte
  <2>6. /\ ring' \in RingSet /\ ring'.sem = ring.sem
        /\ ring'.head = At(h, z) /\ ring'.tail = t /\ ring'.buf = Cut(z)
    <3> DEFINE B == [Slots -> Byte]
               y == Cut(z)
               w == At(h, z)
    <3>1. /\ ring \in [head : Slots, tail : Slots, buf : B, sem : Nat]
          /\ y \in B /\ w \in Slots /\ ring' = [ring EXCEPT !.head = w, !.buf = y]
      BY <1>3, <2>2, <2>5 DEF RingSet
    <3> HIDE DEF B, y, w
    <3>2. /\ ring' \in [head : Slots, tail : Slots, buf : B, sem : Nat] /\ ring'.sem = ring.sem
          /\ ring'.head = w /\ ring'.tail = ring.tail /\ ring'.buf = y
      BY <3>1
    <3> QED
      BY <3>2 DEF RingSet, B, y, w
  <2>7. /\ queue' \in Seq(FrameSet) /\ Len(queue') = Len(queue) - 1
        /\ \A i \in 1..Len(queue') : i + 1 \in 1..Len(queue) /\ queue'[i] = queue[i + 1]
    BY <1>3, <1>8, <2>2
  <2>8. TypeOK'
    <3>1. astray' \in BOOLEAN
      BY <2>2
    <3> QED
      BY <1>10, <2>6, <2>7, <3>1
  <2>9. Measured'
    <3>1. \A i \in 1..Len(queue') : Fair(queue'[i])
      BY <1>1, <2>7 DEF Measured
    <3> QED
      BY <1>1, <1>2, <3>1 DEF Measured
  <2>10. RingHoldsFrames'
    <3> SUFFICES ASSUME ~astray'
                 PROVE  Held(ring'.head, ring'.tail, ring'.buf, Offsets(queue'), queue')
      BY HoldsNext
    <3>1. ~astray /\ ~Mismeasured(queue[1], control)
      BY <2>2
    <3>2. z = SizeOf(queue[1])
      BY <1>1, <1>8, <2>3, <3>1, HeaderSays DEF z
    <3>3. Held(h, t, c, Offsets(queue), queue)
      BY <1>1, <3>1, HoldsIsHeld
    <3>4. Layout(Offsets(queue), queue)
      BY <1>3, OffsetsAre
    <3> HIDE DEF h, t, c
    <3>5. Held(At(h, z), t, Cut(z), Offsets(Tail(queue)), Tail(queue))
      BY <1>3, <1>8, <2>3, <3>2, <3>3, <3>4, ReadHeld
    <3> QED
      BY <2>2, <2>6, <3>5
  <2>11. PermitPerFrame'
    <3> DEFINE x == ring.sem
               d == Cardinality(X)
               l == Len(queue)
    <3>1. x + n = l /\ x \in Nat /\ d = n - 1 /\ n \in Nat
      BY <1>6, <1>7
    <3> HIDE DEF x, d, l
    <3>2. x + d = l - 1
      BY <3>1
    <3>3. ring'.sem + Cardinality(X) = Len(queue')
      BY <2>6, <2>7, <3>2 DEF x, d, l
    <3> QED
      BY <3>3 DEF PermitPerFrame, X
  <2> QED
    BY <1>9, <2>8, <2>9, <2>10, <2>11 DEF IInv
<1> QED
  BY <1>11, <1>12

LEMMA NextInv == IInv /\ [Next]_vars => IInv'
<1> SUFFICES ASSUME IInv, [Next]_vars PROVE IInv'
  OBVIOUS
<1>1. TypeOK /\ Measured /\ ClosedIsIdle /\ RingHoldsFrames /\ PermitPerFrame
  BY DEF IInv
<1>2. CASE Socket
  <2>1. walk.left = 0 /\ \A r \in Readers : call[r].pc = "idle"
    BY <1>1, <1>2 DEF Socket, ClosedIsIdle
  <2> QED
    BY <1>2, <2>1, EmptiedInv DEF Socket
<1>3. CASE Close
  BY <1>3, EmptiedInv DEF Close
<1>4. ASSUME NEW on \in BOOLEAN, TakeTimestamp(on)
      PROVE  IInv'
  <2>1. stamp' = on /\ UNCHANGED <<ring, open, walk, call, queue, seq, astray>>
    BY <1>4 DEF TakeTimestamp
  <2>2. TypeOK'
    BY <1>1, <2>1 DEF TypeOK
  <2>3. ClosedIsIdle' /\ Fair(walk'.skb)
    BY <1>1, <2>1 DEF ClosedIsIdle, Measured
  <2>4. {r \in Readers : call'[r].pc = "read"} = Reading
    BY <2>1 DEF Reading
  <2> QED
    BY <2>1, <2>2, <2>3, <2>4, OutsideInv
<1>5. ASSUME NEW skb \in Frames, NEW n \in 1..MaxEntries, Rcv(skb, n)
      PROVE  IInv'
  <2>1. /\ open /\ walk' = [skb |-> skb, left |-> n] /\ seq' = (seq + 1) % Seqs
        /\ UNCHANGED <<ring, stamp, open, call, queue, astray>>
    BY <1>5 DEF Rcv
  <2>2. seq \in 0..(Seqs - 1)
    BY <1>1 DEF TypeOK
  <2>3. skb \in SkbSet /\ Fair(skb)
    BY <2>2, FramesAre
  <2>4. walk' \in [skb : SkbSet, left : 0..MaxEntries] /\ Fair(walk'.skb)
    <3>1. n \in 0..MaxEntries
      BY Numbers
    <3> QED
      BY <2>1, <2>3, <3>1
  <2>5. seq' \in 0..(Seqs - 1)
    BY <2>1, <2>2, Numbers
  <2>6. TypeOK'
    BY <1>1, <2>1, <2>4, <2>5 DEF TypeOK
  <2>7. ClosedIsIdle' /\ {r \in Readers : call'[r].pc = "read"} = Reading
    BY <2>1 DEF ClosedIsIdle, Reading
  <2> QED
    BY <2>1, <2>4, <2>6, <2>7, OutsideInv
<1>6. CASE Deliver
  BY <1>6, DeliverInv
<1>7. ASSUME NEW r \in Readers, NEW peek \in BOOLEAN, NEW control \in BOOLEAN,
             Recvmsg(r, peek, control)
      PROVE  IInv'
  <2>1. /\ open /\ call[r].pc = "idle"
        /\ call' = [call EXCEPT ![r] = [pc |-> "down", peek |-> peek, control |-> control]]
        /\ UNCHANGED <<ring, stamp, open, walk, queue, seq, astray>>
    BY <1>7 DEF Recvmsg
  <2>2. call \in [Readers -> [pc : PCs, peek : BOOLEAN, control : BOOLEAN]]
    BY <1>1 DEF TypeOK
  <2>3. call' \in [Readers -> [pc : PCs, peek : BOOLEAN, control : BOOLEAN]]
    BY <2>1, <2>2 DEF PCs
  <2>4. TypeOK'
    BY <1>1, <2>1, <2>3 DEF TypeOK
  <2>5. ClosedIsIdle' /\ Fair(walk'.skb)
    BY <1>1, <2>1 DEF ClosedIsIdle, Measured
  <2>6. {x \in Readers : call'[x].pc = "read"} = Reading
    BY <2>1, <2>2 DEF Reading
  <2> QED
    BY <2>1, <2>4, <2>5, <2>6, OutsideInv
<1>8. ASSUME NEW r \in Readers, Down(r)
      PROVE  IInv'
  BY <1>8, DownInv
<1>9. ASSUME NEW r \in Readers, DownFails(r)
      PROVE  IInv'
  <2>1. /\ call[r].pc = "down" /\ call' = [call EXCEPT ![r] = Idle]
        /\ UNCHANGED <<ring, stamp, open, walk, queue, seq, astray>>
    BY <1>9 DEF DownFails
  <2>2. call \in [Readers -> [pc : PCs, peek : BOOLEAN, control : BOOLEAN]]
    BY <1>1 DEF TypeOK
  <2>3. call' \in [Readers -> [pc : PCs, peek : BOOLEAN, control : BOOLEAN]]
    BY <2>1, <2>2 DEF PCs, Idle
  <2>4. TypeOK'
    BY <1>1, <2>1, <2>3 DEF TypeOK
  <2>5. open
    BY <1>1, <2>1 DEF ClosedIsIdle
  <2>6. ClosedIsIdle' /\ Fair(walk'.skb)
    BY <1>1, <2>1, <2>5 DEF ClosedIsIdle, Measured
  <2>7. {x \in Readers : call'[x].pc = "read"} = Reading
    BY <2>1, <2>2 DEF Reading, Idle
  <2> QED
    BY <2>1, <2>4, <2>6, <2>7, OutsideInv
<1>10. ASSUME NEW r \in Readers, Read(r)
       PROVE  IInv'
  BY <1>10, ReadInv
<1>11. CASE UNCHANGED vars
  <2>1. UNCHANGED <<ring, stamp, open, walk, call, queue, seq, astray>>
    BY <1>11 DEF vars
  <2>2. TypeOK'
    BY <1>1, <2>1 DEF TypeOK
  <2>3. ClosedIsIdle' /\ Fair(walk'.skb) /\ {x \in Readers : call'[x].pc = "read"} = Reading
    BY <1>1, <2>1 DEF ClosedIsIdle, Measured, Reading
  <2> QED
    BY <2>1, <2>2, <2>3, OutsideInv
<1> QED
  BY <1>2, <1>3, <1>4, <1>5, <1>6, <1>7, <1>8, <1>9, <1>10, <1>11 DEF Next

LEMMA Invariant == Spec => []IInv
  BY InitInv, NextInv, PTL DEF Spec

-----------------------------------------------------------------------------
(* The types: recv_head and recv_tail stay inside recv_buf, which holds    *)
(* nothing but bytes of frames.                                            *)
THEOREM TypeCorrect == Spec => []TypeOK
<1>1. IInv => TypeOK
  BY DEF IInv
<1> QED
  BY <1>1, Invariant, PTL

(* rtcan_rcv_deliver and rtcan_raw_recvmsg agree on where frames begin and *)
(* end, for rings and frames of any size and any number of readers and     *)
(* copies: the ring holds the unread frames in order, and never looks      *)
(* empty when it is full.  Excepted are the frames that recvmsg is known   *)
(* to measure wrongly.                                                     *)
THEOREM FramesInOrder == Spec => []RingHoldsFrames
<1>1. IInv => RingHoldsFrames
  BY DEF IInv
<1> QED
  BY <1>1, Invariant, PTL

(* The value of recv_sem and the readers that have taken a permit add up   *)
(* to the frames in the ring, even after a frame was measured wrongly.     *)
THEOREM PermitsCountFrames == Spec => []PermitPerFrame
<1>1. IInv => PermitPerFrame
  BY DEF IInv
<1> QED
  BY <1>1, Invariant, PTL

(* So no reader that got past recv_sem finds the ring without a frame.     *)
THEOREM NoEmptyRead == Spec => []\A r \in Readers : call[r].pc = "read" => queue # <<>>
<1>1. IInv => \A r \in Readers : call[r].pc = "read" => queue # <<>>
  <2> SUFFICES ASSUME IInv, NEW r \in Readers, call[r].pc = "read"
               PROVE  queue # <<>>
    OBVIOUS
  <2> DEFINE n == Cardinality(Reading)
             x == ring.sem
             l == Len(queue)
  <2>1. x + n = l /\ x \in Nat /\ n \in Nat
    BY ReadingFinite DEF IInv, TypeOK, PermitPerFrame, Reading
  <2>2. n # 0
    BY ReadingFinite, FS_EmptySet DEF Reading
  <2> HIDE DEF n, x, l
  <2>3. l # 0
    BY <2>1, <2>2
  <2> QED
    BY <2>3 DEF l
<1> QED
  BY <1>1, Invariant, PTL
=============================================================================
