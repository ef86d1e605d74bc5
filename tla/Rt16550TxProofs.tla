--------------------------- MODULE Rt16550TxProofs ---------------------------
(***************************************************************************)
(* Proofs about module Rt16550Tx, for any number of writers and any size   *)
(* of ring and FIFO: the transmit ring holds the byte stream, and the      *)
(* transmitter interrupt is armed whenever somebody counts on it.          *)
(***************************************************************************)
EXTENDS Rt16550Tx, TLAPS

-----------------------------------------------------------------------------
(* The parts of the inductive invariant.  out_lock has one holder, the     *)
(* writer that is past it; a closed device has no writer inside.           *)
Locked ==
    \A w \in Writers : IF pc[w] \in {"idle", "lock"} THEN w \notin holder ELSE holder = {w}
ClosedIsIdle == ~opened => \A w \in Writers : pc[w] = "idle"

(* The block chosen at the top of the loop still fits when it is committed *)
(* and, unless a purge came between, still belongs at out_tail.            *)
BlockFits ==
    \A w \in Writers : pc[w] \in {"copy", "commit"} =>
        /\ block[w] \in 1..nbyte[w] /\ npend + block[w] <= Size
        /\ ~torn => pos[w] = tail

(* What was copied and not yet committed lies behind the stream. *)
CopiedFollows ==
    \A w \in Writers : pc[w] = "commit" /\ ~torn =>
        \A i \in 0..(block[w] - 1) : buf[(tail + i) % Size] = accepted + i + 1

StreamInv == TypeOK /\ Locked /\ BlockFits /\ CopiedFollows /\ RingHoldsStream
IInv == StreamInv /\ ClosedIsIdle /\ TransmitterArmed

-----------------------------------------------------------------------------
(* Positions in the ring: those at a distance of less than Size from a     *)
(* slot are different slots.                                               *)
LEMMA FirstSlot == 0 \in Slots /\ Slots \subseteq Nat
  BY TxAssumption DEF Slots

LEMMA Position ==
    ASSUME NEW p \in Slots, NEW i \in 0..Size
    PROVE  /\ (p + i) % Size = IF p + i < Size THEN p + i ELSE p + i - Size
           /\ (p + i) % Size \in Slots
  BY TxAssumption DEF Slots

LEMMA Distance ==
    ASSUME NEW p \in Slots, NEW s \in Slots
    PROVE  (s + Size - p) % Size = IF s >= p THEN s - p ELSE s + Size - p
  BY TxAssumption DEF Slots

LEMMA DistanceOfPosition ==
    ASSUME NEW p \in Slots, NEW i \in 0..(Size - 1)
    PROVE  (((p + i) % Size) + Size - p) % Size = i
  <1>1. /\ (p + i) % Size = IF p + i < Size THEN p + i ELSE p + i - Size
        /\ (p + i) % Size \in Slots
    BY TxAssumption, Position, i \in 0..Size
  <1>2. (((p + i) % Size) + Size - p) % Size =
            IF (p + i) % Size >= p THEN ((p + i) % Size) - p ELSE ((p + i) % Size) + Size - p
    BY <1>1, Distance
  <1> QED
    BY <1>1, <1>2, TxAssumption DEF Slots

(* Two steps along the ring are one. *)
LEMMA PositionAdds ==
    ASSUME NEW p \in Slots, NEW i \in 0..Size, NEW j \in 0..Size, i + j <= Size
    PROVE  (((p + i) % Size) + j) % Size = (p + (i + j)) % Size
  <1>1. /\ (p + i) % Size = IF p + i < Size THEN p + i ELSE p + i - Size
        /\ (p + i) % Size \in Slots
    BY Position
  <1>2. (((p + i) % Size) + j) % Size =
            IF ((p + i) % Size) + j < Size THEN ((p + i) % Size) + j ELSE ((p + i) % Size) + j - Size
    BY <1>1, Position
  <1>3. (p + (i + j)) % Size = IF p + (i + j) < Size THEN p + (i + j) ELSE p + (i + j) - Size
    BY Position, i + j \in 0..Size
  <1> QED
    BY <1>1, <1>2, <1>3, TxAssumption DEF Slots

-----------------------------------------------------------------------------
LEMMA InitInv == Init => IInv
<1> SUFFICES ASSUME Init PROVE IInv
  OBVIOUS
<1> USE TxAssumption, FirstSlot DEF Init
<1>1. TypeOK
  <2>1. buf \in [Slots -> Nat]
    OBVIOUS
  <2>2. /\ pc \in [Writers -> PCs] /\ nbyte \in [Writers -> 0..MaxWrite]
        /\ block \in [Writers -> 0..Size] /\ pos \in [Writers -> Slots]
    BY DEF PCs
  <2>3. /\ head \in Slots /\ tail \in Slots /\ npend \in 0..Size /\ accepted \in Nat
        /\ masks \in 0..MaxMasks /\ holder \in SUBSET Writers
    OBVIOUS
  <2>4. /\ ier_tx \in BOOLEAN /\ out_event \in BOOLEAN /\ opened \in BOOLEAN
        /\ torn \in BOOLEAN /\ masked \in BOOLEAN
    OBVIOUS
  <2> HIDE DEF Init
  <2> QED
    BY <2>1, <2>2, <2>3, <2>4, Zenon DEF TypeOK
<1>2. Locked /\ BlockFits /\ CopiedFollows /\ ClosedIsIdle
  BY DEF Locked, BlockFits, CopiedFollows, ClosedIsIdle
<1>3. RingHoldsStream /\ TransmitterArmed
  BY DEF RingHoldsStream, TransmitterArmed
<1> QED
  BY <1>1, <1>2, <1>3 DEF IInv, StreamInv

(* Every step keeps the types.  That npend + block does not exceed the     *)
(* ring at the commit is what BlockFits is for.                            *)
LEMMA TypeStep ==
    ASSUME TypeOK, Locked, BlockFits, Next
    PROVE  TypeOK'
<1> USE TxAssumption, FirstSlot DEF TypeOK, PCs, ring, writer, hist, Leave
<1>1. CASE Open
  BY <1>1 DEF Open
<1>2. CASE Close
  <2>1. buf' \in [Slots -> Nat]
    BY <1>2 DEF Close
  <2>2. 0 \in 0..Size /\ 0 \in 0..MaxMasks
    OBVIOUS
  <2> QED
    BY <1>2, <2>1, <2>2 DEF Close
<1>3. ASSUME NEW w \in Writers, NEW n \in 1..MaxWrite, Write(w, n)
      PROVE  TypeOK'
  BY <1>3 DEF Write
<1>4. ASSUME NEW w \in Writers, Lock(w)
      PROVE  TypeOK'
  BY <1>4 DEF Lock
<1>5. ASSUME NEW w \in Writers, Top(w)
      PROVE  TypeOK'
  BY <1>5 DEF Top, Lesser
<1>6. ASSUME NEW w \in Writers, Copy(w)
      PROVE  TypeOK'
  <2>1. buf' \in [Slots -> Nat]
    <3>1. ASSUME NEW s \in Slots
          PROVE  (s + Size - pos[w]) % Size \in Nat
      BY Distance DEF Slots
    <3> QED
      BY <1>6, <3>1 DEF Copy
  <2> QED
    BY <1>6, <2>1 DEF Copy
<1>7. ASSUME NEW w \in Writers, Commit(w)
      PROVE  TypeOK'
  <2>1. block[w] \in 1..nbyte[w] /\ npend + block[w] <= Size
    BY <1>7 DEF Commit, BlockFits
  <2>2. (tail + block[w]) % Size \in Slots
    BY Position
  <2>3. tail' \in Slots /\ npend' \in 0..Size /\ accepted' \in Nat
    BY <1>7, <2>1, <2>2 DEF Commit
  <2>4. nbyte' \in [Writers -> 0..MaxWrite]
    BY <1>7, <2>1 DEF Commit
  <2>5. /\ pc' \in [Writers -> PCs]
        /\ block' \in [Writers -> 0..Size] /\ pos' \in [Writers -> Slots]
    BY <1>7 DEF Commit
  <2>6. UNCHANGED <<opened, head, buf, out_event, holder, torn, masks>> /\ ier_tx' /\ ~masked'
    BY <1>7 DEF Commit
  <2>7. ier_tx' \in BOOLEAN /\ masked' \in BOOLEAN
    BY <1>7 DEF Commit
  <2> QED
    BY <2>3, <2>4, <2>5, <2>6, <2>7
<1>8. ASSUME NEW w \in Writers, Woken(w)
      PROVE  TypeOK'
  BY <1>8 DEF Woken
<1>9. ASSUME NEW w \in Writers, LockFails(w) \/ CopyFault(w) \/ WaitFails(w)
      PROVE  TypeOK'
  BY <1>9 DEF LockFails, CopyFault, WaitFails
<1>10. ASSUME NEW thre \in BOOLEAN, Interrupt(thre)
       PROVE  TypeOK'
  <2>1. PICK sent \in 0..npend : head' = (head + sent) % Size /\ npend' = npend - sent
    BY <1>10 DEF Interrupt, Lesser
  <2>2. (head + sent) % Size \in Slots
    BY Position
  <2>3. ier_tx' \in BOOLEAN /\ out_event' \in BOOLEAN
    BY <1>10 DEF Interrupt
  <2> QED
    BY <1>10, <2>1, <2>2, <2>3 DEF Interrupt
<1>11. CASE Purge
  BY <1>11 DEF Purge, Copying
<1>12. ASSUME NEW modem \in BOOLEAN, SetEventMask(modem)
       PROVE  TypeOK'
  BY <1>12 DEF SetEventMask
<1> QED
  BY <1>1, <1>2, <1>3, <1>4, <1>5, <1>6, <1>7, <1>8, <1>9, <1>10, <1>11, <1>12
     DEF Next, Run

(* Every step keeps the lock's holder and what a writer relies on between  *)
(* its locked sections.                                                    *)
LEMMA WriterStep ==
    ASSUME TypeOK, Locked, BlockFits, ClosedIsIdle, Next
    PROVE  Locked' /\ BlockFits' /\ ClosedIsIdle'
<1> DEFINE G == Locked' /\ BlockFits' /\ ClosedIsIdle'
<1> USE TxAssumption, FirstSlot DEF TypeOK, PCs, ring, writer, hist, Leave, Locked,
    BlockFits, ClosedIsIdle
<1>1. CASE Open
  BY <1>1 DEF Open
<1>2. CASE Close
  BY <1>2 DEF Close
<1>3. ASSUME NEW w \in Writers, NEW n \in 1..MaxWrite, Write(w, n)
      PROVE  G
  BY <1>3 DEF Write
<1>4. ASSUME NEW w \in Writers, Lock(w)
      PROVE  G
  BY <1>4 DEF Lock
<1>5. ASSUME NEW w \in Writers, Top(w)
      PROVE  G
  BY <1>5 DEF Top, Lesser
<1>6. ASSUME NEW w \in Writers, Copy(w)
      PROVE  G
  BY <1>6 DEF Copy
<1>7. ASSUME NEW w \in Writers, Commit(w)
      PROVE  G
  BY <1>7 DEF Commit
<1>8. ASSUME NEW w \in Writers, Woken(w)
      PROVE  G
  BY <1>8 DEF Woken
<1>9. ASSUME NEW w \in Writers, LockFails(w) \/ CopyFault(w) \/ WaitFails(w)
      PROVE  G
  BY <1>9 DEF LockFails, CopyFault, WaitFails
<1>10. ASSUME NEW thre \in BOOLEAN, Interrupt(thre)
       PROVE  G
  BY <1>10 DEF Interrupt, Lesser
<1>11. CASE Purge
  BY <1>11 DEF Purge, Copying
<1>12. ASSUME NEW modem \in BOOLEAN, SetEventMask(modem)
       PROVE  G
  BY <1>12 DEF SetEventMask
<1> QED
  BY <1>1, <1>2, <1>3, <1>4, <1>5, <1>6, <1>7, <1>8, <1>9, <1>10, <1>11, <1>12
     DEF Next, Run

-----------------------------------------------------------------------------
(* Every step keeps the stream in the ring.  The copy writes behind it,    *)
(* the commit moves its end over what was copied, and the interrupt        *)
(* handler moves its start.                                                *)
LEMMA StreamStep ==
    ASSUME StreamInv, Next
    PROVE  CopiedFollows' /\ RingHoldsStream'
<1> DEFINE G == CopiedFollows' /\ RingHoldsStream'
<1> USE TxAssumption, FirstSlot DEF StreamInv, ring, writer, hist
<1>1. CASE Open
  BY <1>1 DEF Open, CopiedFollows, RingHoldsStream
<1>2. CASE Close
  BY <1>2 DEF Close, CopiedFollows, RingHoldsStream
<1>3. ASSUME NEW w \in Writers, NEW n \in 1..MaxWrite, Write(w, n)
      PROVE  G
  BY <1>3 DEF Write, CopiedFollows, RingHoldsStream, TypeOK
<1>4. ASSUME NEW w \in Writers, Lock(w)
      PROVE  G
  BY <1>4 DEF Lock, CopiedFollows, RingHoldsStream, TypeOK
<1>5. ASSUME NEW w \in Writers, Top(w)
      PROVE  G
  BY <1>5 DEF Top, Leave, CopiedFollows, RingHoldsStream, TypeOK
<1>6. ASSUME NEW w \in Writers, Copy(w)
      PROVE  G
  <2>1. UNCHANGED <<head, tail, npend, block, accepted, torn>>
    BY <1>6 DEF Copy
  <2>2. /\ npend \in 0..Size /\ block[w] \in 1..Size /\ npend + block[w] <= Size
        /\ head \in Slots /\ tail \in Slots /\ tail = (head + npend) % Size
        /\ accepted \in Nat
    BY <1>6 DEF Copy, BlockFits, TypeOK, RingHoldsStream
  <2>3. ASSUME ~torn
        PROVE  buf' = [s \in Slots |-> IF (s + Size - tail) % Size < block[w]
                                       THEN accepted + ((s + Size - tail) % Size) + 1
                                       ELSE buf[s]]
    BY <1>6, <2>3 DEF Copy, BlockFits
  <2>4. ASSUME ~torn, NEW i \in 0..(npend - 1)
        PROVE  buf'[(head + i) % Size] = buf[(head + i) % Size]
    <3>1. (head + i) % Size \in Slots
      BY <2>2, Position
    <3>2. (head + i) % Size = IF head + i < Size THEN head + i ELSE head + i - Size
      BY <2>2, Position, i \in 0..Size
    <3>3. tail = IF head + npend < Size THEN head + npend ELSE head + npend - Size
      BY <2>2, Position
    <3>4. (((head + i) % Size) + Size - tail) % Size =
              IF (head + i) % Size >= tail THEN ((head + i) % Size) - tail
                                           ELSE ((head + i) % Size) + Size - tail
      BY <2>2, <3>1, Distance
    <3>5. (((head + i) % Size) + Size - tail) % Size >= block[w]
      BY <2>2, <3>2, <3>3, <3>4 DEF Slots
    <3> QED
      BY <2>2, <2>3, <2>4, <3>1, <3>5
  <2>5. ASSUME ~torn, NEW i \in 0..(block[w] - 1)
        PROVE  buf'[(tail + i) % Size] = accepted + i + 1
    <3>1. (tail + i) % Size \in Slots
      BY <2>2, Position
    <3>2. (((tail + i) % Size) + Size - tail) % Size = i
      BY <2>2, DistanceOfPosition, i \in 0..(Size - 1)
    <3>3. buf'[(tail + i) % Size] = accepted + ((((tail + i) % Size) + Size - tail) % Size) + 1
      BY <2>2, <2>3, <2>5, <3>1, <3>2
    <3> QED
      BY <3>2, <3>3
  <2>6. \A v \in Writers : pc'[v] = "commit" => v = w
    BY <1>6 DEF Copy, Locked, TypeOK
  <2>7. CopiedFollows'
    BY <2>1, <2>5, <2>6 DEF CopiedFollows
  <2>8. RingHoldsStream'
    BY <2>1, <2>4 DEF RingHoldsStream
  <2> QED
    BY <2>7, <2>8
<1>7. ASSUME NEW w \in Writers, Commit(w)
      PROVE  G
  <2>1. /\ npend \in 0..Size /\ block[w] \in 1..Size /\ npend + block[w] <= Size
        /\ head \in Slots /\ tail \in Slots /\ tail = (head + npend) % Size
        /\ accepted \in Nat
    BY <1>7 DEF Commit, BlockFits, TypeOK, RingHoldsStream
  <2>2. /\ UNCHANGED <<head, buf, torn>> /\ tail' = (tail + block[w]) % Size
        /\ npend' = npend + block[w] /\ accepted' = accepted + block[w]
    BY <1>7 DEF Commit
  <2>3. tail' = (head' + npend') % Size
    <3>1. (((head + npend) % Size) + block[w]) % Size = (head + (npend + block[w])) % Size
      BY <2>1, PositionAdds, block[w] \in 0..Size
    <3> QED
      BY <2>1, <2>2, <3>1
  <2>4. ASSUME ~torn, NEW i \in 0..(npend + block[w] - 1)
        PROVE  buf[(head + i) % Size] = accepted - npend + i + 1
    <3>1. CASE i < npend
      BY <2>1, <2>4, <3>1, i \in 0..(npend - 1) DEF RingHoldsStream
    <3>2. CASE i >= npend
      <4>1. PICK j \in 0..(block[w] - 1) : i = npend + j
        BY <2>1, <2>4, <3>2, i - npend \in 0..(block[w] - 1)
      <4>2. (tail + j) % Size = (head + i) % Size
        <5>1. (((head + npend) % Size) + j) % Size = (head + (npend + j)) % Size
          BY <2>1, PositionAdds, j \in 0..Size, npend + j <= Size
        <5> QED
          BY <2>1, <4>1, <5>1
      <4> QED
        BY <1>7, <2>1, <2>4, <4>1, <4>2 DEF Commit, CopiedFollows
    <3> QED
      BY <2>1, <2>4, <3>1, <3>2
  <2>5. RingHoldsStream'
    BY <2>1, <2>2, <2>3, <2>4 DEF RingHoldsStream
  <2>6. \A v \in Writers : pc'[v] # "commit"
    BY <1>7 DEF Commit, Locked, TypeOK
  <2>7. CopiedFollows'
    BY <2>6 DEF CopiedFollows
  <2> QED
    BY <2>5, <2>7
<1>8. ASSUME NEW w \in Writers, Woken(w)
      PROVE  G
  BY <1>8 DEF Woken, CopiedFollows, RingHoldsStream, TypeOK
<1>9. ASSUME NEW w \in Writers, LockFails(w) \/ CopyFault(w) \/ WaitFails(w)
      PROVE  G
  BY <1>9 DEF LockFails, CopyFault, WaitFails, Leave, CopiedFollows, RingHoldsStream, TypeOK
<1>10. ASSUME NEW thre \in BOOLEAN, Interrupt(thre)
       PROVE  G
  <2>1. PICK sent \in 0..npend : head' = (head + sent) % Size /\ npend' = npend - sent
    BY <1>10 DEF Interrupt, Lesser, TypeOK
  <2>2. /\ npend \in 0..Size /\ head \in Slots /\ accepted \in Nat
        /\ UNCHANGED <<tail, buf, accepted, torn, pc, block>>
    BY <1>10 DEF Interrupt, TypeOK
  <2>3. ASSUME NEW i \in 0..(npend - sent)
        PROVE  (head' + i) % Size = (head + (sent + i)) % Size
    <3>1. (((head + sent) % Size) + i) % Size = (head + (sent + i)) % Size
      BY <2>1, <2>2, PositionAdds, sent \in 0..Size, i \in 0..Size, sent + i <= Size
    <3> QED
      BY <2>1, <3>1
  <2>4. tail' = (head' + npend') % Size
    BY <2>1, <2>2, <2>3, sent + (npend - sent) = npend DEF RingHoldsStream
  <2>5. ASSUME ~torn, NEW i \in 0..(npend - sent - 1)
        PROVE  buf[(head' + i) % Size] = accepted - (npend - sent) + i + 1
    <3>1. sent + i \in 0..(npend - 1) /\ i \in 0..(npend - sent)
      BY <2>1, <2>2
    <3>2. (head' + i) % Size = (head + (sent + i)) % Size
      BY <2>3, <3>1
    <3>3. buf[(head + (sent + i)) % Size] = accepted - npend + (sent + i) + 1
      BY <2>5, <3>1 DEF RingHoldsStream
    <3> QED
      BY <2>1, <2>2, <3>2, <3>3
  <2> QED
    BY <2>1, <2>2, <2>4, <2>5 DEF RingHoldsStream, CopiedFollows
<1>11. CASE Purge
  BY <1>11 DEF Purge, Copying, CopiedFollows, RingHoldsStream
<1>12. ASSUME NEW modem \in BOOLEAN, SetEventMask(modem)
       PROVE  G
  BY <1>12 DEF SetEventMask, CopiedFollows, RingHoldsStream
<1> QED
  BY <1>1, <1>2, <1>3, <1>4, <1>5, <1>6, <1>7, <1>8, <1>9, <1>10, <1>11, <1>12
     DEF Next, Run

-----------------------------------------------------------------------------
(* Every step keeps the transmitter armed.  A signal is consumed only by   *)
(* the holder of out_lock, so it leaves no other writer asleep; a write    *)
(* goes to sleep only on a full ring.                                      *)
LEMMA ArmedStep ==
    ASSUME TypeOK, Locked, TransmitterArmed, Next
    PROVE  TransmitterArmed'
<1> USE TxAssumption DEF TypeOK, TransmitterArmed, ring, writer, hist
<1>1. CASE Open
  BY <1>1 DEF Open
<1>2. CASE Close
  BY <1>2 DEF Close
<1>3. ASSUME NEW w \in Writers, NEW n \in 1..MaxWrite, Write(w, n)
      PROVE  TransmitterArmed'
  BY <1>3 DEF Write
<1>4. ASSUME NEW w \in Writers, Lock(w)
      PROVE  TransmitterArmed'
  BY <1>4 DEF Lock
<1>5. ASSUME NEW w \in Writers, Top(w)
      PROVE  TransmitterArmed'
  BY <1>5 DEF Top, Leave
<1>6. ASSUME NEW w \in Writers, Copy(w)
      PROVE  TransmitterArmed'
  BY <1>6 DEF Copy
<1>7. ASSUME NEW w \in Writers, Commit(w)
      PROVE  TransmitterArmed'
  BY <1>7 DEF Commit
<1>8. ASSUME NEW w \in Writers, Woken(w)
      PROVE  TransmitterArmed'
  BY <1>8 DEF Woken, Locked
<1>9. ASSUME NEW w \in Writers, LockFails(w) \/ CopyFault(w) \/ WaitFails(w)
      PROVE  TransmitterArmed'
  BY <1>9 DEF LockFails, CopyFault, WaitFails, Leave
<1>10. ASSUME NEW thre \in BOOLEAN, Interrupt(thre)
       PROVE  TransmitterArmed'
  BY <1>10 DEF Interrupt, Lesser
<1>11. CASE Purge
  BY <1>11 DEF Purge
<1>12. ASSUME NEW modem \in BOOLEAN, SetEventMask(modem)
       PROVE  TransmitterArmed'
  BY <1>12 DEF SetEventMask
<1> QED
  BY <1>1, <1>2, <1>3, <1>4, <1>5, <1>6, <1>7, <1>8, <1>9, <1>10, <1>11, <1>12
     DEF Next, Run

(* The invariant is inductive. *)
LEMMA NextInv == IInv /\ [Next]_vars => IInv'
<1> SUFFICES ASSUME IInv, [Next]_vars PROVE IInv'
  OBVIOUS
<1>1. CASE Next
  BY <1>1, TypeStep, WriterStep, StreamStep, ArmedStep DEF IInv, StreamInv
<1>2. CASE UNCHANGED vars
  BY <1>2 DEF vars, ring, writer, hist, IInv, StreamInv, TypeOK, Locked, BlockFits,
     CopiedFollows, ClosedIsIdle, RingHoldsStream, TransmitterArmed
<1> QED
  BY <1>1, <1>2

LEMMA Invariant == Spec => []IInv
  BY InitInv, NextInv, PTL DEF Spec

-----------------------------------------------------------------------------
(* The types: out_head and out_tail stay inside out_buf and out_npend does *)
(* not exceed its size, whatever writers, interrupts and purges do.        *)
THEOREM TypeCorrect == Spec => []TypeOK
<1>1. IInv => TypeOK
  BY DEF IInv, StreamInv
<1> QED
  BY <1>1, Invariant, PTL

(* The ring holds the byte stream of the writes, for any number of writers *)
(* and any sizes of ring, FIFO and write, although the copy into out_buf   *)
(* is made without the lock; a purge during that copy is the exception.    *)
THEOREM StreamInOrder == Spec => []RingHoldsStream
<1>1. IInv => RingHoldsStream
  BY DEF IInv, StreamInv
<1> QED
  BY <1>1, Invariant, PTL

(* Bytes in the ring, and a writer that sleeps unsignalled, always have    *)
(* the transmitter interrupt to count on, unless set_config masked it.     *)
THEOREM Armed == Spec => []TransmitterArmed
<1>1. IInv => TransmitterArmed
  BY DEF IInv
<1> QED
  BY <1>1, Invariant, PTL

(* A write's block still fits when it is committed: between the two locked *)
(* sections of rt_16550_write nobody takes the room it found.              *)
THEOREM RoomStays == Spec => []BlockFits
<1>1. IInv => BlockFits
  BY DEF IInv, StreamInv
<1> QED
  BY <1>1, Invariant, PTL
=============================================================================
