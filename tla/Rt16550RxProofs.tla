--------------------------- MODULE Rt16550RxProofs ---------------------------
(***************************************************************************)
(* Proofs about module Rt16550Rx, for any size of ring and any sequence of *)
(* characters, errors, reads and ioctls: reads return the input in order,  *)
(* and neither a reader nor a task in WAIT_EVENT sleeps over what it waits *)
(* for.                                                                    *)
(***************************************************************************)
EXTENDS Rt16550Rx, TLAPS

-----------------------------------------------------------------------------
(* The parts of the inductive invariant.  The block a read chose fits what *)
(* it was asked for and, unless the ring was overrun or purged since, lies *)
(* at in_head; in_npend can wrap only by the commit.                       *)
BlockTaken ==
    rpc \in {"copy", "commit"} =>
        block <= nbyte /\ npend >= 0 /\ (~dirty => pos = head /\ block <= npend)

(* An unsignalled reader waits for no more than it was asked for. *)
WaitBounded == rpc = "wait" /\ ~in_event => nwait <= nbyte

(* The types, in three parts: the ring, the read under way, and the rest. *)
RingType ==
    /\ head \in Slots /\ tail \in Slots /\ npend \in (-Size)..Size
    /\ buf \in [Slots -> Nat] /\ in_history \in [Slots -> Nat] \cup {NULL}
    /\ received \in 0..MaxChars /\ purges \in 0..MaxPurges
ReadType ==
    /\ nwait \in 0..MaxRead /\ rpc \in ReadPCs /\ nbyte \in 0..MaxRead
    /\ block \in 0..Size /\ pos \in Slots /\ took \in [0..(block - 1) -> Nat]
FlagType ==
    /\ status \in SUBSET Errors /\ saved \in SUBSET Errors
    /\ mask \in Masks /\ ioc_events \in SUBSET Events /\ wpc \in WaitPCs
    /\ opened \in BOOLEAN /\ in_event \in BOOLEAN /\ ier_stat \in BOOLEAN
    /\ ioc_event \in BOOLEAN /\ nonblocking \in BOOLEAN
    /\ dirty \in BOOLEAN /\ remasked \in BOOLEAN

RingInv == TypeOK /\ BlockTaken /\ RingHoldsInput
IInv == RingInv /\ WaitBounded /\ ReaderNotStranded /\ EventNotMissed

-----------------------------------------------------------------------------
(* Positions in the ring: those at a distance of less than Size from a     *)
(* slot are different slots.                                               *)
LEMMA FirstSlot == 0 \in Slots /\ Slots \subseteq Nat
  BY RxAssumption DEF Slots

LEMMA Position ==
    ASSUME NEW p \in Slots, NEW i \in 0..Size
    PROVE  /\ (p + i) % Size = IF p + i < Size THEN p + i ELSE p + i - Size
           /\ (p + i) % Size \in Slots
  BY RxAssumption DEF Slots

LEMMA Distance ==
    ASSUME NEW p \in Slots, NEW s \in Slots
    PROVE  (s + Size - p) % Size = IF s >= p THEN s - p ELSE s + Size - p
  BY RxAssumption DEF Slots

LEMMA DistanceOfPosition ==
    ASSUME NEW p \in Slots, NEW i \in 0..(Size - 1)
    PROVE  (((p + i) % Size) + Size - p) % Size = i
  <1>1. /\ (p + i) % Size = IF p + i < Size THEN p + i ELSE p + i - Size
        /\ (p + i) % Size \in Slots
    BY RxAssumption, Position, i \in 0..Size
  <1>2. (((p + i) % Size) + Size - p) % Size =
            IF (p + i) % Size >= p THEN ((p + i) % Size) - p ELSE ((p + i) % Size) + Size - p
    BY <1>1, Distance
  <1> QED
    BY <1>1, <1>2, RxAssumption DEF Slots

(* Two steps along the ring are one. *)
LEMMA PositionAdds ==
    ASSUME NEW p \in Slots, NEW i \in 0..Size, NEW j \in 0..Size, i + j <= Size
    PROVE  (((p + i) % Size) + j) % Size = (p + (i + j)) % Size
  <1>1. /\ (p + i) % Size = IF p + i < Size THEN p + i ELSE p + i - Size
        /\ (p + i) % Size \in Slots
    BY Position
  <1>2. (((p + i) % Size) + j) % Size =
            IF ((p + i) % Size) + j < Size THEN ((p + i) % Size) + j ELSE ((p + i) % Size) + j - Size
    BY <1>1, Position
  <1>3. (p + (i + j)) % Size = IF p + (i + j) < Size THEN p + (i + j) ELSE p + (i + j) - Size
    BY Position, i + j \in 0..Size
  <1> QED
    BY <1>1, <1>2, <1>3, RxAssumption DEF Slots

-----------------------------------------------------------------------------
LEMMA InitInv == Init => IInv
<1> SUFFICES ASSUME Init PROVE IInv
  OBVIOUS
<1> USE RxAssumption, FirstSlot DEF Init
<1>1. TypeOK
  <2>1. /\ head \in Slots /\ tail \in Slots /\ npend \in (-Size)..Size /\ nwait \in 0..MaxRead
        /\ nbyte \in 0..MaxRead /\ block \in 0..Size /\ pos \in Slots
        /\ received \in 0..MaxChars /\ purges \in 0..MaxPurges
    OBVIOUS
  <2>2. buf \in [Slots -> Nat] /\ in_history \in [Slots -> Nat] \cup {NULL}
    BY DEF Fresh
  <2>3. took \in [0..(block - 1) -> Nat]
    OBVIOUS
  <2>4. /\ status \in SUBSET Errors /\ saved \in SUBSET Errors /\ mask \in Masks
        /\ ioc_events \in SUBSET Events /\ rpc \in ReadPCs /\ wpc \in WaitPCs
    BY DEF ReadPCs, WaitPCs
  <2>5. /\ opened \in BOOLEAN /\ in_event \in BOOLEAN /\ ier_stat \in BOOLEAN
        /\ ioc_event \in BOOLEAN /\ nonblocking \in BOOLEAN /\ dirty \in BOOLEAN
        /\ remasked \in BOOLEAN
    OBVIOUS
  <2> HIDE DEF Init
  <2> QED
    BY <2>1, <2>2, <2>3, <2>4, <2>5, Zenon DEF TypeOK
<1>2. BlockTaken /\ WaitBounded /\ ReaderNotStranded /\ EventNotMissed
  BY DEF BlockTaken, WaitBounded, ReaderNotStranded, EventNotMissed
<1>3. RingHoldsInput
  BY DEF RingHoldsInput
<1> QED
  BY <1>1, <1>2, <1>3 DEF IInv, RingInv

(* Every step keeps what a sleeping reader relies on.  The handler either  *)
(* signals it or lowers in_nwait by what it adds to the ring; an overrun   *)
(* is an error and signals it.                                             *)
LEMMA WaitStep ==
    ASSUME TypeOK, RingHoldsInput, WaitBounded, ReaderNotStranded, Next
    PROVE  WaitBounded' /\ ReaderNotStranded'
<1> USE RxAssumption DEF TypeOK, WaitBounded, ReaderNotStranded, ring, irq, events, reader, hist
<1>1. ASSUME NEW m \in Masks, Open(m)
      PROVE  WaitBounded' /\ ReaderNotStranded'
  BY <1>1 DEF Open
<1>2. CASE Close
  BY <1>2 DEF Close
<1>3. ASSUME NEW n \in 0..MaxBurst, NEW E \in SUBSET LineErrors, Interrupt(n, E)
      PROVE  WaitBounded' /\ ReaderNotStranded'
  BY <1>3 DEF Interrupt, Receive, Overrun, WakeReader, RaiseEvents, Lesser
<1>4. ASSUME NEW n \in 1..MaxRead, NEW nb \in BOOLEAN, Read(n, nb)
      PROVE  WaitBounded' /\ ReaderNotStranded'
  BY <1>4 DEF Read
<1>5. CASE ReadTop
  BY <1>5 DEF ReadTop, ReadReturn, ReadError, ReadTake, ReadBlock, Lesser
<1>6. CASE ReadCopy
  BY <1>6 DEF ReadCopy
<1>7. CASE ReadFault
  BY <1>7 DEF ReadFault, ReadReturn
<1>8. CASE ReadCommit
  BY <1>8 DEF ReadCommit
<1>9. CASE ReadWoken
  BY <1>9 DEF ReadWoken
<1>10. CASE ReadWaitFails
  BY <1>10 DEF ReadWaitFails
<1>11. CASE ReadLastTurn
  BY <1>11 DEF ReadLastTurn
<1>12. CASE ReadGiveUp
  BY <1>12 DEF ReadGiveUp, ReadReturn
<1>13. CASE WaitEvent
  BY <1>13 DEF WaitEvent
<1>14. CASE WaitCheck
  BY <1>14 DEF WaitCheck
<1>15. CASE WaitWoken
  BY <1>15 DEF WaitWoken
<1>16. CASE WaitFails
  BY <1>16 DEF WaitFails
<1>17. CASE GetStatus
  BY <1>17 DEF GetStatus
<1>18. CASE SetLine
  BY <1>18 DEF SetLine
<1>19. CASE Purge
  BY <1>19 DEF Purge
<1>20. ASSUME NEW on \in BOOLEAN, SetHistory(on)
      PROVE  WaitBounded' /\ ReaderNotStranded'
  BY <1>20 DEF SetHistory, Swapped
<1>21. ASSUME NEW m \in Masks, SetEventMask(m)
      PROVE  WaitBounded' /\ ReaderNotStranded'
  BY <1>21 DEF SetEventMask
<1> QED
  BY <1>1, <1>2, <1>3, <1>4, <1>5, <1>6, <1>7, <1>8, <1>9, <1>10, <1>11, <1>12,
     <1>13, <1>14, <1>15, <1>16, <1>17, <1>18, <1>19, <1>20, <1>21
     DEF Next

(* Every step keeps the events of a sleeping WAIT_EVENT signalled. *)
LEMMA EventStep ==
    ASSUME TypeOK, EventNotMissed, Next
    PROVE  EventNotMissed'
<1> USE DEF TypeOK, EventNotMissed, ring, irq, events, reader, hist
<1>1. ASSUME NEW m \in Masks, Open(m)
      PROVE  EventNotMissed'
  BY <1>1 DEF Open
<1>2. CASE Close
  BY <1>2 DEF Close
<1>3. ASSUME NEW n \in 0..MaxBurst, NEW E \in SUBSET LineErrors, Interrupt(n, E)
      PROVE  EventNotMissed'
  BY <1>3 DEF Interrupt, Receive, Overrun, WakeReader, RaiseEvents, Lesser
<1>4. ASSUME NEW n \in 1..MaxRead, NEW nb \in BOOLEAN, Read(n, nb)
      PROVE  EventNotMissed'
  BY <1>4 DEF Read
<1>5. CASE ReadTop
  BY <1>5 DEF ReadTop, ReadReturn, ReadError, ReadTake, ReadBlock, Lesser
<1>6. CASE ReadCopy
  BY <1>6 DEF ReadCopy
<1>7. CASE ReadFault
  BY <1>7 DEF ReadFault, ReadReturn
<1>8. CASE ReadCommit
  BY <1>8 DEF ReadCommit
<1>9. CASE ReadWoken
  BY <1>9 DEF ReadWoken
<1>10. CASE ReadWaitFails
  BY <1>10 DEF ReadWaitFails
<1>11. CASE ReadLastTurn
  BY <1>11 DEF ReadLastTurn
<1>12. CASE ReadGiveUp
  BY <1>12 DEF ReadGiveUp, ReadReturn
<1>13. CASE WaitEvent
  BY <1>13 DEF WaitEvent
<1>14. CASE WaitCheck
  BY <1>14 DEF WaitCheck
<1>15. CASE WaitWoken
  BY <1>15 DEF WaitWoken
<1>16. CASE WaitFails
  BY <1>16 DEF WaitFails
<1>17. CASE GetStatus
  BY <1>17 DEF GetStatus
<1>18. CASE SetLine
  BY <1>18 DEF SetLine
<1>19. CASE Purge
  BY <1>19 DEF Purge
<1>20. ASSUME NEW on \in BOOLEAN, SetHistory(on)
      PROVE  EventNotMissed'
  BY <1>20 DEF SetHistory, Swapped
<1>21. ASSUME NEW m \in Masks, SetEventMask(m)
      PROVE  EventNotMissed'
  BY <1>21 DEF SetEventMask
<1> QED
  BY <1>1, <1>2, <1>3, <1>4, <1>5, <1>6, <1>7, <1>8, <1>9, <1>10, <1>11, <1>12,
     <1>13, <1>14, <1>15, <1>16, <1>17, <1>18, <1>19, <1>20, <1>21
     DEF Next

-----------------------------------------------------------------------------
LEMMA TypeParts == TypeOK <=> RingType /\ ReadType /\ FlagType
  BY Zenon DEF TypeOK, RingType, ReadType, FlagType

(* Every step keeps the types. *)
LEMMA RingTypeStep ==
    ASSUME RingType, ReadType, BlockTaken, Next
    PROVE  RingType'
<1> USE RxAssumption, FirstSlot
<1> DEFINE kept == <<ring, received, purges>>
<1>1. CASE UNCHANGED kept
  BY <1>1 DEF RingType, ring
<1>2. CASE Close
  <2>1. buf' \in [Slots -> Nat] /\ in_history' = NULL
    BY <1>2 DEF Close, Fresh
  <2> QED
    BY <1>2, <2>1 DEF Close, RingType
<1>3. ASSUME NEW n \in 0..MaxBurst, NEW E \in SUBSET LineErrors, Interrupt(n, E)
      PROVE  RingType'
  <2>1. Receive(n) /\ received' = received + n /\ received + n <= MaxChars /\ UNCHANGED purges
    BY <1>3 DEF Interrupt
  <2>2. n \in 0..Size
    OBVIOUS
  <2>3. tail' \in Slots /\ npend' \in (-Size)..Size
    BY <2>1, <2>2, Position DEF Receive, RingType, Lesser
  <2>4. buf' \in [Slots -> Nat]
    <3>1. ASSUME NEW s \in Slots
          PROVE  (s + Size - tail) % Size \in Nat
      BY Distance DEF Slots, RingType
    <3> QED
      BY <2>1, <3>1 DEF Receive, RingType
  <2>5. in_history' \in [Slots -> Nat] \cup {NULL}
    BY <2>1, <2>4 DEF Receive, RingType
  <2> QED
    BY <2>1, <2>2, <2>3, <2>4, <2>5 DEF Receive, RingType
<1>4. CASE ReadCommit
  <2>1. (head + block) % Size \in Slots
    BY Position DEF RingType, ReadType
  <2>2. npend - block \in (-Size)..Size
    BY <1>4 DEF ReadCommit, RingType, ReadType, BlockTaken
  <2> QED
    BY <1>4, <2>1, <2>2 DEF ReadCommit, RingType, hist
<1>5. CASE Purge
  BY <1>5 DEF Purge, RingType
<1>6. ASSUME NEW on \in BOOLEAN, SetHistory(on)
      PROVE  RingType'
  <2>1. Fresh \in [Slots -> Nat]
    BY DEF Fresh
  <2> QED
    BY <1>6, <2>1 DEF SetHistory, Swapped, RingType, hist
<1> QED
  BY <1>1, <1>2, <1>3, <1>4, <1>5, <1>6
     DEF Next, Open, Read, ReadTop, ReadCopy, ReadFault, ReadWoken, ReadWaitFails, ReadLastTurn,
     ReadGiveUp, WaitEvent, WaitCheck, WaitWoken, WaitFails, GetStatus, SetLine, SetEventMask,
     hist

LEMMA ReadTypeStep ==
    ASSUME RingType, ReadType, BlockTaken, Next
    PROVE  ReadType'
<1> USE RxAssumption, FirstSlot
<1> DEFINE kept == <<nwait, rpc, nbyte, block, pos, took>>
<1>1. CASE UNCHANGED kept
  BY <1>1 DEF ReadType
<1>2. ASSUME ReadReturn, nwait' = nwait \/ nwait' = 0
      PROVE  ReadType'
  BY <1>2 DEF ReadReturn, ReadType, ReadPCs
<1>3. ASSUME UNCHANGED <<rpc, nbyte, block, pos, took>>, nwait' \in 0..nwait
      PROVE  ReadType'
  BY <1>3 DEF ReadType
<1>4. ASSUME UNCHANGED <<block, pos, took>>, nbyte' \in 0..MaxRead, rpc' \in ReadPCs,
             nwait' \in {nwait, nbyte}
      PROVE  ReadType'
  BY <1>4 DEF ReadType
<1>5. CASE Close
  BY <1>3, <1>5 DEF Close, reader, ReadType
<1>6. ASSUME NEW n \in 0..MaxBurst, NEW E \in SUBSET LineErrors, Interrupt(n, E)
      PROVE  ReadType'
  BY <1>3, <1>6 DEF Interrupt, WakeReader, reader, ReadType
<1>7. ASSUME NEW n \in 1..MaxRead, NEW nb \in BOOLEAN, Read(n, nb)
      PROVE  ReadType'
  BY <1>4, <1>7 DEF Read, ReadPCs
<1>8. CASE ReadTop
  <2>1. CASE ReadTake
    <3>1. Lesser(npend, nbyte) \in 0..Size
      BY <2>1 DEF ReadTake, Lesser, RingType, ReadType
    <3>2. took' \in [0..(block' - 1) -> Nat]
      BY <2>1 DEF ReadTake
    <3> QED
      BY <2>1, <3>1, <3>2 DEF ReadTake, RingType, ReadType, ReadPCs
  <2>2. CASE ReadBlock
    BY <1>2, <1>4, <2>2 DEF ReadBlock, ReadType, ReadPCs
  <2> QED
    BY <1>2, <1>8, <2>1, <2>2 DEF ReadTop, ReadError
<1>9. CASE ReadCopy
  <2>1. \A i \in 0..(block - 1) : (pos + i) % Size \in Slots
    BY Position DEF ReadType
  <2>2. took' \in [0..(block - 1) -> Nat]
    BY <1>9, <2>1 DEF ReadCopy, RingType
  <2> QED
    BY <1>9, <2>2 DEF ReadCopy, ReadType, ReadPCs
<1>10. CASE ReadFault \/ ReadGiveUp
  BY <1>2, <1>10 DEF ReadFault, ReadGiveUp
<1>11. CASE ReadCommit
  BY <1>11 DEF ReadCommit, ReadType, ReadPCs, BlockTaken
<1>12. CASE ReadWoken \/ ReadWaitFails \/ ReadLastTurn
  BY <1>4, <1>12 DEF ReadWoken, ReadWaitFails, ReadLastTurn, ReadType, ReadPCs
<1> QED
  BY <1>1, <1>5, <1>6, <1>7, <1>8, <1>9, <1>10, <1>11, <1>12
     DEF Next, Open, WaitEvent, WaitCheck, WaitWoken, WaitFails, GetStatus, SetLine, Purge,
     SetHistory, SetEventMask, reader

LEMMA FlagTypeStep ==
    ASSUME FlagType, Next
    PROVE  FlagType'
<1> USE RxAssumption DEF FlagType, ring, irq, events, reader, hist, WaitPCs, Errors, Events
<1>1. ASSUME NEW m \in Masks, Open(m)
      PROVE  FlagType'
  BY <1>1 DEF Open
<1>2. CASE Close
  BY <1>2 DEF Close
<1>3. ASSUME NEW n \in 0..MaxBurst, NEW E \in SUBSET LineErrors, Interrupt(n, E)
      PROVE  FlagType'
  BY <1>3 DEF Interrupt, Receive, Overrun, WakeReader, RaiseEvents
<1>4. ASSUME NEW n \in 1..MaxRead, NEW nb \in BOOLEAN, Read(n, nb)
      PROVE  FlagType'
  BY <1>4 DEF Read
<1>5. CASE ReadTop
  BY <1>5 DEF ReadTop, ReadReturn, ReadError, ReadTake, ReadBlock
<1>6. CASE ReadCopy
  BY <1>6 DEF ReadCopy
<1>7. CASE ReadFault
  BY <1>7 DEF ReadFault, ReadReturn
<1>8. CASE ReadCommit
  BY <1>8 DEF ReadCommit
<1>9. CASE ReadWoken
  BY <1>9 DEF ReadWoken
<1>10. CASE ReadWaitFails
  BY <1>10 DEF ReadWaitFails
<1>11. CASE ReadLastTurn
  BY <1>11 DEF ReadLastTurn
<1>12. CASE ReadGiveUp
  BY <1>12 DEF ReadGiveUp, ReadReturn
<1>13. CASE WaitEvent
  BY <1>13 DEF WaitEvent
<1>14. CASE WaitCheck
  BY <1>14 DEF WaitCheck
<1>15. CASE WaitWoken
  BY <1>15 DEF WaitWoken
<1>16. CASE WaitFails
  BY <1>16 DEF WaitFails
<1>17. CASE GetStatus
  BY <1>17 DEF GetStatus
<1>18. CASE SetLine
  BY <1>18 DEF SetLine
<1>19. CASE Purge
  BY <1>19 DEF Purge
<1>20. ASSUME NEW on \in BOOLEAN, SetHistory(on)
      PROVE  FlagType'
  BY <1>20 DEF SetHistory
<1>21. ASSUME NEW m \in Masks, SetEventMask(m)
      PROVE  FlagType'
  BY <1>21 DEF SetEventMask
<1> QED
  BY <1>1, <1>2, <1>3, <1>4, <1>5, <1>6, <1>7, <1>8, <1>9, <1>10, <1>11, <1>12,
     <1>13, <1>14, <1>15, <1>16, <1>17, <1>18, <1>19, <1>20, <1>21
     DEF Next

-----------------------------------------------------------------------------
(* Every step keeps the input in the ring, and in what a read copies out   *)
(* of it without the lock: characters are added behind it, and only the    *)
(* read itself takes some off its front.                                   *)
LEMMA RingStep ==
    ASSUME RingInv, Next
    PROVE  BlockTaken' /\ RingHoldsInput'
<1> DEFINE G == BlockTaken' /\ RingHoldsInput'
<1> USE RxAssumption, FirstSlot, TypeParts DEF RingInv
<1> DEFINE kept == <<ring, rpc, nbyte, block, pos, took, received, dirty>>
<1>1. CASE UNCHANGED kept
  BY <1>1 DEF BlockTaken, RingHoldsInput, ring
<1>2. ASSUME UNCHANGED <<ring, received, dirty>>, rpc' \notin {"copy", "commit"}
      PROVE  G
  BY <1>2 DEF BlockTaken, RingHoldsInput, ring
<1>3. CASE Close
  BY <1>3 DEF Close, reader, BlockTaken, RingHoldsInput
<1>4. ASSUME NEW n \in 0..MaxBurst, NEW E \in SUBSET LineErrors, Interrupt(n, E)
      PROVE  G
  <2>1. /\ UNCHANGED <<head, rpc, nbyte, block, pos, took>> /\ Receive(n)
        /\ received' = received + n /\ (dirty' <=> dirty \/ Overrun(n))
        /\ npend' = IF npend < -1 THEN npend ELSE Lesser(npend + n, Size)
    BY <1>4 DEF Interrupt, reader, Receive
  <2>2. n \in 0..Size /\ received \in Nat /\ head \in Slots /\ tail \in Slots
    BY DEF RingType
  <2>3. BlockTaken'
    <3>1. npend >= 0 => npend' >= npend /\ npend' \in 0..Size
      BY <2>1, <2>2 DEF Lesser, RingType
    <3>2. npend \in (-Size)..Size /\ block \in 0..Size
      BY DEF RingType, ReadType
    <3>3. ASSUME rpc' \in {"copy", "commit"}
          PROVE  /\ block <= nbyte /\ npend >= 0
                 /\ ~dirty' => pos = head /\ block <= npend
      BY <2>1, <3>3 DEF BlockTaken
    <3> QED
      BY <2>1, <3>1, <3>2, <3>3 DEF BlockTaken
  <2>4. ASSUME ~dirty'
        PROVE  /\ ~dirty /\ npend \in 0..Size /\ npend + n <= Size /\ npend' = npend + n
               /\ tail = (head + npend) % Size
    <3>1. ~dirty /\ ~Overrun(n)
      BY <2>1, <2>4
    <3>2. npend \in 0..Size /\ tail = (head + npend) % Size
      BY <3>1 DEF RingHoldsInput
    <3>3. npend + n <= Size
      BY <2>2, <3>1, <3>2 DEF Overrun
    <3> QED
      BY <2>1, <2>2, <3>1, <3>2, <3>3 DEF Lesser
  <2>5. ASSUME ~dirty'
        PROVE  tail' = (head' + npend') % Size
    <3>1. (((head + npend) % Size) + n) % Size = (head + (npend + n)) % Size
      BY <2>2, <2>4, <2>5, PositionAdds
    <3> QED
      BY <2>1, <2>2, <2>4, <2>5, <3>1 DEF Receive
  <2>6. ASSUME ~dirty', NEW i \in 0..(npend - 1)
        PROVE  /\ (head + i) % Size \in Slots
               /\ (((head + i) % Size) + Size - tail) % Size >= n
    <3>1. npend \in 0..Size /\ npend + n <= Size /\ tail = (head + npend) % Size
      BY <2>4, <2>6
    <3>2. /\ (head + i) % Size = IF head + i < Size THEN head + i ELSE head + i - Size
          /\ (head + i) % Size \in Slots
      BY <2>2, <3>1, Position, i \in 0..Size
    <3>3. tail = IF head + npend < Size THEN head + npend ELSE head + npend - Size
      BY <2>2, <3>1, Position
    <3>4. (((head + i) % Size) + Size - tail) % Size =
              IF (head + i) % Size >= tail THEN ((head + i) % Size) - tail
                                           ELSE ((head + i) % Size) + Size - tail
      BY <2>2, <3>2, Distance
    <3> QED
      BY <2>2, <3>1, <3>2, <3>3, <3>4 DEF Slots
  <2>7. ASSUME ~dirty', NEW i \in 0..(npend - 1)
        PROVE  /\ buf'[(head + i) % Size] = buf[(head + i) % Size]
               /\ in_history'[(head + i) % Size] \in {-1, in_history[(head + i) % Size]}
    <3> DEFINE s == (head + i) % Size
    <3>1. s \in Slots /\ ~((s + Size - tail) % Size < n)
      BY <2>2, <2>6, <2>7, Distance DEF Slots
    <3> HIDE DEF s
    <3>2. buf'[s] = buf[s]
      BY <2>1, <3>1 DEF Receive
    <3>3. in_history'[s] \in {-1, in_history[s]}
      BY <2>1, <3>1 DEF Receive, NULL
    <3> QED
      BY <3>2, <3>3 DEF s
  <2>8. ASSUME ~dirty', NEW i \in npend..(npend + n - 1)
        PROVE  /\ buf'[(head + i) % Size] = received + (i - npend) + 1
               /\ in_history'[(head + i) % Size] \in {-1, buf'[(head + i) % Size]}
    <3> DEFINE s == (head + i) % Size
               j == i - npend
    <3>1. npend \in 0..Size /\ npend + n <= Size /\ tail = (head + npend) % Size
      BY <2>4, <2>8
    <3>2. j \in 0..(n - 1) /\ j \in 0..(Size - 1) /\ j \in 0..Size /\ npend + j = i
      BY <2>2, <3>1
    <3>3. s \in Slots
      BY <2>2, <3>1, <3>2, Position, i \in 0..Size
    <3>4. (((head + npend) % Size) + j) % Size = s
      <4>1. (((head + npend) % Size) + j) % Size = (head + (npend + j)) % Size
        BY <2>2, <3>1, <3>2, PositionAdds, npend + j <= Size
      <4> QED
        BY <3>2, <4>1
    <3>5. (s + Size - tail) % Size = j
      BY <2>2, <3>1, <3>2, <3>4, DistanceOfPosition
    <3> HIDE DEF s, j
    <3>6. buf'[s] = received + j + 1
      BY <2>1, <3>2, <3>3, <3>5 DEF Receive
    <3>7. in_history'[s] \in {-1, buf'[s]}
      BY <2>1, <3>2, <3>3, <3>5 DEF Receive, NULL
    <3> QED
      BY <3>6, <3>7 DEF s, j
  <2>9. ASSUME ~dirty', NEW i \in 0..(npend' - 1)
        PROVE  /\ buf'[(head + i) % Size] = received' - npend' + i + 1
               /\ in_history'[(head + i) % Size] \in {-1, 0, buf'[(head + i) % Size]}
    <3>1. ~dirty /\ npend \in 0..Size /\ npend' = npend + n
      BY <2>4, <2>9
    <3>2. CASE i < npend
      <4>1. i \in 0..(npend - 1)
        BY <3>1, <3>2
      <4>2. /\ buf[(head + i) % Size] = received - npend + i + 1
            /\ in_history[(head + i) % Size] \in {-1, 0, buf[(head + i) % Size]}
        BY <3>1, <4>1 DEF RingHoldsInput
      <4> QED
        <5>1. /\ buf'[(head + i) % Size] = buf[(head + i) % Size]
              /\ in_history'[(head + i) % Size] \in {-1, in_history[(head + i) % Size]}
          BY <2>7, <2>9, <4>1
        <5>2. received' - npend' + i + 1 = received - npend + i + 1
          BY <2>1, <2>2, <3>1
        <5> QED
          BY <4>2, <5>1, <5>2
    <3>3. CASE i >= npend
      <4>1. i \in npend..(npend + n - 1)
        BY <2>2, <3>1, <3>3
      <4> QED
        <5>1. /\ buf'[(head + i) % Size] = received + (i - npend) + 1
              /\ in_history'[(head + i) % Size] \in {-1, buf'[(head + i) % Size]}
          BY <2>8, <2>9, <4>1
        <5>2. received' - npend' + i + 1 = received + (i - npend) + 1
          BY <2>1, <2>2, <3>1
        <5> QED
          BY <5>1, <5>2
    <3> QED
      BY <3>1, <3>2, <3>3
  <2>10. ASSUME ~dirty', rpc = "commit"
         PROVE  /\ block <= npend'
                /\ \A i \in 0..(block - 1) : took[i] = buf'[(head + i) % Size]
    <3>1. ~dirty /\ npend \in 0..Size /\ npend' = npend + n
      BY <2>4, <2>10
    <3>2. block <= npend /\ \A i \in 0..(block - 1) : took[i] = buf[(head + i) % Size]
      BY <2>10, <3>1 DEF RingHoldsInput
    <3>3. block \in 0..Size
      BY DEF ReadType
    <3>4. \A i \in 0..(block - 1) : i \in 0..(npend - 1)
      BY <3>1, <3>2, <3>3
    <3>5. \A i \in 0..(npend - 1) : buf'[(head + i) % Size] = buf[(head + i) % Size]
      BY <2>7, <2>10
    <3>6. block <= npend'
      BY <2>2, <3>1, <3>2, <3>3
    <3> QED
      BY <3>2, <3>4, <3>5, <3>6
  <2>11. ~dirty' => npend' \in 0..Size
    BY <2>2, <2>4
  <2>12. RingHoldsInput'
    BY <2>1, <2>5, <2>9, <2>10, <2>11 DEF RingHoldsInput
  <2> QED
    BY <2>3, <2>12
<1>5. CASE ReadTop
  <2>1. CASE ReadTake
    <3>1. UNCHANGED <<ring, received, dirty>>
      BY <1>5 DEF ReadTop
    <3> QED
      BY <2>1, <3>1 DEF ReadTake, Lesser, BlockTaken, RingHoldsInput, RingType, ReadType, ring
  <2> QED
    BY <1>2, <1>5, <2>1 DEF ReadTop, ReadReturn, ReadError, ReadBlock
<1>6. CASE ReadCopy
  BY <1>6 DEF ReadCopy, BlockTaken, RingHoldsInput, ring, hist
<1>7. CASE ReadCommit
  <2>1. /\ rpc = "commit" /\ rpc' = "top" /\ UNCHANGED <<tail, buf, in_history, received, dirty>>
        /\ head' = (head + block) % Size /\ npend' = npend - block
    BY <1>7 DEF ReadCommit, hist
  <2>2. ASSUME ~dirty
        PROVE  /\ npend \in 0..Size /\ block \in 0..npend /\ head \in Slots
               /\ tail = (head + npend) % Size /\ received \in Nat
    BY <2>1, <2>2 DEF RingHoldsInput, RingType, ReadType
  <2>3. ASSUME ~dirty, NEW i \in 0..(npend - block)
        PROVE  (head' + i) % Size = (head + (block + i)) % Size
    <3>1. /\ head \in Slots /\ block \in 0..Size /\ i \in 0..Size /\ block + i <= Size
      BY <2>2, <2>3
    <3>2. (((head + block) % Size) + i) % Size = (head + (block + i)) % Size
      BY <3>1, PositionAdds
    <3> QED
      BY <2>1, <3>2
  <2>4. ASSUME ~dirty
        PROVE  tail' = (head' + npend') % Size
    <3>1. npend - block \in 0..(npend - block) /\ block + (npend - block) = npend
      BY <2>2, <2>4
    <3>2. (head' + (npend - block)) % Size = (head + (block + (npend - block))) % Size
      BY <2>3, <2>4, <3>1
    <3> QED
      BY <2>1, <2>2, <2>4, <3>1, <3>2
  <2>5. ASSUME ~dirty, NEW i \in 0..(npend - block - 1)
        PROVE  /\ buf[(head' + i) % Size] = received - (npend - block) + i + 1
               /\ in_history[(head' + i) % Size] \in {-1, 0, buf[(head' + i) % Size]}
    <3>1. block + i \in 0..(npend - 1) /\ i \in 0..(npend - block)
      BY <2>2, <2>5
    <3>2. (head' + i) % Size = (head + (block + i)) % Size
      BY <2>3, <2>5, <3>1
    <3>3. LET s == (head + (block + i)) % Size
          IN  buf[s] = received - npend + (block + i) + 1 /\ in_history[s] \in {-1, 0, buf[s]}
      BY <2>5, <3>1 DEF RingHoldsInput
    <3> QED
      BY <2>2, <2>5, <3>2, <3>3
  <2>6. ~dirty => npend - block \in 0..Size
    BY <2>2
  <2> QED
    BY <2>1, <2>4, <2>5, <2>6 DEF RingHoldsInput, BlockTaken
<1>8. CASE Purge
  <2>1. /\ head' = 0 /\ tail' = 0 /\ npend' = 0 /\ UNCHANGED <<rpc, nbyte, block>>
        /\ dirty' <=> rpc \in {"copy", "commit"}
    BY <1>8 DEF Purge, reader
  <2> QED
    BY <2>1 DEF BlockTaken, RingHoldsInput
<1>9. ASSUME NEW on \in BOOLEAN, SetHistory(on)
      PROVE  G
  <2>1. /\ UNCHANGED <<head, tail, npend, buf, rpc, nbyte, block, pos, took, received, dirty>>
        /\ in_history' \in {NULL, Fresh, in_history}
    BY <1>9 DEF SetHistory, Swapped, reader, hist
  <2>2. ASSUME ~dirty, NEW i \in 0..(npend - 1)
        PROVE  in_history'[(head + i) % Size] \in {-1, 0, in_history[(head + i) % Size]}
    <3>1. (head + i) % Size \in Slots
      BY <2>2, Position, i \in 0..Size DEF RingType
    <3> QED
      BY <2>1, <3>1 DEF NULL, Fresh
  <2> QED
    BY <2>1, <2>2 DEF BlockTaken, RingHoldsInput
<1> QED
  BY <1>1, <1>2, <1>3, <1>4, <1>5, <1>6, <1>7, <1>8, <1>9
     DEF Next, Open, Read, ReadFault, ReadReturn, ReadWoken, ReadWaitFails, ReadLastTurn,
     ReadGiveUp, WaitEvent, WaitCheck, WaitWoken, WaitFails, GetStatus, SetLine, SetEventMask,
     hist, reader

(* The invariant is inductive. *)
LEMMA NextInv == IInv /\ [Next]_vars => IInv'
<1> SUFFICES ASSUME IInv, [Next]_vars PROVE IInv'
  OBVIOUS
<1>1. CASE Next
  <2>1. TypeOK'
    <3>1. RingType /\ ReadType /\ FlagType /\ BlockTaken
      BY TypeParts DEF IInv, RingInv
    <3>2. RingType' /\ ReadType' /\ FlagType'
      BY <1>1, <3>1, RingTypeStep, ReadTypeStep, FlagTypeStep
    <3> QED
      BY <3>2, Zenon DEF TypeOK, RingType, ReadType, FlagType
  <2> QED
    BY <1>1, <2>1, RingStep, WaitStep, EventStep DEF IInv, RingInv
<1>2. CASE UNCHANGED vars
  <2>1. UNCHANGED <<head, tail, npend, buf, in_history, opened, nwait, in_event, status, saved,
                    ier_stat, mask, ioc_events, ioc_event, rpc, nbyte, nonblocking, block, pos,
                    took, wpc, received, dirty, remasked, purges>>
    BY <1>2 DEF vars, ring, irq, events, reader, hist
  <2>2. TypeOK'
    BY <2>1 DEF IInv, RingInv, TypeOK
  <2>3. BlockTaken' /\ RingHoldsInput' /\ WaitBounded' /\ ReaderNotStranded' /\ EventNotMissed'
    BY <2>1 DEF IInv, RingInv, BlockTaken, RingHoldsInput, WaitBounded, ReaderNotStranded,
       EventNotMissed
  <2> QED
    BY <2>2, <2>3 DEF IInv, RingInv
<1> QED
  BY <1>1, <1>2

LEMMA Invariant == Spec => []IInv
  BY InitInv, NextInv, PTL DEF Spec

-----------------------------------------------------------------------------
(* The types: in_head and in_tail stay inside in_buf, and in_npend wraps   *)
(* below zero by no more than the size of the ring.                        *)
THEOREM TypeCorrect == Spec => []TypeOK
<1>1. IInv => TypeOK
  BY DEF IInv, RingInv
<1> QED
  BY <1>1, Invariant, PTL

(* Reads return the input in order, with the times of its characters, for  *)
(* any size of ring: the ring holds the characters received last, and what *)
(* a read copies without the lock is what it then removes, until an        *)
(* overrun or a purge during the copy.                                     *)
THEOREM InputInOrder == Spec => []RingHoldsInput
<1>1. IInv => RingHoldsInput
  BY DEF IInv, RingInv
<1> QED
  BY <1>1, Invariant, PTL

(* A reader that sleeps unsignalled is owed a signal: in_nwait is no more  *)
(* than what is missing, and no error is pending or masked.                *)
THEOREM ReaderOwedSignal == Spec => []ReaderNotStranded
<1>1. IInv => ReaderNotStranded
  BY DEF IInv
<1> QED
  BY <1>1, Invariant, PTL

(* A task that sleeps unsignalled in WAIT_EVENT has no event to report,    *)
(* unless the mask was changed under it.                                   *)
THEOREM NoEventMissed == Spec => []EventNotMissed
<1>1. IInv => EventNotMissed
  BY DEF IInv
<1> QED
  BY <1>1, Invariant, PTL
=============================================================================
