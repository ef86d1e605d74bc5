------------------------------- MODULE CanRing -------------------------------
(***************************************************************************)
(* The receive ring of one RT-Socket-CAN socket: rtcan_rcv_deliver and     *)
(* rtcan_raw_recvmsg (drivers/can/rtcan_raw.c), with the socket's set-up   *)
(* and the RTCAN_RTIOC_TAKE_TIMESTAMP ioctl.                               *)
(*                                                                         *)
(* recv_buf is a ring of bytes; a byte is written <<f, i>>: byte i of the  *)
(* stored frame f.  Byte 0 stands for can_id (it carries CAN_RTR_FLAG),    *)
(* the last header byte is can_dlc with the RTCAN_HAS_TIMESTAMP bit.  The  *)
(* reader finds the next frame only from what these bytes say, so a frame  *)
(* whose stored length is not the length the reader computes puts every    *)
(* later read out of step.  Bytes outside recv_head..recv_tail are Junk.   *)
(*                                                                         *)
(* rtcan_rcv runs under rtcan_socket_lock in the interrupt handler, one    *)
(* action for each copy it delivers; the copy out of the ring is made      *)
(* under the same lock and is one action.  recv_sem is the semaphore of    *)
(* module RtdmSem, by its contract (CountingSem), and it and the timestamp *)
(* flag are accessed without that lock: a reader may take its permit       *)
(* between two copies.  The kernel releases a socket only after the last   *)
(* call on it, so Close finds no reader inside.                            *)
(***************************************************************************)
EXTENDS Integers, Sequences, FiniteSets, TLC

CONSTANTS
    Readers,        \* tasks in recvmsg on the socket
    RXBUF_SIZE,     \* RTCAN_RXBUF_SIZE
    HeaderSize,     \* EMPTY_RB_FRAME_SIZE
    TimestampSize,  \* RTCAN_TIMESTAMP_SIZE
    MaxData,        \* the 8 data bytes of a CAN frame
    ChipDlcs,       \* bound: DLCs the bus delivers (0 to 15)
    SoftDlcs,       \* bound: DLCs sendmsg is given (the code allows 0 to 15)
    MaxEntries,     \* bound: reception list entries of the socket that match
    Seqs            \* frames are numbered modulo Seqs

ASSUME CanRingAssumption ==
    /\ HeaderSize \in Nat \ {0, 1} /\ TimestampSize \in Nat \ {0}
    /\ MaxData \in Nat /\ ChipDlcs \subseteq Nat /\ SoftDlcs \subseteq Nat
    /\ RXBUF_SIZE \in Nat /\ RXBUF_SIZE > HeaderSize + MaxData + TimestampSize
    /\ MaxEntries \in Nat /\ Seqs \in Nat \ {0} /\ IsFiniteSet(Readers)

VARIABLES
    ring,    \* [head, tail, buf, sem]: recv_head, recv_tail, recv_buf and
             \* the value of recv_sem
    stamp,   \* RTCAN_GET_TIMESTAMP in context_flags
    open,    \* the socket exists
    walk,    \* rtcan_rcv: the skb and how many entries it is still for
    call,    \* recvmsg per reader: its position and arguments
    queue,   \* history: the stored frames not yet read, oldest first
    seq,     \* history: number of the next frame
    astray   \* history: a frame was read that the reader is known to measure wrongly

vars == <<ring, stamp, open, walk, call, queue, seq, astray>>

Slots == 0..(RXBUF_SIZE - 1)
Junk == <<>>
Lesser(a, b) == IF a <= b THEN a ELSE b
At(p, n) == (p + n) % RXBUF_SIZE

Idle == [pc |-> "idle", peek |-> FALSE, control |-> FALSE]
PCs == {"idle", "down", "read"}

(* An skb, a frame as stored in a ring, a byte of the ring *)
SkbSet == [seq : 0..(Seqs - 1), rtr : BOOLEAN, dlc : Nat, data : Nat]
FrameSet == [seq : 0..(Seqs - 1), rtr : BOOLEAN, dlc : Nat, data : Nat, ts : BOOLEAN]
Byte == {Junk} \cup (FrameSet \X Nat)
NoWalk == [skb |-> [seq |-> 0, rtr |-> FALSE, dlc |-> 0, data |-> 0], left |-> 0]

TypeOK ==
    /\ ring \in [head : Slots, tail : Slots, buf : [Slots -> Byte], sem : Nat]
    /\ walk \in [skb : SkbSet, left : 0..MaxEntries]
    /\ queue \in Seq(FrameSet)
    /\ stamp \in BOOLEAN /\ open \in BOOLEAN /\ astray \in BOOLEAN
    /\ call \in [Readers -> [pc : PCs, peek : BOOLEAN, control : BOOLEAN]]
    /\ seq \in 0..(Seqs - 1)

(* rtcan_socket_init: an empty ring, recv_sem at 0 *)
EmptyRing == [head |-> 0, tail |-> 0, buf |-> [s \in Slots |-> Junk], sem |-> 0]

Init ==
    /\ ring = EmptyRing /\ stamp = FALSE /\ open = FALSE
    /\ walk = NoWalk /\ call = [r \in Readers |-> Idle]
    /\ queue = <<>> /\ seq = 0 /\ astray = FALSE

-----------------------------------------------------------------------------
(* The skb of a frame.  The controllers' handlers (chip) clamp the payload *)
(* they copy, but keep the DLC of the bus; rtcan_tx_push and the virtual   *)
(* driver (soft) copy as many bytes as sendmsg's DLC says.                 *)
Skb(rtr, dlc, soft) ==
    [seq |-> seq, rtr |-> rtr, dlc |-> dlc,
     data |-> IF rtr THEN 0 ELSE IF soft THEN dlc ELSE Lesser(dlc, MaxData)]
Frames ==
    {Skb(x[1], x[2], FALSE) : x \in BOOLEAN \X ChipDlcs}
        \cup {Skb(x[1], x[2], TRUE) : x \in BOOLEAN \X SoftDlcs}

(* cpy_size: the frame as stored in this socket's ring *)
Stored(skb) == [seq |-> skb.seq, rtr |-> skb.rtr, dlc |-> skb.dlc, data |-> skb.data, ts |-> stamp]
SizeOf(f) == HeaderSize + f.data + (IF f.ts THEN TimestampSize ELSE 0)

SizeFree(r) == IF r.head - r.tail <= 0 THEN r.head - r.tail + RXBUF_SIZE ELSE r.head - r.tail

(* rtcan_rcv_deliver: one copy for one entry of the reception list.  A     *)
(* frame that does not fit is dropped and counted (rx_buf_full, not kept   *)
(* here).                                                                  *)
Store(r, f) ==
    IF SizeFree(r) > SizeOf(f)
    THEN [r EXCEPT !.buf = [s \in Slots |-> LET i == At(s - r.tail, RXBUF_SIZE)
                                            IN  IF i < SizeOf(f) THEN <<f, i>> ELSE r.buf[s]],
                   !.tail = At(r.tail, SizeOf(f)),
                   !.sem = r.sem + 1]
    ELSE r

(* rtcan_rcv and rtcan_loopback: every entry that matches gets a copy      *)
(* (bind keeps one entry per filter, so a socket may get several).         *)
Rcv(skb, n) ==
    /\ open /\ walk.left = 0
    /\ walk' = [skb |-> skb, left |-> n]
    /\ seq' = (seq + 1) % Seqs
    /\ UNCHANGED <<ring, stamp, open, call, queue, astray>>
Deliver ==
    /\ walk.left > 0
    /\ LET f == Stored(walk.skb)
       IN  /\ ring' = Store(ring, f)
           /\ queue' = IF ring'.sem > ring.sem THEN Append(queue, f) ELSE queue
    /\ walk' = IF walk.left = 1 THEN NoWalk ELSE [walk EXCEPT !.left = @ - 1]
    /\ UNCHANGED <<stamp, open, call, seq, astray>>

-----------------------------------------------------------------------------
Socket ==
    /\ ~open /\ open' = TRUE
    /\ ring' = EmptyRing /\ stamp' = FALSE
    /\ queue' = <<>> /\ seq' = 0 /\ astray' = FALSE
    /\ UNCHANGED <<walk, call>>

(* rtcan_raw_close: rtcan_socket_cleanup destroys recv_sem *)
Close ==
    /\ open /\ walk.left = 0 /\ \A r \in Readers : call[r].pc = "idle"
    /\ open' = FALSE
    /\ ring' = EmptyRing /\ stamp' = FALSE /\ queue' = <<>> /\ seq' = 0 /\ astray' = FALSE
    /\ UNCHANGED <<walk, call>>

(* RTCAN_RTIOC_TAKE_TIMESTAMP *)
TakeTimestamp(on) ==
    /\ open /\ stamp' = on
    /\ UNCHANGED <<ring, open, walk, call, queue, seq, astray>>

(* rtcan_raw_recvmsg, past its argument checks *)
Recvmsg(r, peek, control) ==
    /\ open /\ call[r].pc = "idle"
    /\ call' = [call EXCEPT ![r] = [pc |-> "down", peek |-> peek, control |-> control]]
    /\ UNCHANGED <<ring, stamp, open, walk, queue, seq, astray>>

(* rtdm_sem_timeddown(recv_sem) takes a permit ... *)
Down(r) ==
    /\ call[r].pc = "down" /\ ring.sem > 0
    /\ ring' = [ring EXCEPT !.sem = @ - 1]
    /\ call' = [call EXCEPT ![r].pc = "read"]
    /\ UNCHANGED <<stamp, open, walk, queue, seq, astray>>

(* ... or fails: would block, timed out, interrupted. *)
DownFails(r) ==
    /\ call[r].pc = "down" /\ ring.sem = 0
    /\ call' = [call EXCEPT ![r] = Idle]
    /\ UNCHANGED <<ring, stamp, open, walk, queue, seq, astray>>

(* What the header bytes at p say.  Bytes that are not a header may say    *)
(* anything.                                                               *)
Headers(p) ==
    LET id == ring.buf[p]
        last == ring.buf[At(p, HeaderSize - 1)]
        rtrs == IF id # Junk /\ id[2] = 0 THEN {id[1].rtr} ELSE BOOLEAN
        dlcs == IF last # Junk /\ last[2] = HeaderSize - 1
                THEN {<<last[1].dlc, last[1].ts>>} ELSE (ChipDlcs \cup SoftDlcs) \X BOOLEAN
    IN  {[rtr |-> b, dlc |-> d[1], ts |-> d[2]] : b \in rtrs, d \in dlcs}

(* How far the copy out of the ring gets: the timestamp is passed over     *)
(* only for a caller that gave a control buffer.                           *)
ReadSizeRaw(h, control) ==      \* mutant: payload_size is the DLC, not at most 8
    HeaderSize + (IF h.rtr THEN 0 ELSE h.dlc)
               + (IF control /\ h.ts THEN TimestampSize ELSE 0)
ReadSize(h, control) ==
    HeaderSize + (IF h.rtr THEN 0 ELSE Lesser(h.dlc, MaxData))
               + (IF control /\ h.ts THEN TimestampSize ELSE 0)

(* Frames the code is known to measure wrongly: a timestamp nobody asked   *)
(* for, and a soft frame with a DLC above 8.                               *)
Mismeasured(f, control) == (f.ts /\ ~control) \/ f.data > MaxData

(* The section under rtcan_socket_lock; a peek gives its permit back. *)
ReadPeekKeeps(r) ==             \* mutant: MSG_PEEK does not raise recv_sem again
    /\ call[r].pc = "read" /\ walk.left = 0
    /\ \E h \in Headers(ring.head) :
         IF call[r].peek
         THEN UNCHANGED <<ring, queue, astray>>
         ELSE LET size == ReadSize(h, call[r].control)
              IN  /\ ring' = [ring EXCEPT !.head = At(@, size),
                                !.buf = [s \in Slots |->
                                   IF At(s - ring.head, RXBUF_SIZE) < size THEN Junk ELSE @[s]]]
                  /\ astray' = (astray \/ queue = <<>> \/ Mismeasured(queue[1], call[r].control))
                  /\ queue' = IF queue = <<>> THEN queue ELSE Tail(queue)
    /\ call' = [call EXCEPT ![r] = Idle]
    /\ UNCHANGED <<stamp, open, walk, seq>>
Read(r) ==
    /\ call[r].pc = "read" /\ walk.left = 0
    /\ \E h \in Headers(ring.head) :
         IF call[r].peek
         THEN /\ ring' = [ring EXCEPT !.sem = @ + 1]
              /\ UNCHANGED <<queue, astray>>
         ELSE LET size == ReadSize(h, call[r].control)
              IN  /\ ring' = [ring EXCEPT !.head = At(@, size),
                                !.buf = [s \in Slots |->
                                   IF At(s - ring.head, RXBUF_SIZE) < size THEN Junk ELSE @[s]]]
                  /\ astray' = (astray \/ queue = <<>> \/ Mismeasured(queue[1], call[r].control))
                  /\ queue' = IF queue = <<>> THEN queue ELSE Tail(queue)
    /\ call' = [call EXCEPT ![r] = Idle]
    /\ UNCHANGED <<stamp, open, walk, seq>>

Next ==
    \/ Socket \/ Close
    \/ \E on \in BOOLEAN : TakeTimestamp(on)
    \/ \E skb \in Frames, n \in 1..MaxEntries : Rcv(skb, n)
    \/ Deliver
    \/ \E r \in Readers : \/ \E peek, control \in BOOLEAN : Recvmsg(r, peek, control)
                          \/ Down(r) \/ DownFails(r) \/ Read(r)

Spec == Init /\ [][Next]_vars

(* Bounds of the runs: readers are alike, and nothing is followed past the *)
(* first frame that was measured wrongly.                                  *)
Symmetry == Permutations(Readers)
InStep == ~astray

-----------------------------------------------------------------------------
(* Where the frames lie, counted from recv_head: frame i at Offsets(q)[i], the  *)
(* free space at the last position.                                        *)
Offsets(q) ==
    LET at[i \in 1..(Len(q) + 1)] == IF i = 1 THEN 0 ELSE at[i - 1] + SizeOf(q[i - 1])
    IN  at

(* What lies between recv_head and recv_tail is exactly the frames not yet *)
(* read, in the order they came, and the ring never fills up so far that   *)
(* full looks like empty: size_free > cpy_size in deliver and the lengths  *)
(* recvmsg computes agree.  It ends at a frame the reader is known to      *)
(* measure wrongly (see Mismeasured).                                      *)
RingHoldsFrames ==
    ~astray =>
        LET at == Offsets(queue)
            used == at[Len(queue) + 1]
        IN  /\ used < RXBUF_SIZE
            /\ ring.tail = At(ring.head, used)
            /\ \A i \in 1..Len(queue) : \A b \in 0..(SizeOf(queue[i]) - 1) :
                   ring.buf[At(ring.head, at[i] + b)] = <<queue[i], b>>

(* recv_sem counts the frames in the ring that no reader has a permit for, *)
(* whatever peeks and failed waits happen in between: nobody reads an      *)
(* empty ring and no stored frame is left without a permit.                *)
PermitPerFrame ==
    ring.sem + Cardinality({r \in Readers : call[r].pc = "read"}) = Len(queue)
=============================================================================
