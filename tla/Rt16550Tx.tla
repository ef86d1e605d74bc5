------------------------------ MODULE Rt16550Tx ------------------------------
(***************************************************************************)
(* The transmit side of the 16550A serial driver (drivers/serial/16550A.c):*)
(* rt_16550_write, the transmitter part of rt_16550_interrupt, RTIOC_PURGE *)
(* of the TX buffer and the event-mask part of rt_16550_set_config, which  *)
(* shares the interrupt enable register with the transmitter; and          *)
(* rt_16550_open and rt_16550_close.                                       *)
(*                                                                         *)
(* A section between rtdm_lock_get and rtdm_lock_put is one action.  The   *)
(* copy into out_buf happens between two such sections, without the lock.  *)
(* Bytes are numbered in the order write accepts them; 0 stands for the    *)
(* contents of a slot that was never written.                              *)
(*                                                                         *)
(* out_event is used by its contract (module RtdmEvent): a signal stays    *)
(* pending until a wait consumes it.  out_lock is an rt_mutex.             *)
(***************************************************************************)
EXTENDS Naturals

CONSTANTS
    Writers,     \* tasks that call write on the device
    Size,        \* OUT_BUFFER_SIZE
    Fifo,        \* tx_fifo[dev_id]
    MaxWrite,    \* bound: largest nbyte of a write
    MaxBytes,    \* bound: no write starts once this many bytes were accepted
    MaxMasks     \* bound: SET_CONFIG calls that change the event mask

ASSUME TxAssumption ==
    /\ Size \in Nat \ {0} /\ Fifo \in Nat \ {0}
    /\ MaxWrite \in Nat \ {0} /\ MaxBytes \in Nat /\ MaxMasks \in Nat

VARIABLES
    head, tail, npend,   \* out_head, out_tail, out_npend
    buf,                 \* out_buf
    ier_tx,              \* IER_TX in ier_status
    out_event,           \* PENDING of out_event
    opened,              \* the device is open
    holder,              \* tasks inside out_lock
    pc, nbyte,           \* of each writer: place, bytes still to write
    block, pos,          \* of each writer: block, out_pos
    accepted,            \* history: number of bytes put into the ring
    torn,                \* history: a purge fell into an unlocked copy
    masked,              \* history: IER_TX was last changed by clearing it in set_config
    masks                \* bound: event mask changes made

ring == <<head, tail, npend, buf>>
writer == <<pc, nbyte, block, pos>>
hist == <<accepted, torn, masked, masks>>
vars == <<opened, ring, ier_tx, out_event, holder, writer, hist>>

(* "lock": waiting for out_lock; "top": before the locked section of the   *)
(* loop; "copy": block and out_pos chosen, lock dropped; "commit": bytes   *)
(* copied, before the second section; "wait": in rtdm_event_timedwait.     *)
PCs == {"idle", "lock", "top", "copy", "commit", "wait"}

Slots == 0..(Size - 1)
Lesser(a, b) == IF a <= b THEN a ELSE b

TypeOK ==
    /\ head \in Slots /\ tail \in Slots /\ npend \in 0..Size
    /\ buf \in [Slots -> Nat]
    /\ ier_tx \in BOOLEAN /\ out_event \in BOOLEAN
    /\ opened \in BOOLEAN /\ holder \in SUBSET Writers
    /\ pc \in [Writers -> PCs] /\ nbyte \in [Writers -> 0..MaxWrite]
    /\ block \in [Writers -> 0..Size] /\ pos \in [Writers -> Slots]
    /\ accepted \in Nat /\ torn \in BOOLEAN /\ masked \in BOOLEAN
    /\ masks \in 0..MaxMasks

Copying == \E w \in Writers : pc[w] \in {"copy", "commit"}

-----------------------------------------------------------------------------
(* A closed device: the variables have the values rt_16550_open gives them. *)
Init ==
    /\ opened = FALSE
    /\ head = 0 /\ tail = 0 /\ npend = 0 /\ buf = [s \in Slots |-> 0]
    /\ ier_tx = FALSE /\ out_event = FALSE /\ holder = {}
    /\ pc = [w \in Writers |-> "idle"] /\ nbyte = [w \in Writers |-> 0]
    /\ block = [w \in Writers |-> 0] /\ pos = [w \in Writers |-> 0]
    /\ accepted = 0 /\ torn = FALSE /\ masked = FALSE /\ masks = 0

(* rt_16550_open; if the interrupt is not available it undoes everything. *)
Open ==
    /\ ~opened /\ opened' = TRUE
    /\ UNCHANGED <<ring, ier_tx, out_event, holder, writer, hist>>

(* rt_16550_close, called by the core when the last user has gone: the     *)
(* UART's interrupts are masked and the context is freed, with the bytes   *)
(* that were not sent yet.                                                 *)
Close ==
    /\ opened /\ \A w \in Writers : pc[w] = "idle"
    /\ opened' = FALSE
    /\ head' = 0 /\ tail' = 0 /\ npend' = 0 /\ buf' = [s \in Slots |-> 0]
    /\ ier_tx' = FALSE /\ out_event' = FALSE
    /\ accepted' = 0 /\ torn' = FALSE /\ masked' = FALSE /\ masks' = 0
    /\ UNCHANGED <<holder, writer>>

(* rt_16550_write(nbyte = n) up to the lock. *)
Write(w, n) ==
    /\ opened /\ pc[w] = "idle" /\ accepted < MaxBytes
    /\ pc' = [pc EXCEPT ![w] = "lock"]
    /\ nbyte' = [nbyte EXCEPT ![w] = n]
    /\ UNCHANGED <<opened, ring, ier_tx, out_event, holder, block, pos, hist>>

(* rtdm_mutex_timedlock(out_lock) *)
LockIgnored(w) ==        \* mutant: the result of the lock call not tested
    /\ pc[w] = "lock"
    /\ holder' = holder \cup {w}
    /\ pc' = [pc EXCEPT ![w] = "top"]
    /\ UNCHANGED <<opened, ring, ier_tx, out_event, nbyte, block, pos, hist>>
Lock(w) ==
    /\ pc[w] = "lock" /\ holder = {}
    /\ holder' = {w}
    /\ pc' = [pc EXCEPT ![w] = "top"]
    /\ UNCHANGED <<opened, ring, ier_tx, out_event, nbyte, block, pos, hist>>

(* rtdm_mutex_unlock(out_lock) and the return of the call; the locals are  *)
(* forgotten.                                                              *)
Leave(w) ==
    /\ holder' = holder \ {w}
    /\ pc' = [pc EXCEPT ![w] = "idle"]
    /\ nbyte' = [nbyte EXCEPT ![w] = 0]
    /\ block' = [block EXCEPT ![w] = 0] /\ pos' = [pos EXCEPT ![w] = 0]

(* The lock is busy and the call gives up: timeout, signal, rx_timeout < 0. *)
LockFails(w) ==
    /\ pc[w] = "lock" /\ holder # {}
    /\ Leave(w)
    /\ UNCHANGED <<opened, ring, ier_tx, out_event, hist>>

(* The locked section at the top of the loop. *)
Top(w) ==
    LET free == Size - npend IN
    /\ pc[w] = "top"
    /\ \/ nbyte[w] = 0 /\ Leave(w)
       \/ /\ nbyte[w] > 0 /\ free > 0
          /\ block' = [block EXCEPT ![w] = Lesser(nbyte[w], free)]
          /\ pos' = [pos EXCEPT ![w] = tail]
          /\ pc' = [pc EXCEPT ![w] = "copy"]
          /\ UNCHANGED <<nbyte, holder>>
       \/ /\ nbyte[w] > 0 /\ free = 0
          /\ pc' = [pc EXCEPT ![w] = "wait"]
          /\ UNCHANGED <<nbyte, holder, block, pos>>
    /\ UNCHANGED <<opened, ring, ier_tx, out_event, hist>>

(* The copy into out_buf, in two parts if it wraps. *)
Copy(w) ==
    /\ pc[w] = "copy"
    /\ buf' = [s \in Slots |->
                 LET i == (s + Size - pos[w]) % Size
                 IN  IF i < block[w] THEN accepted + i + 1 ELSE buf[s]]
    /\ pc' = [pc EXCEPT ![w] = "commit"]
    /\ UNCHANGED <<opened, head, tail, npend, ier_tx, out_event, holder, nbyte, block, pos, hist>>

(* rtdm_copy_from_user fails: -EFAULT, nothing is committed. *)
CopyFault(w) ==
    /\ pc[w] = "copy"
    /\ Leave(w)
    /\ UNCHANGED <<opened, ring, ier_tx, out_event, hist>>

(* The second locked section: the bytes become visible to the interrupt    *)
(* handler and the transmitter interrupt is unmasked.                      *)
CommitMasked(w) ==       \* mutant: the interrupt is not unmasked
    /\ pc[w] = "commit"
    /\ tail' = (tail + block[w]) % Size
    /\ npend' = npend + block[w]
    /\ accepted' = accepted + block[w]
    /\ nbyte' = [nbyte EXCEPT ![w] = @ - block[w]]
    /\ pc' = [pc EXCEPT ![w] = "top"]
    /\ block' = [block EXCEPT ![w] = 0] /\ pos' = [pos EXCEPT ![w] = 0]
    /\ UNCHANGED <<opened, head, buf, ier_tx, out_event, holder, torn, masked, masks>>
Commit(w) ==
    /\ pc[w] = "commit"
    /\ tail' = (tail + block[w]) % Size
    /\ npend' = npend + block[w]
    /\ accepted' = accepted + block[w]
    /\ nbyte' = [nbyte EXCEPT ![w] = @ - block[w]]
    /\ ier_tx' = TRUE /\ masked' = FALSE
    /\ pc' = [pc EXCEPT ![w] = "top"]
    /\ block' = [block EXCEPT ![w] = 0] /\ pos' = [pos EXCEPT ![w] = 0]
    /\ UNCHANGED <<opened, head, buf, out_event, holder, torn, masks>>

(* rtdm_event_timedwait(out_event): consumes a signal. *)
Woken(w) ==
    /\ pc[w] = "wait" /\ out_event
    /\ out_event' = FALSE
    /\ pc' = [pc EXCEPT ![w] = "top"]
    /\ UNCHANGED <<opened, ring, ier_tx, holder, nbyte, block, pos, hist>>

(* ... or fails: timeout, signal, non-blocking mode. *)
WaitFails(w) ==
    /\ pc[w] = "wait"
    /\ Leave(w)
    /\ UNCHANGED <<opened, ring, ier_tx, out_event, hist>>

-----------------------------------------------------------------------------
(* rt_16550_interrupt, as far as it concerns the transmitter: if the UART  *)
(* reports an empty transmitter (`thre', possible only with IER_TX set),   *)
(* rt_16550_tx_interrupt sends up to tx_fifo bytes.  Any interrupt that    *)
(* finds the ring empty masks IER_TX and signals out_event.                *)
InterruptSilent(thre) == \* mutant: signals only when the handler itself sent bytes
    /\ opened /\ (thre => ier_tx)
    /\ LET sent == IF thre THEN Lesser(Fifo, npend) ELSE 0
           done == ier_tx /\ npend = sent
       IN  /\ head' = (head + sent) % Size
           /\ npend' = npend - sent
           /\ ier_tx' = (ier_tx /\ ~done)
           /\ out_event' = (out_event \/ (done /\ sent > 0))
    /\ UNCHANGED <<opened, tail, buf, holder, writer, hist>>
Interrupt(thre) ==
    /\ opened /\ (thre => ier_tx)
    /\ LET sent == IF thre THEN Lesser(Fifo, npend) ELSE 0
           done == ier_tx /\ npend = sent
       IN  /\ head' = (head + sent) % Size
           /\ npend' = npend - sent
           /\ ier_tx' = (ier_tx /\ ~done)
           /\ out_event' = (out_event \/ done)
    /\ UNCHANGED <<opened, tail, buf, holder, writer, hist>>

(* RTIOC_PURGE with RTDM_PURGE_TX_BUFFER. *)
Purge ==
    /\ opened
    /\ head' = 0 /\ tail' = 0 /\ npend' = 0
    /\ torn' = Copying
    /\ UNCHANGED <<opened, buf, ier_tx, out_event, holder, writer, accepted, masked, masks>>

(* rt_16550_set_config with RTSER_SET_EVENT_MASK: `modem' tells whether    *)
(* the new mask has a modem event.  The code sets or clears IER_TX.        *)
SetEventMask(modem) ==
    /\ opened /\ masks < MaxMasks
    /\ masks' = masks + 1
    /\ ier_tx' = modem /\ masked' = ~modem
    /\ UNCHANGED <<opened, ring, out_event, holder, writer, accepted, torn>>

-----------------------------------------------------------------------------
(* The steps of a write that has begun, apart from its failures. *)
Run(w) == Lock(w) \/ Top(w) \/ Copy(w) \/ Commit(w) \/ Woken(w)

Next ==
    \/ Open \/ Close
    \/ \E w \in Writers :
          \/ \E n \in 1..MaxWrite : Write(w, n)
          \/ Run(w) \/ LockFails(w) \/ CopyFault(w) \/ WaitFails(w)
    \/ \E thre \in BOOLEAN : Interrupt(thre)
    \/ Purge
    \/ \E modem \in BOOLEAN : SetEventMask(modem)

Spec == Init /\ [][Next]_vars

(* Writers run, and an unmasked transmitter that runs empty interrupts. *)
Fairness ==
    /\ \A w \in Writers : WF_vars(Run(w))
    /\ WF_vars(Interrupt(TRUE))
FairSpec == Spec /\ Fairness

-----------------------------------------------------------------------------
(* The ring holds exactly the bytes accepted last, in their order, so the  *)
(* interrupt handler sends the byte stream of the writes without gap,      *)
(* repetition or garbage.  A purge during the unlocked copy breaks this:   *)
(* the copied bytes then lie at the old out_pos and not at the ring's new  *)
(* start.                                                                  *)
RingHoldsStream ==
    /\ tail = (head + npend) % Size
    /\ ~torn => \A i \in 0..(npend - 1) :
                    buf[(head + i) % Size] = accepted - npend + i + 1

(* Bytes in the ring, and a writer that sleeps unsignalled, always have    *)
(* the transmitter interrupt to count on, unless set_config masked it.     *)
TransmitterArmed ==
    npend > 0 \/ (~out_event /\ \E w \in Writers : pc[w] = "wait") => ier_tx \/ masked

(* A write blocked on a full ring gets on, as long as set_config does not  *)
(* leave IER_TX masked.                                                    *)
WriterReleased ==
    (<>[](~masked)) => \A w \in Writers : pc[w] = "wait" ~> pc[w] # "wait"
=============================================================================
