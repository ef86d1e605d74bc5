------------------------------ MODULE Rt16550Rx ------------------------------
(***************************************************************************)
(* The receive side of the 16550A serial driver (drivers/serial/16550A.c): *)
(* the receiver, line-status and event parts of rt_16550_interrupt,        *)
(* rt_16550_read, and the ioctls RTSER_RTIOC_WAIT_EVENT, GET_STATUS,       *)
(* RTIOC_PURGE and SET_CONFIG (line parameters, timestamp history and      *)
(* event mask), and rt_16550_open and rt_16550_close.                      *)
(*                                                                         *)
(* A section under ctx->lock is one action; the copy out of in_buf runs    *)
(* between two of them.  Received characters are numbered.  in_lock and    *)
(* ioc_event_lock let one task read and one task wait for events; a second *)
(* one returns -EBUSY without touching anything, so one of each is enough. *)
(* in_event and ioc_event keep a signal until a wait consumes it (module   *)
(* RtdmEvent).                                                             *)
(*                                                                         *)
(* in_npend is a size_t.  A value below 0 stands for one that wrapped: it  *)
(* compares greater than any buffer size, and the `int pending' read       *)
(* copies it into is negative.                                             *)
(*                                                                         *)
(* Modem events are absent: the handler knows them, but no code ever sets  *)
(* IER_MODEM, so the UART never reports one (see Rt16550Tx!SetEventMask).  *)
(***************************************************************************)
EXTENDS Integers

CONSTANTS
    Size,        \* IN_BUFFER_SIZE
    LineErrors,  \* error bits of the line status register
    Break,       \* the one of them that is RTSER_LSR_BREAK_IND
    Masks,       \* bound: event masks the user configures
    MaxRead,     \* bound: largest nbyte of a read
    MaxBurst,    \* bound: characters one interrupt finds in the UART
    MaxChars,    \* bound: characters received altogether
    MaxPurges    \* bound: RTIOC_PURGE calls

ASSUME RxAssumption ==
    /\ Size \in Nat \ {0} /\ Break \in LineErrors
    /\ \A m \in Masks : m \subseteq {"RXPEND", "ERRPEND"}
    /\ MaxRead \in Nat /\ MaxBurst \in 0..Size /\ MaxChars \in Nat /\ MaxPurges \in Nat

VARIABLES
    head, tail, npend,   \* in_head, in_tail, in_npend
    buf,                 \* in_buf
    in_history,          \* in_history: of which character a slot has the time
    opened,              \* the device is open
    nwait,               \* in_nwait
    in_event,            \* PENDING of in_event
    status, saved,       \* status, saved_errors
    ier_stat,            \* IER_STAT in ier_status
    mask,                \* config.event_mask
    ioc_events,          \* ioc_events
    ioc_event,           \* PENDING of ioc_event
    rpc, nbyte, nonblocking, block, pos,  \* locals of rt_16550_read
    took,                \* what the last copy took out of in_buf
    wpc,                 \* where the caller of WAIT_EVENT is
    received,            \* history: number of characters received
    dirty,               \* history: overrun, or a purge fell into an unlocked copy
    remasked,            \* history: the mask changed while WAIT_EVENT slept
    purges               \* bound: purges made

ring == <<head, tail, npend, buf, in_history>>
irq == <<status, ier_stat>>
events == <<mask, ioc_events, ioc_event>>
reader == <<rpc, nbyte, nonblocking, block, pos, took>>
hist == <<received, dirty, remasked, purges>>
vars == <<opened, ring, nwait, in_event, irq, saved, events, reader, wpc, hist>>

Slots == 0..(Size - 1)
Soft == "soft_overrun"
Errors == LineErrors \cup {Soft}
Events == {"RXPEND", "ERRPEND"}
NULL == [s \in Slots |-> -1]        \* no history
Fresh == [s \in Slots |-> 0]        \* memory nothing was written to
Lesser(a, b) == IF a <= b THEN a ELSE b

(* "top": before the locked section; "copy": block chosen, lock dropped;   *)
(* "commit": copied; "wait": in rtdm_event_timedwait; "failed": it         *)
(* returned an error; "giveup": before the unlocked in_nwait = 0.          *)
ReadPCs == {"idle", "top", "copy", "commit", "wait", "failed", "giveup"}
WaitPCs == {"idle", "check", "wait"}

TypeOK ==
    /\ head \in Slots /\ tail \in Slots /\ npend \in (-Size)..Size
    /\ buf \in [Slots -> Nat]
    /\ in_history \in [Slots -> Nat] \cup {NULL} /\ opened \in BOOLEAN
    /\ nwait \in 0..MaxRead /\ in_event \in BOOLEAN
    /\ status \in SUBSET Errors /\ saved \in SUBSET Errors
    /\ ier_stat \in BOOLEAN
    /\ mask \in Masks /\ ioc_events \in SUBSET Events /\ ioc_event \in BOOLEAN
    /\ rpc \in ReadPCs /\ nbyte \in 0..MaxRead /\ nonblocking \in BOOLEAN
    /\ block \in 0..Size /\ pos \in Slots /\ took \in [0..(block - 1) -> Nat]
    /\ wpc \in WaitPCs
    /\ received \in 0..MaxChars /\ dirty \in BOOLEAN /\ remasked \in BOOLEAN
    /\ purges \in 0..MaxPurges

-----------------------------------------------------------------------------
(* A closed device: the variables have the values rt_16550_open gives them. *)
Init ==
    /\ opened = FALSE
    /\ head = 0 /\ tail = 0 /\ npend = 0 /\ buf = Fresh /\ in_history = NULL
    /\ nwait = 0 /\ in_event = FALSE
    /\ status = {} /\ saved = {} /\ ier_stat = FALSE
    /\ mask \in Masks /\ ioc_events = {} /\ ioc_event = FALSE
    /\ rpc = "idle" /\ nbyte = 0 /\ nonblocking = FALSE /\ block = 0 /\ pos = 0
    /\ took = [i \in 0..(-1) |-> 0]
    /\ wpc = "idle"
    /\ received = 0 /\ dirty = FALSE /\ remasked = FALSE /\ purges = 0

(* rt_16550_open, with an event mask set afterwards.  (If the interrupt is *)
(* not available it undoes everything.)                                    *)
Open(m) ==
    /\ ~opened /\ opened' = TRUE
    /\ mask' = m
    /\ UNCHANGED <<ring, nwait, in_event, irq, saved, ioc_events, ioc_event, reader, wpc, hist>>

(* rt_16550_close, called by the core when the last user has gone: the     *)
(* UART's interrupts are masked, the history and the context freed.        *)
Close ==
    /\ opened /\ rpc = "idle" /\ wpc = "idle"
    /\ opened' = FALSE
    /\ head' = 0 /\ tail' = 0 /\ npend' = 0 /\ buf' = Fresh /\ in_history' = NULL
    /\ nwait' = 0 /\ in_event' = FALSE
    /\ status' = {} /\ saved' = {} /\ ier_stat' = FALSE
    /\ ioc_events' = {} /\ ioc_event' = FALSE
    /\ received' = 0 /\ dirty' = FALSE /\ remasked' = FALSE /\ purges' = 0
    /\ UNCHANGED <<mask, reader, wpc>>

(* rt_16550_rx_interrupt, for n characters: the ring overwrites its oldest *)
(* character when it is full, without moving in_head.                      *)
Overrun(n) == n > 0 /\ (npend < -1 \/ npend + n > Size)
Receive(n) ==
    /\ buf' = [s \in Slots |->
                 LET i == (s + Size - tail) % Size
                 IN  IF i < n THEN received + i + 1 ELSE buf[s]]
    /\ in_history' = IF in_history = NULL THEN NULL
                     ELSE [s \in Slots |->
                             IF (s + Size - tail) % Size < n THEN buf'[s] ELSE in_history[s]]
    /\ tail' = (tail + n) % Size
    /\ npend' = IF npend < -1 THEN npend ELSE Lesser(npend + n, Size)
    /\ UNCHANGED head

(* The in_nwait part of the handler: st is the status by then. *)
WakeReaderShort(n, st) == \* mutant: < for <=
    IF nwait > 0 /\ (nwait < n \/ st # {})
    THEN nwait' = 0 /\ in_event' = TRUE
    ELSE /\ nwait' = IF nwait >= n THEN nwait - n ELSE 0
         /\ UNCHANGED in_event
WakeReader(n, st) ==
    IF nwait > 0 /\ (nwait <= n \/ st # {})
    THEN nwait' = 0 /\ in_event' = TRUE
    ELSE /\ nwait' = IF nwait > 0 THEN nwait - n ELSE nwait
         /\ UNCHANGED in_event

(* The event part: the new events replace the old ones; only a change from *)
(* none to some is signalled.                                              *)
RaiseEventsMasked(ev) == \* mutant: signals only when RXPEND is among the events
    IF ev \cap mask # {}
    THEN /\ ioc_events' = ev
         /\ ioc_event' = (ioc_event \/ (ioc_events = {} /\ "RXPEND" \in ev))
    ELSE UNCHANGED <<ioc_events, ioc_event>>
RaiseEvents(ev) ==
    IF ev \cap mask # {}
    THEN /\ ioc_events' = ev
         /\ ioc_event' = (ioc_event \/ ioc_events = {})
    ELSE UNCHANGED <<ioc_events, ioc_event>>

(* rt_16550_interrupt with n characters and the line errors E.  Errors     *)
(* come with the characters, or by the line-status interrupt if IER_STAT   *)
(* is set.  With neither it is an interrupt for the transmitter, which     *)
(* runs through the same tail.                                             *)
Interrupt(n, E) ==
    LET st == status \cup E \cup (IF Overrun(n) THEN {Soft} ELSE {})
        ev == (IF n > 0 THEN {"RXPEND"} ELSE {}) \cup (IF st # {} THEN {"ERRPEND"} ELSE {})
    IN  /\ opened
        /\ E # {} => n > 0 \/ ier_stat
        /\ received + n <= MaxChars
        /\ Receive(n)
        /\ status' = st
        /\ ier_stat' = (ier_stat /\ st = {})
        /\ WakeReader(n, st)
        /\ RaiseEvents(ev)
        /\ received' = received + n
        /\ dirty' = (dirty \/ Overrun(n))
        /\ UNCHANGED <<opened, saved, mask, reader, wpc, remasked, purges>>

-----------------------------------------------------------------------------
(* rt_16550_read(nbyte = n); nb: rx_timeout < 0. *)
Read(n, nb) ==
    /\ opened /\ rpc = "idle"
    /\ rpc' = "top" /\ nbyte' = n /\ nonblocking' = nb
    /\ UNCHANGED <<opened, ring, nwait, in_event, irq, saved, events, block, pos, took,
                   wpc, hist>>

(* clear_bit(0, in_lock) and return; the locals are forgotten. *)
ReadReturn ==
    /\ rpc' = "idle" /\ nbyte' = 0 /\ nonblocking' = FALSE
    /\ block' = 0 /\ pos' = 0 /\ took' = [i \in 0..(-1) |-> 0]

(* The locked section at the top of the loop: report an error, else take a *)
(* block, else give up or wait for the rest.                               *)
ReadError ==
    /\ status # {}
    /\ saved' = status \ {Break}
    /\ status' = {}
    /\ ReadReturn
    /\ UNCHANGED nwait
ReadTake ==
    /\ status = {} /\ npend > 0
    /\ block' = Lesser(npend, nbyte) /\ pos' = head
    /\ took' = [i \in 0..(Lesser(npend, nbyte) - 1) |-> 0]
    /\ rpc' = "copy"
    /\ UNCHANGED <<status, saved, nwait, nbyte, nonblocking>>
ReadBlock ==
    /\ status = {} /\ npend <= 0
    /\ IF nonblocking
       THEN ReadReturn /\ UNCHANGED nwait
       ELSE /\ nwait' = nbyte /\ rpc' = "wait"
            /\ UNCHANGED <<nbyte, nonblocking, block, pos, took>>
    /\ UNCHANGED <<status, saved>>
ReadTop ==
    /\ rpc = "top"
    /\ IF nbyte = 0
       THEN ReadReturn /\ UNCHANGED <<ier_stat, status, saved, nwait>>
       ELSE ier_stat' = TRUE /\ (ReadError \/ ReadTake \/ ReadBlock)
    /\ UNCHANGED <<opened, ring, in_event, events, wpc, received, dirty, remasked, purges>>

(* The copy out of in_buf, in two parts if it wraps. *)
ReadCopy ==
    /\ rpc = "copy"
    /\ took' = [i \in 0..(block - 1) |-> buf[(pos + i) % Size]]
    /\ rpc' = "commit"
    /\ UNCHANGED <<opened, ring, nwait, in_event, irq, saved, events, nbyte, nonblocking,
                   block, pos, wpc, hist>>

(* rtdm_copy_to_user fails: -EFAULT, nothing is removed. *)
ReadFault ==
    /\ rpc = "copy"
    /\ ReadReturn
    /\ UNCHANGED <<opened, ring, nwait, in_event, irq, saved, events, wpc, hist>>

(* The second locked section removes the block. *)
ReadCommitAll ==         \* mutant: removes what was asked for
    /\ rpc = "commit"
    /\ head' = (head + nbyte) % Size
    /\ npend' = npend - block
    /\ ioc_events' = IF npend = block THEN ioc_events \ {"RXPEND"} ELSE ioc_events
    /\ nbyte' = nbyte - block
    /\ rpc' = "top" /\ block' = 0 /\ pos' = 0 /\ took' = [i \in 0..(-1) |-> 0]
    /\ UNCHANGED <<opened, tail, buf, in_history, nwait, in_event, irq, saved, mask, ioc_event,
                   nonblocking, wpc, hist>>
ReadCommit ==
    /\ rpc = "commit"
    /\ head' = (head + block) % Size
    /\ npend' = npend - block
    /\ ioc_events' = IF npend = block THEN ioc_events \ {"RXPEND"} ELSE ioc_events
    /\ nbyte' = nbyte - block
    /\ rpc' = "top" /\ block' = 0 /\ pos' = 0 /\ took' = [i \in 0..(-1) |-> 0]
    /\ UNCHANGED <<opened, tail, buf, in_history, nwait, in_event, irq, saved, mask, ioc_event,
                   nonblocking, wpc, hist>>

(* rtdm_event_timedwait(in_event) consumes a signal ... *)
ReadWoken ==
    /\ rpc = "wait" /\ in_event
    /\ in_event' = FALSE /\ rpc' = "top"
    /\ UNCHANGED <<opened, ring, nwait, irq, saved, events, nbyte, nonblocking, block, pos,
                   took, wpc, hist>>

(* ... or fails: one more turn for what arrived meanwhile.  in_npend is    *)
(* read and in_nwait cleared without the lock.                             *)
ReadWaitFails ==
    /\ rpc = "wait"
    /\ rpc' = "failed" /\ nonblocking' = TRUE
    /\ UNCHANGED <<opened, ring, nwait, in_event, irq, saved, events, nbyte, block, pos, took,
                   wpc, hist>>
ReadLastTurn ==
    /\ rpc = "failed"
    /\ rpc' = IF npend # 0 THEN "top" ELSE "giveup"
    /\ UNCHANGED <<opened, ring, nwait, in_event, irq, saved, events, nbyte, nonblocking, block,
                   pos, took, wpc, hist>>
ReadGiveUp ==
    /\ rpc = "giveup"
    /\ nwait' = 0
    /\ ReadReturn
    /\ UNCHANGED <<opened, ring, in_event, irq, saved, events, wpc, hist>>

-----------------------------------------------------------------------------
(* RTSER_RTIOC_WAIT_EVENT *)
WaitEvent ==
    /\ opened /\ wpc = "idle"
    /\ wpc' = "check"
    /\ UNCHANGED <<opened, ring, nwait, in_event, irq, saved, events, reader, hist>>
WaitCheck ==
    /\ wpc = "check"
    /\ IF ioc_events = {}
       THEN /\ ier_stat' = (ier_stat \/ "ERRPEND" \in mask)
            /\ wpc' = "wait"
       ELSE wpc' = "idle" /\ UNCHANGED ier_stat
    /\ remasked' = FALSE
    /\ UNCHANGED <<opened, ring, nwait, in_event, status, saved, events, reader,
                   received, dirty, purges>>
WaitWoken ==
    /\ wpc = "wait" /\ ioc_event
    /\ ioc_event' = FALSE /\ wpc' = "check"
    /\ UNCHANGED <<opened, ring, nwait, in_event, irq, saved, mask, ioc_events, reader, hist>>
WaitFails ==
    /\ wpc = "wait"
    /\ wpc' = "idle"
    /\ UNCHANGED <<opened, ring, nwait, in_event, irq, saved, events, reader, hist>>

(* RTSER_RTIOC_GET_STATUS: reports and clears status and saved_errors. *)
GetStatus ==
    /\ opened
    /\ status' = {} /\ saved' = {}
    /\ ioc_events' = ioc_events \ {"ERRPEND"}
    /\ UNCHANGED <<opened, ring, nwait, in_event, ier_stat, mask, ioc_event, reader, wpc,
                   received, dirty, remasked, purges>>

(* RTSER_RTIOC_SET_CONFIG with a baud rate, parity, data or stop bits:     *)
(* pending errors are dropped.                                             *)
SetLine ==
    /\ opened
    /\ status' = {}
    /\ ioc_events' = ioc_events \ {"ERRPEND"}
    /\ UNCHANGED <<opened, ring, nwait, in_event, saved, ier_stat, mask, ioc_event, reader, wpc,
                   hist>>

(* RTIOC_PURGE with RTDM_PURGE_RX_BUFFER *)
Purge ==
    /\ opened
    /\ purges < MaxPurges /\ purges' = purges + 1
    /\ head' = 0 /\ tail' = 0 /\ npend' = 0
    /\ status' = {}
    /\ dirty' = (rpc \in {"copy", "commit"})
    /\ UNCHANGED <<opened, buf, in_history, nwait, in_event, saved, ier_stat, events, reader, wpc,
                   received, remasked>>

(* RTSER_RTIOC_SET_CONFIG with RTSER_SET_TIMESTAMP_HISTORY: memory for the *)
(* history is allocated beforehand and swapped in under the lock; the      *)
(* buffer that is then left over, new or old, is freed.  The new memory    *)
(* says nothing of the characters that are already in the ring.            *)
Swapped(on) ==
    IF ~on THEN NULL ELSE IF in_history = NULL THEN Fresh ELSE in_history
SetHistory(on) ==
    /\ opened
    /\ in_history' = Swapped(on)
    /\ UNCHANGED <<opened, head, tail, npend, buf, nwait, in_event, irq, saved, events,
                   reader, wpc, hist>>

(* RTSER_RTIOC_SET_CONFIG with RTSER_SET_EVENT_MASK: the events are set up *)
(* anew, but nobody is signalled.                                          *)
SetEventMask(m) ==
    /\ opened
    /\ mask' = m
    /\ ioc_events' = {e \in m : \/ e = "RXPEND" /\ npend # 0
                                \/ e = "ERRPEND" /\ status # {}}
    /\ remasked' = (wpc = "wait" \/ remasked)
    /\ UNCHANGED <<opened, ring, nwait, in_event, irq, saved, ioc_event, reader, wpc,
                   received, dirty, purges>>

-----------------------------------------------------------------------------
Next ==
    \/ \E m \in Masks : Open(m)
    \/ Close
    \/ \E n \in 0..MaxBurst, E \in SUBSET LineErrors : Interrupt(n, E)
    \/ \E n \in 1..MaxRead, nb \in BOOLEAN : Read(n, nb)
    \/ ReadTop \/ ReadCopy \/ ReadFault \/ ReadCommit
    \/ ReadWoken \/ ReadWaitFails \/ ReadLastTurn \/ ReadGiveUp
    \/ WaitEvent \/ WaitCheck \/ WaitWoken \/ WaitFails
    \/ GetStatus \/ SetLine \/ Purge
    \/ \E on \in BOOLEAN : SetHistory(on)
    \/ \E m \in Masks : SetEventMask(m)

Spec == Init /\ [][Next]_vars

-----------------------------------------------------------------------------
(* The ring holds exactly the characters received last, oldest first, so   *)
(* reads return the input in order; a slot of the history has the time of  *)
(* its own character, or nothing if it came before the history (WAIT_EVENT *)
(* then reports memory that was never written); and what a read has copied *)
(* without the lock is what it then removes.  Two things end this until    *)
(* the next purge: an overrun (in_tail passes in_head) and a purge during  *)
(* the unlocked copy (in_npend wraps below zero).                          *)
RingHoldsInput ==
    ~dirty =>
        /\ npend \in 0..Size /\ tail = (head + npend) % Size
        /\ \A i \in 0..(npend - 1) :
              LET s == (head + i) % Size
              IN  buf[s] = received - npend + i + 1 /\ in_history[s] \in {-1, 0, buf[s]}
        /\ rpc = "commit" =>
              block <= npend /\ \A i \in 0..(block - 1) : took[i] = buf[(head + i) % Size]

(* A reader that sleeps without a signal is owed one: the interrupt        *)
(* handler counts down to no more than what is missing, no error is        *)
(* pending, and errors are listened to.                                    *)
ReaderNotStranded ==
    rpc = "wait" /\ ~in_event =>
        nwait > 0 /\ (~dirty => npend + nwait <= nbyte) /\ status = {} /\ ier_stat

(* A task that sleeps in WAIT_EVENT without a signal has no event to       *)
(* report.  (A mask changed under it can leave it asleep with events set,  *)
(* and then no further event wakes it.)                                    *)
EventNotMissed ==
    wpc = "wait" /\ ~ioc_event /\ ~remasked => ioc_events = {}
=============================================================================
