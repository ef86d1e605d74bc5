-------------------------------- MODULE CanDev --------------------------------
(***************************************************************************)
(* The rtcan device structure (drivers/can/rtcan_dev.h), its tx_sem, and   *)
(* the virtual controller (rtcan_virt.c).  The chip modules CanSja1000 and *)
(* CanMscan work on the same record; CanTx holds it in a variable.         *)
(*                                                                         *)
(* d.state, d.before   state, state_before_sleep                           *)
(* d.sem               tx_sem: count, sleepers, RTDM_EVENT_DESTROY (gone), *)
(*                     the wait queue, and the tasks woken from it         *)
(* d.skb               tx_socket: whose frame tx_skb holds                 *)
(* d.hw                the controller (external, from how the code uses    *)
(*                     it): the TX buffer, pending and enabled interrupts, *)
(*                     reset requested / in reset, asleep, the error level *)
(*                     of the bus, and for the SJA1000 the armed error     *)
(*                     code capture and the driver's bus_err_on            *)
(***************************************************************************)
EXTENDS Integers, Sequences, FiniteSets

CONSTANT Senders     \* tasks inside sendmsg, each with a socket of its own

None == "none"
OperatingStates == {"ACTIVE", "BUS_WARNING", "BUS_PASSIVE"}
DevStates == OperatingStates \cup {"BUS_OFF", "STOPPED", "SLEEPING"}
Operating(d) == d.state \in OperatingStates          \* CAN_STATE_OPERATING

(* The values of the device record *)
Sems == [count : Int, sleepers : Nat, gone : BOOLEAN, queue : Seq(Senders),
         woken : SUBSET Senders]
Buses == {"ok", "warning", "passive", "off", "recovering"}
Bits == {"TI", "EI", "EPI", "BEI", "WUI", "CSC", "OVR", "WUP"}
Controllers ==
    [buf : {"free", "busy", "lost"}, ir : SUBSET Bits, ier : {"none", "EI", "wup", "all"},
     tie : BOOLEAN, req : BOOLEAN, rm : BOOLEAN, asleep : BOOLEAN, bus : Buses,
     ecc : BOOLEAN, berr : 0..2]
Devices == [state : DevStates, before : OperatingStates, skb : Senders \cup {None},
            hw : Controllers, sem : Sems]

-----------------------------------------------------------------------------
(* tx_sem, as in module RtdmSem; each of its sections is one step here.    *)
SemInit(m) == [m EXCEPT !.count = 1, !.sleepers = 0, !.gone = FALSE, !.queue = <<>>]

Elements(q) == {q[i] : i \in 1..Len(q)}
WakeFirst(m) ==
    LET asleep == {i \in 1..Len(m.queue) : m.queue[i] \notin m.woken}
    IN  IF asleep = {} THEN m
        ELSE [m EXCEPT !.woken = @ \cup
                {m.queue[CHOOSE i \in asleep : \A j \in asleep : i <= j]}]
SemUp(m) ==
    LET n == [m EXCEPT !.count = @ + 1]
    IN  IF n.count <= 0 THEN WakeFirst(n) ELSE n

SemDestroy(m) == [m EXCEPT !.gone = TRUE, !.woken = @ \cup Elements(m.queue)]

Dequeue(q, s) ==
    LET k == CHOOSE i \in 1..Len(q) : q[i] = s
    IN  SubSeq(q, 1, k - 1) \o SubSeq(q, k + 1, Len(q))

(* remove_wait_queue.  rtdm_sem_init re-initialises the queue head under   *)
(* the waiters; unlinking one that was left behind writes its stale        *)
(* neighbours into the head, or leaves it alone.                           *)
Unlink(m, s, stale) ==
    IF s \in Elements(m.queue)
    THEN {[m EXCEPT !.queue = Dequeue(@, s), !.woken = @ \ {s}]}
    ELSE {[m EXCEPT !.queue = q, !.woken = @ \ {s}] :
              q \in {m.queue, <<>>} \cup {<<t>> : t \in stale \ {s}}}

-----------------------------------------------------------------------------
(* A controller after its driver's init: stopped, tx_sem destroyed. *)
Hardware == [buf |-> "free", ir |-> {}, ier |-> "none", tie |-> FALSE, req |-> FALSE,
             rm |-> TRUE, asleep |-> FALSE, bus |-> "ok", ecc |-> TRUE, berr |-> 1]
InitDev ==
    [state |-> "STOPPED", before |-> "ACTIVE", skb |-> None, hw |-> Hardware,
     sem |-> [count |-> 0, sleepers |-> 0, gone |-> TRUE, queue |-> <<>>, woken |-> {}]]

(* The frame in the TX buffer ends the wait for an interrupt that brings   *)
(* the permit back.  "lost": the controller gave the frame up at bus-off,  *)
(* which the error interrupt reports.                                      *)
Pending(d, chip) ==
    \/ d.hw.buf = "busy"
    \/ chip = "sja1000" /\ "TI" \in d.hw.ir
    \/ chip = "sja1000" /\ d.hw.buf = "lost" /\ "EI" \in d.hw.ir
    \/ chip = "mscan" /\ d.hw.tie
InFlight(d, chip) == IF Pending(d, chip) THEN 1 ELSE 0

-----------------------------------------------------------------------------
(* rtcan_virt_set_mode; there is no hardware and no sleep mode. *)
VirtStop(d) == [d EXCEPT !.state = "STOPPED", !.sem = SemDestroy(@)]
VirtStart(d) == [d EXCEPT !.state = "ACTIVE", !.sem = SemInit(@)]

(* rtcan_virt_start_xmit: the permit goes back first, then the frame is    *)
(* handed to the other devices and looped back, under device_lock.         *)
VirtXmit(d) == [d EXCEPT !.sem = SemUp(@)]
VirtLoop(d) == IF d.state = "ACTIVE" THEN [d EXCEPT !.skb = None] ELSE d
=============================================================================
