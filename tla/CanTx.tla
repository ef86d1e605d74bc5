-------------------------------- MODULE CanTx --------------------------------
(***************************************************************************)
(* Sending on an RT-Socket-CAN device while its controller is started,     *)
(* stopped, put to sleep and goes bus-off: rtcan_raw_sendmsg (rtcan_raw.c),*)
(* rtcan_raw_ioctl_dev_set and _get (rtcan_raw_dev.c), and one of three    *)
(* controllers: the virtual one, the SJA1000, the MSCAN.                   *)
(*                                                                         *)
(* tx_sem is to let one sender at a time to the controller: sendmsg takes  *)
(* a permit, the transmit interrupt gives it back.  A mode change destroys *)
(* and re-initialises tx_sem, drops device_lock while it polls the chip,   *)
(* and rtcan_tx_push works without device_lock; these are the steps that   *)
(* interleave here.  A section under device_lock is one action unless it   *)
(* calls rtdm_sem_up in its middle: then it is two, and `lock' names the   *)
(* holder in between.                                                      *)
(*                                                                         *)
(* The kernel releases a socket only after the last call on it, so no      *)
(* close overlaps a sendmsg on the same socket.                            *)
(***************************************************************************)
EXTENDS CanSja1000, CanMscan

CONSTANTS
    Chips,       \* controllers to check
    Loopers,     \* senders whose socket has loopback enabled
    Requests,    \* ioctls of the control task
    MaxDebt      \* bound: failed sends on a destroyed tx_sem (each leaves count lower)

ASSUME CanTxAssumption ==
    /\ Chips \subseteq {"virt", "sja1000", "mscan"} /\ Loopers \subseteq Senders
    /\ MaxDebt \in Nat /\ IsFiniteSet(Senders)

VARIABLES
    chip,    \* which controller this device has
    dev,     \* the device (module CanDev)
    pc,      \* where each sender is in sendmsg
    lock,    \* holder of device_lock between two actions: "free", "irq" or a sender
    ctl,     \* the control task that has its turn: its position and `started'
    parked,  \* the other control task; "none" until there is one
    upset    \* history: tx_sem and the permits in use may have come apart, or a
             \* bus-off went unnoticed (see OnePermit)

vars == <<chip, dev, pc, lock, ctl, parked, upset>>

(* "slow": tx_sem decremented below 0; "asleep": on its wait queue;        *)
(* "push": a permit is held, before rtcan_tx_push; "xmit": before          *)
(* device_lock; "loop": in the virtual driver, permit given back.          *)
PCs == {"idle", "slow", "asleep", "push", "xmit", "loop"}
CtlPCs == {"idle", "stopping", "starting", "waking", "sleeping"}
Settings == {"CTRLMODE", "BAUDRATE"}
CtlIdle == [pc |-> "idle", started |-> FALSE]
NoTask == [pc |-> "none", started |-> FALSE]

TypeOK ==
    /\ chip \in Chips /\ dev \in Devices /\ pc \in [Senders -> PCs]
    /\ lock \in Senders \cup {"free", "irq"}
    /\ ctl \in [pc : CtlPCs, started : BOOLEAN] /\ upset \in BOOLEAN
    /\ parked \in [pc : CtlPCs \cup {"none"}, started : BOOLEAN]

Init ==
    /\ chip \in Chips /\ dev = InitDev
    /\ pc = [s \in Senders |-> "idle"] /\ lock = "free"
    /\ ctl = CtlIdle /\ parked = NoTask /\ upset = FALSE

Waiting == {s \in Senders : pc[s] \in {"slow", "asleep"}}
Slow == {s \in Senders : pc[s] = "slow"}
Holders == {s \in Senders : pc[s] \in {"push", "xmit"}}
LeftBehind == {s \in Senders : pc[s] = "asleep" /\ s \notin Elements(dev.sem.queue)}

-----------------------------------------------------------------------------
(* rtcan_raw_sendmsg, past its checks: the decrement in rtdm_sem_timeddown *)
Send(s) ==
    /\ pc[s] = "idle" /\ (dev.sem.gone => dev.sem.count > -MaxDebt)
    /\ dev' = [dev EXCEPT !.sem.count = @ - 1]
    /\ pc' = [pc EXCEPT ![s] = IF dev.sem.count > 0 THEN "push" ELSE "slow"]
    /\ UNCHANGED <<chip, lock, ctl, upset, parked>>

(* Leaving the wait queue with result n for the semaphore; the next waiter *)
(* is woken.                                                               *)
Leave(s, n, to) ==
    /\ \E m \in Unlink(n, s, LeftBehind) : dev' = [dev EXCEPT !.sem = WakeFirst(m)]
    /\ pc' = [pc EXCEPT ![s] = to]

(* One turn of the loop in _rtdm_sem_timeddown, with sem->wait.lock held;  *)
(* m is the semaphore with s queued.  It ends in -EIDRM, a permit or       *)
(* another sleep.                                                          *)
Turn(s, m) ==
    LET left == m.count + m.sleepers - 1
    IN  IF m.gone THEN Leave(s, m, "idle")
        ELSE IF left >= 0
        THEN Leave(s, [m EXCEPT !.count = left, !.sleepers = 0], "push")
        ELSE /\ dev' = [dev EXCEPT !.sem = [m EXCEPT !.count = left, !.sleepers = 1,
                                                     !.woken = @ \ {s}]]
             /\ pc' = [pc EXCEPT ![s] = "asleep"]

(* -EIDRM without the lock, -EWOULDBLOCK for MSG_DONTWAIT, or into the loop *)
SlowDown(s) ==
    /\ pc[s] = "slow"
    /\ LET m == dev.sem
       IN  IF m.gone
           THEN pc' = [pc EXCEPT ![s] = "idle"] /\ UNCHANGED dev
           ELSE \/ LET n == [m EXCEPT !.count = @ + m.sleepers + 1, !.sleepers = 0]
                   IN  /\ dev' = [dev EXCEPT !.sem = IF n.count >= 0 THEN WakeFirst(n) ELSE n]
                       /\ pc' = [pc EXCEPT ![s] = "idle"]
                \/ Turn(s, [m EXCEPT !.queue = Append(@, s), !.sleepers = @ + 1])
    /\ UNCHANGED <<chip, lock, ctl, upset, parked>>
Woken(s) ==
    /\ pc[s] = "asleep" /\ s \in dev.sem.woken
    /\ Turn(s, dev.sem)
    /\ UNCHANGED <<chip, lock, ctl, upset, parked>>

(* A signal or the timeout ends the wait. *)
Interrupted(s) ==
    /\ pc[s] = "asleep" /\ ~dev.sem.gone
    /\ Leave(s, [dev.sem EXCEPT !.count = @ + dev.sem.sleepers, !.sleepers = 0], "idle")
    /\ UNCHANGED <<chip, lock, ctl, upset, parked>>

(* rtcan_tx_push, without device_lock *)
Push(s) ==
    /\ pc[s] = "push"
    /\ pc' = [pc EXCEPT ![s] = "xmit"]
    /\ dev' = IF s \in Loopers THEN [dev EXCEPT !.skb = s] ELSE dev
    /\ UNCHANGED <<chip, lock, ctl, upset, parked>>

(* The rest of sendmsg, under device_lock: -ECOMM gives the permit back,   *)
(* -ENETDOWN does not; else hard_start_xmit.                               *)
XmitKeeps(s) ==          \* mutant: no rtdm_sem_up on the -ECOMM path
    /\ pc[s] = "xmit" /\ lock = "free"
    /\ IF ~Operating(dev)
       THEN pc' = [pc EXCEPT ![s] = "idle"] /\ UNCHANGED <<dev, lock>>
       ELSE IF chip = "virt"
       THEN dev' = VirtXmit(dev) /\ pc' = [pc EXCEPT ![s] = "loop"] /\ lock' = s
       ELSE /\ dev' = IF chip = "sja1000" THEN SjaXmit(dev) ELSE MscanXmit(dev)
            /\ pc' = [pc EXCEPT ![s] = "idle"] /\ UNCHANGED lock
    /\ upset' = (upset \/ (ctl.pc = "starting" /\ dev.state \in {"STOPPED", "BUS_OFF"}))
    /\ UNCHANGED <<chip, ctl, parked>>
Xmit(s) ==
    /\ pc[s] = "xmit" /\ lock = "free"
    /\ IF ~Operating(dev)
       THEN /\ dev' = IF dev.state = "SLEEPING" THEN [dev EXCEPT !.sem = SemUp(@)] ELSE dev
            /\ pc' = [pc EXCEPT ![s] = "idle"] /\ UNCHANGED lock
       ELSE IF chip = "virt"
       THEN dev' = VirtXmit(dev) /\ pc' = [pc EXCEPT ![s] = "loop"] /\ lock' = s
       ELSE /\ dev' = IF chip = "sja1000" THEN SjaXmit(dev) ELSE MscanXmit(dev)
            /\ pc' = [pc EXCEPT ![s] = "idle"] /\ UNCHANGED lock
    /\ upset' = (upset \/ (ctl.pc = "starting" /\ dev.state \in {"STOPPED", "BUS_OFF"}))
    /\ UNCHANGED <<chip, ctl, parked>>
Loopback(s) ==
    /\ pc[s] = "loop"
    /\ dev' = VirtLoop(dev) /\ pc' = [pc EXCEPT ![s] = "idle"] /\ lock' = "free"
    /\ UNCHANGED <<chip, ctl, upset, parked>>

-----------------------------------------------------------------------------
(* The controller's steps and interrupts. *)
Sent ==
    /\ chip # "virt"
    /\ \E h \in (IF chip = "sja1000" THEN SjaSent(dev.hw) ELSE MscanSent(dev.hw)) :
         dev' = [dev EXCEPT !.hw = h]
    /\ upset' = (upset \/ (chip = "sja1000" /\ dev.hw.ier # "all"))
    /\ UNCHANGED <<chip, pc, lock, ctl, parked>>
BusChange ==
    /\ chip # "virt"
    /\ \E h \in (IF chip = "sja1000" THEN SjaBus(dev.hw) ELSE MscanBus(dev.hw)) :
         dev' = [dev EXCEPT !.hw = h]
    /\ UNCHANGED <<chip, pc, lock, ctl, upset, parked>>
Reset ==
    /\ chip # "virt"
    /\ \E h \in (IF chip = "sja1000" THEN SjaReset(dev.hw) ELSE MscanReset(dev.hw)) :
         dev' = [dev EXCEPT !.hw = h]
    /\ UNCHANGED <<chip, pc, lock, ctl, upset, parked>>

SjaIrq ==
    /\ chip = "sja1000" /\ lock = "free" /\ dev.hw.ir # {}
    /\ dev' = SjaInterrupt(dev)
    /\ lock' = IF "TI" \in dev.hw.ir THEN "irq" ELSE "free"
    /\ upset' = (upset \/ (Dropped(dev, dev.hw.ir) /\ "EI" \in dev.hw.ir))
    /\ UNCHANGED <<chip, pc, ctl, parked>>
(* The error part stores a state that tx_sem does not follow: operation    *)
(* resumes without a start, or a bus-off that the running mode change      *)
(* overwrites.                                                             *)
StrayState ==
    \/ ~Operating(dev) /\ Operating(dev')
    \/ ctl.pc \in {"starting", "sleeping"} /\ dev'.state = "BUS_OFF"
MscanIrq ==
    /\ chip = "mscan" /\ lock = "free" /\ MscanPending(dev.hw)
    /\ IF MscanTx(dev)
       THEN dev' = MscanTxPart(dev) /\ lock' = "irq"
       ELSE dev' = MscanRest(dev) /\ UNCHANGED lock
    /\ upset' = (upset \/ StrayState \/ (~MscanTx(dev) /\ MscanMissed(dev)))
    /\ UNCHANGED <<chip, pc, ctl, parked>>

(* The second half of a transmit interrupt: rtcan_loopback, if a frame is  *)
(* pending for it, then the rest.                                          *)
IrqLoopback ==
    /\ lock = "irq" /\ lock' = "free"
    /\ LET d == [dev EXCEPT !.skb = None]
       IN  dev' = IF chip = "mscan" THEN MscanRest(d) ELSE d
    /\ upset' = (upset \/ StrayState \/ (chip = "mscan" /\ MscanMissed(dev)))
    /\ UNCHANGED <<chip, pc, ctl, parked>>

EnableBusErr ==
    /\ chip = "sja1000" /\ lock = "free" /\ dev.hw.berr < 2
    /\ dev' = SjaEnableBusErr(dev)
    /\ UNCHANGED <<chip, pc, lock, ctl, upset, parked>>

-----------------------------------------------------------------------------
(* rtcan_raw_ioctl_dev_set.  rtdm_sem_init is harmless only when nobody is *)
(* inside tx_sem or holds its permit.                                      *)
Upsets == Waiting \cup Holders # {} \/ Pending(dev, chip)

Finish == ctl' = CtlIdle
Continue(step, started) == ctl' = [pc |-> step, started |-> started]

(* CAN_MODE_START on device d *)
Start(d, started) ==
    IF Operating(d)
    THEN dev' = d /\ Finish /\ UNCHANGED upset
    ELSE IF chip = "sja1000" /\ d.state = "SLEEPING"
    THEN dev' = SjaWake(d) /\ Continue("waking", started) /\ UNCHANGED upset
    ELSE /\ upset' = (upset \/ Upsets)
         /\ \/ chip = "virt" /\ dev' = VirtStart(d) /\ Finish
            \/ chip = "sja1000" /\ dev' = SjaStart(d) /\ Finish
            \/ chip = "mscan" /\ d.state = "BUS_OFF" /\ dev' = MscanRecover(d) /\ Finish
            \/ /\ chip = "mscan" /\ d.state # "BUS_OFF"
               /\ dev' = MscanStartBegin(d)
               /\ Continue("starting", started)

(* CAN_MODE_STOP on device d *)
Stop(d, started) ==
    \/ /\ chip = "virt"
       /\ IF started
          THEN dev' = VirtStart(VirtStop(d)) /\ upset' = (upset \/ Upsets)
          ELSE dev' = VirtStop(d) /\ UNCHANGED upset
       /\ Finish
    \/ /\ chip = "sja1000"
       /\ IF ResetState(d.state)
          THEN dev' = d /\ Finish
          ELSE dev' = SjaStopBegin(d) /\ Continue("stopping", started)
       /\ UNCHANGED upset
    \/ /\ chip = "mscan"
       /\ IF ~Operating(d)
          THEN dev' = d /\ Finish
          ELSE dev' = MscanStopBegin(d) /\ Continue("stopping", started)
       /\ UNCHANGED upset

(* CAN_MODE_SLEEP on device d; the MSCAN driver disables the transmit      *)
(* interrupt even if a frame is still to be sent.                          *)
Sleep(d) ==
    /\ \/ chip = "virt" /\ dev' = d /\ Finish
       \/ chip = "sja1000" /\ dev' = SjaSleep(d) /\ Finish
       \/ chip = "mscan" /\ ~Operating(d) /\ dev' = d /\ Finish
       \/ chip = "mscan" /\ Operating(d) /\ dev' = MscanSleepBegin(d)
          /\ Continue("sleeping", FALSE)
    /\ upset' = (upset \/ (chip = "mscan" /\ Operating(d) /\ Pending(d, chip)))

(* A setting stops a running controller, stores the control mode or calls  *)
(* do_set_bit_time, and starts it again (`started').  Results are left     *)
(* out; a rate that cannot be had is not refused but goes on with an       *)
(* uninitialised bit_time.                                                 *)
Ioctl(req) ==
    /\ ctl.pc = "idle" /\ lock = "free"
    /\ LET d == IF chip = "sja1000" THEN SjaGetState(dev) ELSE dev
       IN  \/ req = "START" /\ Start(d, FALSE)
           \/ req = "STOP" /\ Stop(d, FALSE)
           \/ req = "SLEEP" /\ Sleep(d)
           \/ req = "GETSTATE" /\ dev' = d /\ Finish /\ UNCHANGED upset
           \/ req \in Settings /\ chip = "virt" /\ req # "CTRLMODE"
              /\ dev' = dev /\ Finish /\ UNCHANGED upset
           \/ req \in Settings /\ (chip # "virt" \/ req = "CTRLMODE")
              /\ IF Operating(d) THEN Stop(d, TRUE)
                 ELSE dev' = d /\ Finish /\ UNCHANGED upset
    /\ UNCHANGED <<chip, pc, lock, parked>>

(* The reset bit is read as set; a setting goes on to the restart. *)
StopDoneStays ==      \* mutant: the setting is not followed by a restart
    /\ ctl.pc = "stopping" /\ lock = "free" /\ dev.hw.rm
    /\ dev' = IF chip = "sja1000" THEN SjaStopDone(dev) ELSE MscanStopDone(dev)
    /\ Finish /\ UNCHANGED upset
    /\ UNCHANGED <<chip, pc, lock, parked>>
StopDone ==
    /\ ctl.pc = "stopping" /\ lock = "free" /\ dev.hw.rm
    /\ LET d == IF chip = "sja1000" THEN SjaStopDone(dev) ELSE MscanStopDone(dev)
       IN  IF ctl.started THEN Start(d, TRUE)
           ELSE dev' = d /\ Finish /\ UNCHANGED upset
    /\ UNCHANGED <<chip, pc, lock, parked>>

(* SJA1000 only: -EAGAIN after 50 reads.  For a setting CAN_MODE_START     *)
(* follows, which does nothing in an operating state.                      *)
StopFails ==
    /\ ctl.pc = "stopping" /\ chip = "sja1000" /\ lock = "free" /\ ~dev.hw.rm
    /\ dev' = SjaStopFails(dev) /\ Finish /\ upset' = TRUE
    /\ UNCHANGED <<chip, pc, lock, parked>>

(* The ends of the other waits with device_lock dropped *)
StartDone ==
    /\ ctl.pc = "starting" /\ lock = "free"
    /\ dev' = MscanStartDone(dev) /\ Finish
    /\ UNCHANGED <<chip, pc, lock, upset, parked>>
WakeDone ==
    /\ ctl.pc = "waking" /\ lock = "free"
    /\ Finish
    /\ UNCHANGED <<chip, dev, pc, lock, upset, parked>>
SleepDone ==
    /\ ctl.pc = "sleeping" /\ lock = "free"
    /\ \E acked \in BOOLEAN : dev' = MscanSleepDone(dev, acked)
    /\ Finish
    /\ UNCHANGED <<chip, pc, lock, upset, parked>>

(* Device ioctls are serialised only by device_lock: while one of them     *)
(* polls, another task enters the next, or gets on with its own.           *)
Overlap ==
    /\ lock = "free" /\ (ctl.pc # "idle" \/ parked.pc \notin {"idle", "none"})
    /\ ctl' = IF parked.pc = "none" THEN CtlIdle ELSE parked
    /\ parked' = ctl /\ upset' = TRUE
    /\ UNCHANGED <<chip, dev, pc, lock>>

-----------------------------------------------------------------------------
Step(s) == SlowDown(s) \/ Woken(s) \/ Push(s) \/ Xmit(s) \/ Loopback(s)
Next ==
    \/ \E s \in Senders : Send(s) \/ Step(s) \/ Interrupted(s)
    \/ Sent \/ BusChange \/ Reset \/ SjaIrq \/ MscanIrq \/ IrqLoopback \/ EnableBusErr
    \/ \E req \in Requests : Ioctl(req)
    \/ StopDone \/ StopFails \/ StartDone \/ WakeDone \/ SleepDone \/ Overlap

Spec == Init /\ [][Next]_vars

(* Bound of the passing run: nothing is followed past an upset. *)
Settled == ~upset

-----------------------------------------------------------------------------
(* While the controller operates and no mode change is under way, there is *)
(* exactly one permit: free in tx_sem, in the hands of one sender, or with *)
(* the frame in the controller.  No path through sendmsg, the interrupt    *)
(* handlers, sleep and wake-up, bus-off and restart loses or doubles it,   *)
(* except those counted in `upset': rtdm_sem_init under senders or a frame *)
(* still to be sent, an SJA1000 error dropped with an unwanted bus error,  *)
(* an SJA1000 stop that fails, a frame sent during bus-off recovery, two   *)
(* mode changes that overlap, and on the MSCAN sleep with a frame pending, *)
(* a send while a start polls, states stored by the interrupt handler      *)
(* across a mode change, and a bus-off that coincides with an overrun.     *)
OnePermit ==
    ~upset /\ Operating(dev) /\ ctl.pc = "idle" =>
        dev.sem.count + dev.sem.sleepers + Cardinality(Slow)
            + Cardinality(Holders) + InFlight(dev, chip) = 1

(* Changing the bit timing or the control mode of a running controller     *)
(* stops it; whatever interrupts happen while device_lock is dropped, it   *)
(* runs again when the ioctl returns, unless another task issued an ioctl  *)
(* of its own while one was polling.                                       *)
SettingsKeepRunning ==
    [][parked'.pc = "none" /\ ctl.started /\ ctl.pc \in {"stopping", "starting"}
          /\ ctl'.pc = "idle" => Operating(dev')]_vars

AllWoken == \A s \in Senders : pc[s] = "asleep" => s \in dev.sem.woken

(* The controller is bus-off and has no report of it left to give; a stop  *)
(* that is under way will see to the senders itself.                       *)
OffTold ==
    /\ chip # "virt" /\ dev.hw.bus = "off" /\ dev.hw.ir \cap {"EI", "CSC"} = {}
    /\ "stopping" \notin {ctl.pc, parked.pc}

(* No sender sleeps on through a stop or a bus-off: while the device is    *)
(* stopped or bus-off and is not being started, and as soon as the chip's  *)
(* report of a bus-off has been handled, every task that waits for its     *)
(* permit is woken, to return -ENETDOWN, including one that was entering   *)
(* the queue meanwhile and whatever was raised with the report.            *)
StopWakesAll ==
    /\ ~upset
    /\ OffTold \/ (dev.state \in {"STOPPED", "BUS_OFF"} /\ ctl.pc # "starting")
    => AllWoken

(* rtcan.h: "If an interface goes down (due to bus-off or setting of stop  *)
(* mode) all senders that were blocked on this interface will be woken     *)
(* up."  The SJA1000 driver drops the report of a bus-off with a bus error *)
(* that nobody asked for, the MSCAN driver that which coincides with an    *)
(* overrun of its receive buffers.                                         *)
BusOffWakesAll == OffTold => AllWoken

(* rtcan_raw.c:170: rtcan_tx_push asserts that the device's TX skb is not  *)
(* in use.                                                                 *)
TxSkbFree == \A s \in Loopers : pc[s] = "push" => dev.skb = None
=============================================================================
