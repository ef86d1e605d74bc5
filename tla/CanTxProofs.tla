----------------------------- MODULE CanTxProofs -----------------------------
(***************************************************************************)
(* Proofs about CanTx for every finite set of senders, every choice of     *)
(* controllers and requests, and every bound.                              *)
(***************************************************************************)
EXTENDS CanTx, FiniteSetTheorems, SequenceTheorems, WellFoundedInduction, TLAPS

-----------------------------------------------------------------------------
(* The inductive invariant.                                                *)

(* Which waits of the control tasks each driver has. *)
CtlOfChip ==
    /\ chip = "virt" => ctl.pc = "idle" /\ dev.hw.buf = "free"
    /\ chip = "sja1000" => ctl.pc \in {"idle", "stopping", "waking"}
    /\ chip = "mscan" => ctl.pc \in {"idle", "stopping", "starting", "sleeping"}
ParkedOfChip ==
    /\ chip = "virt" => parked.pc = "none"
    /\ chip = "sja1000" => parked.pc \in {"none", "idle", "stopping", "waking"}
    /\ chip = "mscan" => parked.pc \in {"none", "idle", "stopping", "starting", "sleeping"}

(* SJA1000, whatever went wrong before: bus-off holds the chip in reset,   *)
(* its error interrupt is read before recovery starts, and a setting that  *)
(* waits for the reset finds the controller operating or bus-off, as long  *)
(* as no other ioctl came in between.                                      *)
SjaBusOff ==
    chip = "sja1000" =>
        /\ dev.hw.bus = "off" => dev.hw.rm
        /\ dev.hw.bus = "recovering" => "EI" \notin dev.hw.ir
        /\ dev.state = "BUS_OFF" => dev.hw.rm /\ "EI" \notin dev.hw.ir
        /\ parked.pc = "none" /\ ctl.started /\ ctl.pc = "stopping" =>
              dev.state \in OperatingStates \cup {"BUS_OFF"}

(* Every sleeping sender is in the wait queue, and is woken once tx_sem is *)
(* destroyed.                                                              *)
AsleepQueued ==
    ~upset => \A s \in Senders : pc[s] = "asleep" => s \in Elements(dev.sem.queue)
GoneWakes ==
    ~upset /\ dev.sem.gone => \A s \in Senders : pc[s] = "asleep" => s \in dev.sem.woken

(* tx_sem is destroyed exactly while the controller is stopped or bus-off, *)
(* except that the MSCAN driver sets it up before the controller starts.   *)
GoneExact ==
    ~upset =>
        /\ ctl.pc # "starting" => (dev.sem.gone <=> dev.state \in {"STOPPED", "BUS_OFF"})
        /\ ctl.pc = "starting" => ~dev.sem.gone /\ dev.state \in {"STOPPED", "SLEEPING"}
        /\ ctl.pc = "sleeping" => Operating(dev)

(* The SJA1000 driver and its chip: in reset mode nothing is pending but   *)
(* the bus-off, with or without the bus error that led there, and while    *)
(* tx_sem is in use every frame in the controller has an interrupt to come *)
(* that ends the wait for it.                                              *)
SjaLive ==
    /\ dev.hw.ier \in {"all", "EI"} /\ ~dev.hw.req
    /\ dev.hw.rm => "EI" \in dev.hw.ir /\ dev.hw.bus = "off"
    /\ dev.hw.buf = "lost" => dev.hw.rm
    /\ ~(dev.hw.buf = "busy" /\ "TI" \in dev.hw.ir)
SjaExact ==
    ~upset /\ chip = "sja1000" =>
        /\ dev.hw.rm => /\ dev.hw.ir \subseteq {"EI", "BEI"}
                        /\ dev.hw.ir # {} => "EI" \in dev.hw.ir /\ dev.hw.bus = "off"
        /\ dev.state = "STOPPED" => dev.hw.rm
        /\ dev.state = "BUS_OFF" => dev.hw.buf # "lost" /\ dev.hw.ier = "EI"
        /\ ~dev.sem.gone /\ ctl.pc # "stopping" => SjaLive

(* The MSCAN driver and its chip: initialisation mode is entered only by a *)
(* stop and left only by a start, and a frame in the TX buffer keeps its   *)
(* transmit interrupt enabled.                                             *)
MscanExact ==
    ~upset /\ chip = "mscan" =>
        /\ dev.hw.buf = "busy" => dev.hw.tie
        /\ dev.hw.req => ctl.pc = "stopping"
        /\ dev.hw.rm => ~dev.hw.req /\ dev.hw.ir = {} /\ ~dev.hw.asleep
        /\ ctl.pc # "stopping" /\ dev.state # "STOPPED" => ~dev.hw.rm

(* A bus-off of the MSCAN has destroyed tx_sem once it is acknowledged;    *)
(* initialisation mode clears it, and the chip is in initialisation mode   *)
(* while the device is stopped.                                            *)
MscanOff ==
    ~upset /\ chip = "mscan" =>
        /\ dev.hw.bus = "off" /\ "CSC" \notin dev.hw.ir => dev.sem.gone
        /\ dev.hw.rm => dev.hw.bus = "ok"
        /\ dev.state = "STOPPED" => dev.hw.rm

(* tx_sem by itself never owes a permit, and with the permits in use there *)
(* is one.                                                                 *)
Free == dev.sem.count + dev.sem.sleepers + Cardinality(Slow)
Permits ==
    ~upset /\ ~dev.sem.gone /\ ctl.pc # "stopping" =>
        Free >= 0 /\ Free + Cardinality(Holders) + InFlight(dev, chip) = 1

IInv ==
    /\ TypeOK /\ CtlOfChip /\ SjaBusOff
    /\ AsleepQueued /\ GoneWakes
    /\ GoneExact /\ SjaExact /\ MscanExact /\ Permits

(* ParkedOfChip is needed only for Overlap, MscanOff only for WakesAll. *)
FullInv == IInv /\ ParkedOfChip /\ MscanOff

-----------------------------------------------------------------------------
(* The operations of tx_sem.                                               *)

(* A non-empty set of queue positions has a first one. *)
LEMMA First ==
    ASSUME NEW T \in SUBSET Nat, T # {}
    PROVE  \E i \in T : \A j \in T : i <= j
<1>1. PICK x \in T : \A y \in T : ~ (<<y, x>> \in OpToRel(<, Nat))
  BY NatLessThanWellFounded, WFMin
<1>2. \A y \in T : ~ (y < x)
  BY <1>1 DEF OpToRel
<1> QED
  BY <1>2

(* The tasks of a queue, for a queue of senders. *)
LEMMA QueueType ==
    ASSUME NEW q \in Seq(Senders)
    PROVE  Len(q) \in Nat /\ Elements(q) \subseteq Senders
  BY ElementOfSeq, LenProperties DEF Elements

(* A wake_up changes nothing but the set of woken tasks, which grows. *)
LEMMA WakeFirstShape ==
    ASSUME NEW m \in Sems
    PROVE  /\ WakeFirst(m) \in Sems
           /\ WakeFirst(m).count = m.count /\ WakeFirst(m).sleepers = m.sleepers
           /\ WakeFirst(m).gone = m.gone /\ WakeFirst(m).queue = m.queue
           /\ m.woken \subseteq WakeFirst(m).woken
<1> DEFINE asleep == {i \in 1..Len(m.queue) : m.queue[i] \notin m.woken}
           k == CHOOSE i \in asleep : \A j \in asleep : i <= j
<1>1. /\ m.count \in Int /\ m.sleepers \in Nat /\ m.gone \in BOOLEAN
      /\ m.queue \in Seq(Senders) /\ m.woken \in SUBSET Senders
  BY DEF Sems
<1>2. CASE asleep = {}
  <2>1. WakeFirst(m) = m
    BY <1>2 DEF WakeFirst
  <2> QED
    BY <2>1
<1>3. CASE asleep # {}
  <2>1. asleep \in SUBSET Nat
    BY <1>1, QueueType
  <2>2. k \in asleep
    BY <2>1, <1>3, First
  <2>3. m.queue[k] \in Senders
    BY <2>2, <1>1, ElementOfSeq
  <2>4. WakeFirst(m) = [m EXCEPT !.woken = @ \cup {m.queue[k]}]
    BY <1>3 DEF WakeFirst
  <2> HIDE DEF k, asleep
  <2> QED
    BY <1>1, <2>3, <2>4 DEF Sems
<1> QED
  BY <1>2, <1>3

(* rtdm_sem_up adds one permit. *)
LEMMA SemUpShape ==
    ASSUME NEW m \in Sems
    PROVE  /\ SemUp(m) \in Sems
           /\ SemUp(m).count = m.count + 1 /\ SemUp(m).sleepers = m.sleepers
           /\ SemUp(m).gone = m.gone /\ SemUp(m).queue = m.queue
           /\ m.woken \subseteq SemUp(m).woken
<1> DEFINE n == [m EXCEPT !.count = @ + 1]
<1>1. /\ n \in Sems /\ n.count = m.count + 1 /\ n.sleepers = m.sleepers
      /\ n.gone = m.gone /\ n.queue = m.queue /\ n.woken = m.woken
  BY DEF Sems
<1>2. SemUp(m) = IF n.count <= 0 THEN WakeFirst(n) ELSE n
  BY DEF SemUp
<1> HIDE DEF n
<1>3. /\ WakeFirst(n) \in Sems /\ WakeFirst(n).count = n.count
      /\ WakeFirst(n).sleepers = n.sleepers /\ WakeFirst(n).gone = n.gone
      /\ WakeFirst(n).queue = n.queue /\ n.woken \subseteq WakeFirst(n).woken
  BY <1>1, WakeFirstShape
<1> QED
  BY <1>1, <1>2, <1>3

(* rtdm_sem_destroy wakes every queued task. *)
LEMMA SemDestroyShape ==
    ASSUME NEW m \in Sems
    PROVE  /\ SemDestroy(m) \in Sems
           /\ SemDestroy(m).count = m.count /\ SemDestroy(m).sleepers = m.sleepers
           /\ SemDestroy(m).gone = TRUE /\ SemDestroy(m).queue = m.queue
           /\ SemDestroy(m).woken = m.woken \cup Elements(m.queue)
<1>1. /\ m.queue \in Seq(Senders) /\ m.woken \in SUBSET Senders
  BY DEF Sems
<1>2. Elements(m.queue) \subseteq Senders
  BY <1>1, QueueType
<1>3. m.count \in Int /\ m.sleepers \in Nat /\ m.gone \in BOOLEAN
  BY DEF Sems
<1>4. SemDestroy(m) \in Sems
  BY <1>1, <1>2, <1>3 DEF Sems, SemDestroy
<1>5. SemDestroy(m).gone = TRUE
  BY DEF Sems, SemDestroy
<1>6. /\ SemDestroy(m).count = m.count /\ SemDestroy(m).sleepers = m.sleepers
      /\ SemDestroy(m).queue = m.queue
  BY DEF Sems, SemDestroy
<1>7. SemDestroy(m).woken = m.woken \cup Elements(m.queue)
  BY DEF Sems, SemDestroy
<1> QED
  BY <1>4, <1>5, <1>6, <1>7

(* rtdm_sem_init leaves one permit and an empty queue. *)
LEMMA SemInitShape ==
    ASSUME NEW m \in Sems
    PROVE  /\ SemInit(m) \in Sems
           /\ SemInit(m).count = 1 /\ SemInit(m).sleepers = 0
           /\ SemInit(m).gone = FALSE /\ SemInit(m).queue = <<>>
           /\ SemInit(m).woken = m.woken
<1>1. <<>> \in Seq(Senders)
  BY EmptySeq
<1>2. SemInit(m) \in Sems
  <2>1. \A c \in Int, z \in Nat, g \in BOOLEAN, e \in Seq(Senders) :
           [m EXCEPT !.count = c, !.sleepers = z, !.gone = g, !.queue = e] \in Sems
    BY DEF Sems
  <2>2. 1 \in Int /\ 0 \in Nat /\ FALSE \in BOOLEAN
    OBVIOUS
  <2>3. [m EXCEPT !.count = 1, !.sleepers = 0, !.gone = FALSE, !.queue = <<>>] \in Sems
    BY <2>1, <2>2, <1>1, Zenon
  <2> QED
    BY <2>3 DEF SemInit
<1>3. SemInit(m).gone = FALSE
  BY DEF Sems, SemInit
<1>4. /\ SemInit(m).count = 1 /\ SemInit(m).sleepers = 0
      /\ SemInit(m).queue = <<>> /\ SemInit(m).woken = m.woken
  BY DEF Sems, SemInit
<1> QED
  BY <1>2, <1>3, <1>4

(* remove_wait_queue leaves the other tasks in the queue. *)
LEMMA DequeueKeeps ==
    ASSUME NEW q \in Seq(Senders), NEW s \in Elements(q)
    PROVE  /\ Dequeue(q, s) \in Seq(Senders)
           /\ \A u \in Elements(q) : u # s => u \in Elements(Dequeue(q, s))
<1> DEFINE k == CHOOSE i \in 1..Len(q) : q[i] = s
           a == SubSeq(q, 1, k - 1)
           b == SubSeq(q, k + 1, Len(q))
<1>1. k \in 1..Len(q) /\ q[k] = s
  BY DEF Elements
<1>2. Len(q) \in Nat /\ \A i \in 1..Len(q) : q[i] \in Senders
  BY LenProperties, ElementOfSeq
<1> HIDE DEF k
<1>3. /\ a \in Seq(Senders) /\ Len(a) = k - 1
      /\ \A i \in 1..(k - 1) : a[i] = q[i]
  <2>1. k - 1 \in Int /\ \A i \in 1..(k - 1) : q[i] \in Senders
    BY <1>1, <1>2
  <2>2. /\ SubSeq(q, 1, k - 1) \in Seq(Senders)
        /\ Len(SubSeq(q, 1, k - 1)) = IF 1 <= k - 1 THEN k - 1 - 1 + 1 ELSE 0
        /\ \A i \in 1..(k - 1 - 1 + 1) : SubSeq(q, 1, k - 1)[i] = q[1 + i - 1]
    BY <2>1, SubSeqProperties
  <2> QED
    BY <2>2, <1>1, <1>2
<1>4. /\ b \in Seq(Senders) /\ Len(b) = Len(q) - k
      /\ \A i \in 1..(Len(q) - k) : b[i] = q[k + i]
  <2>1. k + 1 \in Int /\ Len(q) \in Int /\ \A i \in (k + 1)..Len(q) : q[i] \in Senders
    BY <1>1, <1>2
  <2>2. /\ SubSeq(q, k + 1, Len(q)) \in Seq(Senders)
        /\ Len(SubSeq(q, k + 1, Len(q))) = IF k + 1 <= Len(q) THEN Len(q) - (k + 1) + 1 ELSE 0
        /\ \A i \in 1..(Len(q) - (k + 1) + 1) :
              SubSeq(q, k + 1, Len(q))[i] = q[(k + 1) + i - 1]
    BY <2>1, SubSeqProperties
  <2> QED
    BY <2>2, <1>1, <1>2
<1>5. Dequeue(q, s) = a \o b
  BY DEF Dequeue, k
<1> DEFINE d == a \o b
<1> HIDE DEF a, b
<1>6. /\ d \in Seq(Senders) /\ Len(d) = Len(a) + Len(b)
      /\ \A i \in 1..(Len(a) + Len(b)) : d[i] = IF i <= Len(a) THEN a[i] ELSE b[i - Len(a)]
  BY <1>3, <1>4, ConcatProperties
<1> HIDE DEF d
<1>7. ASSUME NEW i \in 1..Len(q), i # k
      PROVE  q[i] \in Elements(d)
  <2>1. CASE i < k
    <3>0. i \in 1..Len(a) /\ i \in 1..Len(d) /\ i \in 1..(Len(a) + Len(b))
      BY <2>1, <1>1, <1>2, <1>3, <1>4, <1>6
    <3>1. i \in 1..Len(d) /\ d[i] = q[i]
      BY <2>1, <3>0, <1>3, <1>6
    <3> QED
      BY <3>1 DEF Elements
  <2>2. CASE i > k
    <3>1. i - k \in 1..(Len(q) - k) /\ i - 1 \in 1..Len(d) /\ i - 1 - Len(a) = i - k
      BY <2>2, <1>1, <1>2, <1>3, <1>4, <1>6
    <3>2. b[i - k] = q[k + (i - k)]
      BY <3>1, <1>4
    <3>4. ~(i - 1 <= Len(a)) /\ i - 1 \in 1..(Len(a) + Len(b))
      BY <3>1, <2>2, <1>1, <1>2, <1>3, <1>6
    <3>5. d[i - 1] = b[i - k]
      BY <3>1, <3>4, <1>6
    <3>3. k + (i - k) = i
      BY <1>1, <1>2
    <3> QED
      BY <3>1, <3>2, <3>3, <3>5 DEF Elements
  <2> QED
    BY <1>7, <2>1, <2>2, <1>1, <1>2
<1>8. ASSUME NEW u \in Elements(q), u # s PROVE u \in Elements(d)
  <2>1. PICK i \in 1..Len(q) : q[i] = u
    BY DEF Elements
  <2> QED
    BY <2>1, <1>1, <1>7, <1>8
<1>9. Dequeue(q, s) = d
  BY <1>5 DEF d
<1> QED
  BY <1>6, <1>8, <1>9

(* Leaving the queue: whatever the stale links do, only the queue and the  *)
(* woken tasks change; a task that was queued is unlinked alone.           *)
LEMMA UnlinkShape ==
    ASSUME NEW m \in Sems, NEW s \in Senders, NEW stale \in SUBSET Senders,
           NEW n \in Unlink(m, s, stale)
    PROVE  /\ n \in Sems
           /\ n.count = m.count /\ n.sleepers = m.sleepers /\ n.gone = m.gone
           /\ n.woken = m.woken \ {s}
           /\ s \in Elements(m.queue) =>
                 \A u \in Elements(m.queue) : u # s => u \in Elements(n.queue)
<1>1. /\ m.count \in Int /\ m.sleepers \in Nat /\ m.gone \in BOOLEAN
      /\ m.queue \in Seq(Senders) /\ m.woken \in SUBSET Senders
  BY DEF Sems
<1>2. CASE s \in Elements(m.queue)
  <2>1. n = [m EXCEPT !.queue = Dequeue(@, s), !.woken = @ \ {s}]
    BY <1>2 DEF Unlink
  <2>2. /\ Dequeue(m.queue, s) \in Seq(Senders)
        /\ \A u \in Elements(m.queue) : u # s => u \in Elements(Dequeue(m.queue, s))
    BY <1>1, <1>2, DequeueKeeps
  <2>3. n = [count |-> m.count, sleepers |-> m.sleepers, gone |-> m.gone,
             queue |-> Dequeue(m.queue, s), woken |-> m.woken \ {s}]
    BY <2>1 DEF Sems
  <2> QED
    BY <1>1, <2>2, <2>3 DEF Sems
<1>3. CASE s \notin Elements(m.queue)
  <2>1. PICK q \in {m.queue, <<>>} \cup {<<t>> : t \in stale \ {s}} :
            n = [m EXCEPT !.queue = q, !.woken = @ \ {s}]
    BY <1>3 DEF Unlink
  <2>2. q \in Seq(Senders)
    <3>1. <<>> \in Seq(Senders)
      BY EmptySeq
    <3>2. \A t \in Senders : <<t>> \in Seq(Senders)
      OBVIOUS
    <3> QED
      BY <1>1, <3>1, <3>2
  <2>3. n = [count |-> m.count, sleepers |-> m.sleepers, gone |-> m.gone,
             queue |-> q, woken |-> m.woken \ {s}]
    BY <2>1 DEF Sems
  <2> QED
    BY <1>1, <1>3, <2>2, <2>3 DEF Sems
<1> QED
  BY <1>2, <1>3

-----------------------------------------------------------------------------
(* The drivers' operations on the device record.                           *)

(* What everything but rtdm_sem_init does to tx_sem: the queue stays, and  *)
(* if it is destroyed every queued task is woken.                          *)
Evolves(m, n) ==
    /\ n.queue = m.queue /\ m.woken \subseteq n.woken
    /\ m.gone => n.gone
    /\ n.gone /\ ~m.gone => Elements(m.queue) \subseteq n.woken

(* Nothing, rtdm_sem_up and rtdm_sem_destroy are such steps, and so are    *)
(* two of them.                                                            *)
LEMMA EvolvesSame == ASSUME NEW m PROVE Evolves(m, m)
  BY DEF Evolves
(* rtdm_sem_up *)
LEMMA EvolvesUp == ASSUME NEW m \in Sems PROVE Evolves(m, SemUp(m))
  BY SemUpShape DEF Evolves
(* rtdm_sem_destroy *)
LEMMA EvolvesDestroy == ASSUME NEW m \in Sems PROVE Evolves(m, SemDestroy(m))
  BY SemDestroyShape DEF Evolves
(* one after the other *)
LEMMA EvolvesTrans ==
    ASSUME NEW m, NEW n, NEW o, Evolves(m, n), Evolves(n, o)
    PROVE  Evolves(m, o)
  BY DEF Evolves

(* The parts of a device. *)
LEMMA DeviceParts ==
    ASSUME NEW d \in Devices
    PROVE  /\ d.state \in DevStates /\ d.before \in OperatingStates
           /\ d.skb \in Senders \cup {None} /\ d.hw \in Controllers /\ d.sem \in Sems
           /\ d.hw.ir \subseteq Bits
  BY DEF Devices, Controllers

(* The error part of the interrupt handler of the SJA1000. *)
LEMMA SjaErrorShape ==
    ASSUME NEW d \in Devices, NEW ir \in SUBSET Bits
    PROVE  LET D == SjaError(d, ir) IN
           /\ D \in Devices /\ D.before = d.before /\ D.skb = d.skb
           /\ D.hw.buf = d.hw.buf /\ D.hw.ir = d.hw.ir /\ D.hw.tie = d.hw.tie
           /\ D.hw.req = d.hw.req /\ D.hw.rm = d.hw.rm /\ D.hw.bus = d.hw.bus
           /\ D.state \in OperatingStates \cup {"BUS_OFF", d.state}
           /\ "EI" \in ir /\ d.hw.bus \in {"off", "recovering"} => D.state = "BUS_OFF"
           /\ D.state = "BUS_OFF" /\ d.state # "BUS_OFF" =>
                 "EI" \in ir /\ d.hw.bus \in {"off", "recovering"}
           /\ IF "EI" \in ir /\ D.state = "BUS_OFF"
              THEN D.hw.ier = "EI" /\ D.sem = SemDestroy(d.sem)
              ELSE D.hw.ier \in {d.hw.ier, "all"} /\ D.sem = d.sem
<1> DEFINE st1 == IF "EPI" \in ir THEN AfterEpi(d.state) ELSE d.state
           st2 == IF "EI" \in ir THEN AfterEi(st1, d.hw.bus) ELSE st1
           off == "EI" \in ir /\ st2 = "BUS_OFF"
           recovered == "EI" \in ir /\ d.hw.bus = "ok" /\ st1 # "BUS_WARNING"
           ier == IF off THEN "EI" ELSE IF recovered THEN "all" ELSE d.hw.ier
           ecc == d.hw.ecc \/ "BEI" \in ir
           sem == IF off THEN SemDestroy(d.sem) ELSE d.sem
           D == SjaError(d, ir)
<1>1. /\ d.state \in DevStates /\ d.hw \in Controllers /\ d.sem \in Sems
  BY DeviceParts
<1>2. D = [d EXCEPT !.state = st2, !.hw = [d.hw EXCEPT !.ier = ier, !.ecc = ecc], !.sem = sem]
  BY DEF SjaError, Devices, Controllers
<1>3. /\ st2 \in OperatingStates \cup {"BUS_OFF", d.state} /\ st2 \in DevStates
      /\ "EI" \in ir /\ d.hw.bus \in {"off", "recovering"} => st2 = "BUS_OFF"
      /\ st2 = "BUS_OFF" /\ d.state # "BUS_OFF" =>
            "EI" \in ir /\ d.hw.bus \in {"off", "recovering"}
  BY <1>1 DEF AfterEpi, AfterEi, OperatingStates, DevStates
<1>4. ier \in {"none", "EI", "wup", "all"} /\ ecc \in BOOLEAN
  BY <1>1 DEF Controllers
<1>5. sem \in Sems
  BY <1>1, SemDestroyShape
<1> HIDE DEF st1, st2, recovered, ecc
<1>6. /\ IF off THEN ier = "EI" /\ sem = SemDestroy(d.sem)
         ELSE ier \in {d.hw.ier, "all"} /\ sem = d.sem
  OBVIOUS
<1> HIDE DEF sem, ier, off
<1>7. /\ [d.hw EXCEPT !.ier = ier, !.ecc = ecc] \in Controllers
      /\ LET h == [d.hw EXCEPT !.ier = ier, !.ecc = ecc] IN
           /\ h.buf = d.hw.buf /\ h.ir = d.hw.ir /\ h.tie = d.hw.tie
           /\ h.req = d.hw.req /\ h.rm = d.hw.rm /\ h.bus = d.hw.bus /\ h.ier = ier
  BY <1>1, <1>4 DEF Controllers
<1> DEFINE h == [d.hw EXCEPT !.ier = ier, !.ecc = ecc]
<1> HIDE DEF h
<1>8. /\ D \in Devices /\ D.before = d.before /\ D.skb = d.skb
      /\ D.state = st2 /\ D.hw = h /\ D.sem = sem
  BY <1>1, <1>2, <1>3, <1>5, <1>7 DEF Devices, h
<1>9. off <=> "EI" \in ir /\ D.state = "BUS_OFF"
  BY <1>8 DEF off
<1> HIDE DEF D
<1> QED
  BY <1>3, <1>6, <1>7, <1>8, <1>9 DEF D, h

(* One pass of the interrupt handler of the SJA1000. *)
LEMMA SjaInterruptShape ==
    ASSUME NEW d \in Devices
    PROVE  LET D == SjaInterrupt(d)
               ir == d.hw.ir
           IN
           /\ D \in Devices /\ D.before = d.before /\ D.skb = d.skb
           /\ D.hw.ir = {} /\ D.hw.tie = d.hw.tie
           /\ D.hw.buf = IF d.hw.buf = "lost" /\ "EI" \in ir THEN "free" ELSE d.hw.buf
           /\ D.hw.req = d.hw.req /\ D.hw.rm = d.hw.rm /\ D.hw.bus = d.hw.bus
           /\ D.state \in OperatingStates \cup {"BUS_OFF", d.state}
           /\ D.state = "BUS_OFF" /\ d.state # "BUS_OFF" =>
                 "EI" \in ir /\ d.hw.bus \in {"off", "recovering"}
           /\ "EI" \in ir /\ d.hw.bus \in {"off", "recovering"} /\ ~Dropped(d, ir) =>
                 D.state = "BUS_OFF"
           /\ "EI" \in ir /\ D.state = "BUS_OFF" /\ ~Dropped(d, ir) =>
                 D.hw.ier = "EI" /\ D.sem.gone
           /\ D.state # "BUS_OFF" => D.hw.ier \in {d.hw.ier, "all"} /\ D.sem.gone = d.sem.gone
           /\ D.sem.sleepers = d.sem.sleepers
           /\ D.sem.count = d.sem.count + (IF "TI" \in ir THEN 1 ELSE 0)
           /\ Evolves(d.sem, D.sem)
<1> DEFINE ir == d.hw.ir
           buf == IF d.hw.buf = "lost" /\ "EI" \in ir THEN "free" ELSE d.hw.buf
           d0 == [d EXCEPT !.hw = [d.hw EXCEPT !.ir = {}, !.buf = buf]]
           d1 == IF "WUI" \in ir THEN [d0 EXCEPT !.state = d.before] ELSE d0
           d2 == CountBei(d1, ir)
           err == ir \cap {"EI", "EPI", "BEI"} # {} /\ ~Dropped(d, ir)
           d3 == IF err THEN SjaError(d2, ir) ELSE d2
           D == SjaInterrupt(d)
<1>0. /\ d.state \in DevStates /\ d.hw \in Controllers /\ d.sem \in Sems
      /\ d.before \in OperatingStates /\ ir \in SUBSET Bits
  BY DeviceParts
<1>1. D = IF "TI" \in ir THEN [d3 EXCEPT !.sem = SemUp(@)] ELSE d3
  BY <1>0 DEF SjaInterrupt, Devices, Controllers
<1>2. /\ d0 \in Devices /\ d0.before = d.before /\ d0.skb = d.skb /\ d0.state = d.state
      /\ d0.hw.ir = {} /\ d0.hw.tie = d.hw.tie /\ d0.hw.buf = buf /\ d0.hw.ier = d.hw.ier
      /\ d0.hw.req = d.hw.req /\ d0.hw.rm = d.hw.rm /\ d0.hw.bus = d.hw.bus
      /\ d0.sem = d.sem
  BY <1>0 DEF Devices, Controllers
<1> HIDE DEF d0
<1>3. /\ d1 \in Devices /\ d1.before = d.before /\ d1.skb = d.skb /\ d1.hw = d0.hw
      /\ d1.state \in OperatingStates \cup {d.state} /\ d1.sem = d.sem
  BY <1>0, <1>2 DEF Devices, DevStates
<1> HIDE DEF d1
<1>4. /\ d2 \in Devices /\ d2.before = d.before /\ d2.skb = d.skb
      /\ d2.hw.ir = {} /\ d2.hw.tie = d.hw.tie /\ d2.hw.buf = buf /\ d2.hw.ier = d.hw.ier
      /\ d2.hw.req = d.hw.req /\ d2.hw.rm = d.hw.rm /\ d2.hw.bus = d.hw.bus
      /\ d2.state \in OperatingStates \cup {d.state} /\ d2.sem = d.sem
  BY <1>2, <1>3 DEF CountBei, Devices, Controllers
<1> HIDE DEF d2
<1>5. /\ d3 \in Devices /\ d3.before = d.before /\ d3.skb = d.skb
      /\ d3.hw.ir = {} /\ d3.hw.tie = d.hw.tie /\ d3.hw.buf = buf
      /\ d3.hw.req = d.hw.req /\ d3.hw.rm = d.hw.rm /\ d3.hw.bus = d.hw.bus
      /\ d3.state \in OperatingStates \cup {"BUS_OFF", d.state}
      /\ d3.state = "BUS_OFF" /\ d.state # "BUS_OFF" =>
            "EI" \in ir /\ d.hw.bus \in {"off", "recovering"}
      /\ "EI" \in ir /\ d.hw.bus \in {"off", "recovering"} /\ ~Dropped(d, ir) =>
            d3.state = "BUS_OFF"
      /\ IF "EI" \in ir /\ d3.state = "BUS_OFF" /\ ~Dropped(d, ir)
         THEN d3.hw.ier = "EI" /\ d3.sem = SemDestroy(d.sem)
         ELSE d3.hw.ier \in {d.hw.ier, "all"} /\ d3.sem = d.sem
  <2>1. CASE err
    <3>1. d3 = SjaError(d2, ir)
      BY <2>1
    <3> QED
      BY <1>0, <1>4, <2>1, <3>1, SjaErrorShape DEF OperatingStates
  <2>2. CASE ~err
    <3>1. d3 = d2 /\ ("EI" \in ir => Dropped(d, ir))
      BY <2>2
    <3> QED
      BY <1>4, <3>1 DEF OperatingStates
  <2> QED
    BY <2>1, <2>2
<1> HIDE DEF d3, err, buf
<1>6. /\ d3.sem \in Sems /\ Evolves(d.sem, d3.sem) /\ d3.sem.sleepers = d.sem.sleepers
      /\ d3.sem.count = d.sem.count
      /\ "EI" \in ir /\ d3.state = "BUS_OFF" /\ ~Dropped(d, ir) => d3.sem.gone
      /\ d3.state # "BUS_OFF" => d3.sem.gone = d.sem.gone
  BY <1>0, <1>5, SemDestroyShape, EvolvesSame, EvolvesDestroy
<1>7. CASE "TI" \in ir
  <2>1. /\ SemUp(d3.sem) \in Sems /\ Evolves(d3.sem, SemUp(d3.sem))
        /\ SemUp(d3.sem).count = d3.sem.count + 1
        /\ SemUp(d3.sem).sleepers = d3.sem.sleepers /\ SemUp(d3.sem).gone = d3.sem.gone
    BY <1>6, SemUpShape, EvolvesUp
  <2>2. /\ D \in Devices /\ D.before = d3.before /\ D.skb = d3.skb /\ D.hw = d3.hw
        /\ D.state = d3.state /\ D.sem = SemUp(d3.sem)
    BY <1>1, <1>5, <1>7, <2>1 DEF Devices
  <2>3. Evolves(d.sem, D.sem)
    BY <1>6, <2>1, <2>2, EvolvesTrans
  <2> HIDE DEF D
  <2> QED
    BY <1>5, <1>6, <1>7, <2>1, <2>2, <2>3 DEF D, buf
<1>8. CASE "TI" \notin ir
  <2>1. D = d3
    BY <1>1, <1>8
  <2>2. d3.sem.count = d.sem.count + 0
    BY <1>0, <1>6 DEF Sems
  <2> HIDE DEF D
  <2> QED
    BY <1>5, <1>6, <1>8, <2>1, <2>2 DEF D, buf
<1> QED
  BY <1>7, <1>8

(* Two controllers that agree on all but the TX buffer, the pending        *)
(* interrupts and, for the chip's own steps, reset mode and the bus.       *)
SameSetup(g, h) == g.ier = h.ier /\ g.tie = h.tie /\ g.req = h.req
(* Two devices that differ in nothing but the controller. *)
HwOnly(D, d) ==
    D.state = d.state /\ D.before = d.before /\ D.skb = d.skb /\ D.sem = d.sem

(* Only enabled interrupts become pending. *)
LEMMA LatchShape ==
    ASSUME NEW h \in Controllers, NEW b \in SUBSET Bits
    PROVE  LET g == Latch(h, b) IN
           /\ g \in Controllers /\ SameSetup(g, h)
           /\ g.buf = h.buf /\ g.rm = h.rm /\ g.bus = h.bus /\ g.asleep = h.asleep
           /\ h.ir \subseteq g.ir /\ g.ir \subseteq h.ir \cup b
           /\ h.ier = "all" => g.ir = h.ir \cup b
           /\ h.ier = "EI" => g.ir = h.ir \cup (b \cap {"EI"})
  BY DEF Latch, Controllers, SameSetup

(* The SJA1000 has sent its frame. *)
LEMMA SjaSentShape ==
    ASSUME NEW h \in Controllers, NEW g \in SjaSent(h)
    PROVE  /\ g \in Controllers /\ SameSetup(g, h)
           /\ h.buf = "busy" /\ ~h.rm /\ g.buf = "free" /\ g.rm = h.rm /\ g.bus = h.bus
           /\ h.ir \subseteq g.ir /\ g.ir \subseteq h.ir \cup {"TI"}
           /\ h.ier = "all" => g.ir = h.ir \cup {"TI"}
<1> DEFINE l == Latch(h, {"TI"})
<1>1. {"TI"} \in SUBSET Bits
  BY DEF Bits
<1>2. /\ l \in Controllers /\ SameSetup(l, h)
      /\ l.buf = h.buf /\ l.rm = h.rm /\ l.bus = h.bus
      /\ h.ir \subseteq l.ir /\ l.ir \subseteq h.ir \cup {"TI"}
      /\ h.ier = "all" => l.ir = h.ir \cup {"TI"}
  BY <1>1, LatchShape
<1>3. SjaOnBus(h) /\ h.buf = "busy" /\ g = [l EXCEPT !.buf = "free"]
  BY DEF SjaSent, If
<1> HIDE DEF l
<1> QED
  BY <1>2, <1>3 DEF SjaOnBus, SameSetup, Controllers

(* The SJA1000 enters bus-off: reset mode, the frame is given up, and only *)
(* the error interrupt can be pending.                                     *)
GoesOff(h, g) ==
    /\ h.bus = "passive" /\ g.bus = "off" /\ g.rm
    /\ g.ir \subseteq {"EI", "BEI"} /\ (g.ir # {} => "EI" \in g.ir)
    /\ h.ier \in {"all", "EI"} => "EI" \in g.ir
    /\ g.buf = IF h.buf = "busy" \/ "TI" \in h.ir THEN "lost" ELSE h.buf
(* Any other step of its bus. *)
StaysOn(h, g) ==
    /\ g.rm = h.rm /\ g.buf = h.buf /\ g.bus # "off"
    /\ h.ir \subseteq g.ir /\ g.ir \subseteq h.ir \cup {"EI", "EPI", "BEI", "WUI"}
    /\ g.bus = "recovering" => h.bus = "recovering" /\ ("EI" \in g.ir => "EI" \in h.ir)

(* The bus of the SJA1000 takes one of these steps. *)
LEMMA SjaBusShape ==
    ASSUME NEW h \in Controllers, NEW g \in SjaBus(h), h.bus = "off" => h.rm
    PROVE  /\ g \in Controllers /\ SameSetup(g, h) /\ ~h.rm
           /\ GoesOff(h, g) \/ StaysOn(h, g)
<1>2. CASE \E x \in BusMoves : /\ SjaOnBus(h) /\ x[1] = h.bus
                               /\ g = [Latch(h, {x[3]}) EXCEPT !.bus = x[2]]
  <2>1. PICK x \in BusMoves : /\ SjaOnBus(h) /\ x[1] = h.bus
                              /\ g = [Latch(h, {x[3]}) EXCEPT !.bus = x[2]]
    BY <1>2
  <2>2. x[2] \in {"ok", "warning", "passive"} /\ x[3] \in {"EI", "EPI"}
    BY DEF BusMoves
  <2> DEFINE l == Latch(h, {x[3]})
  <2>3. /\ l \in Controllers /\ SameSetup(l, h)
        /\ l.buf = h.buf /\ l.rm = h.rm /\ l.bus = h.bus
        /\ h.ir \subseteq l.ir /\ l.ir \subseteq h.ir \cup {"EI", "EPI"}
    <3>1. {x[3]} \in SUBSET Bits /\ {x[3]} \subseteq {"EI", "EPI"}
      BY <2>2 DEF Bits
    <3> QED
      BY <3>1, LatchShape
  <2> HIDE DEF l
  <2>4. g = [l EXCEPT !.bus = x[2]]
    BY <2>1 DEF l
  <2>5. /\ g \in Controllers /\ SameSetup(g, h) /\ g.bus = x[2]
        /\ g.buf = h.buf /\ g.rm = h.rm /\ g.ir = l.ir
    BY <2>2, <2>3, <2>4 DEF Controllers, Buses, SameSetup
  <2> QED
    BY <2>1, <2>2, <2>3, <2>5 DEF SjaOnBus, StaysOn
<1>3. CASE \E kept \in {{"EI"}, {"EI", "BEI"}} :
           /\ SjaOnBus(h) /\ h.bus = "passive" /\ ("BEI" \in kept => h.ier = "all")
           /\ g = [Latch(h, {"EI"}) EXCEPT
                     !.bus = "off", !.rm = TRUE, !.ir = @ \cap kept,
                     !.buf = IF @ = "busy" \/ "TI" \in h.ir THEN "lost" ELSE @]
  <2> DEFINE l == Latch(h, {"EI"})
  <2>0. PICK kept \in {{"EI"}, {"EI", "BEI"}} :
           /\ SjaOnBus(h) /\ h.bus = "passive" /\ ("BEI" \in kept => h.ier = "all")
           /\ g = [l EXCEPT !.bus = "off", !.rm = TRUE, !.ir = @ \cap kept,
                            !.buf = IF @ = "busy" \/ "TI" \in h.ir THEN "lost" ELSE @]
    BY <1>3
  <2>1. /\ l \in Controllers /\ SameSetup(l, h)
        /\ l.buf = h.buf /\ l.rm = h.rm /\ l.bus = h.bus
        /\ h.ier \in {"all", "EI"} => "EI" \in l.ir
    <3>1. {"EI"} \in SUBSET Bits
      BY DEF Bits
    <3> QED
      BY <3>1, LatchShape
  <2> HIDE DEF l
  <2>3. \A t \in BOOLEAN :
           [l EXCEPT !.bus = "off", !.rm = t, !.ir = @ \cap kept,
                     !.buf = IF @ = "busy" \/ "TI" \in h.ir THEN "lost" ELSE @] \in Controllers
    BY <2>1 DEF Controllers, Buses
  <2>4. g \in Controllers
    BY <2>0, <2>3, Zenon
  <2>5. g.rm = TRUE
    BY <2>0, <2>1 DEF Controllers
  <2>6. /\ SameSetup(g, h) /\ g.bus = "off" /\ g.ir = l.ir \cap kept
        /\ g.buf = IF h.buf = "busy" \/ "TI" \in h.ir THEN "lost" ELSE h.buf
    BY <2>0, <2>1 DEF Controllers, SameSetup
  <2>7. /\ g.ir \subseteq {"EI", "BEI"} /\ (g.ir # {} => "EI" \in g.ir)
        /\ h.ier \in {"all", "EI"} => "EI" \in g.ir
    BY <2>0, <2>1, <2>6
  <2> QED
    BY <2>0, <2>1, <2>4, <2>5, <2>6, <2>7 DEF GoesOff, SjaOnBus
<1>4. CASE /\ h.bus = "recovering" /\ ~h.rm
           /\ g = [Latch(h, {"EI"}) EXCEPT !.bus = "ok"]
  <2>1. {"EI"} \in SUBSET Bits
    BY DEF Bits
  <2> DEFINE l == Latch(h, {"EI"})
  <2>2. /\ l \in Controllers /\ SameSetup(l, h)
        /\ l.buf = h.buf /\ l.rm = h.rm
        /\ h.ir \subseteq l.ir /\ l.ir \subseteq h.ir \cup {"EI"}
    BY <2>1, LatchShape
  <2> HIDE DEF l
  <2>3. g = [l EXCEPT !.bus = "ok"]
    BY <1>4 DEF l
  <2> QED
    BY <1>4, <2>2, <2>3 DEF Controllers, Buses, SameSetup, StaysOn
<1>5. CASE /\ SjaOnBus(h) /\ g = [Latch(h, {"BEI"}) EXCEPT !.ecc = FALSE]
  <2>1. {"BEI"} \in SUBSET Bits
    BY DEF Bits
  <2> DEFINE l == Latch(h, {"BEI"})
  <2>2. /\ l \in Controllers /\ SameSetup(l, h)
        /\ l.buf = h.buf /\ l.rm = h.rm /\ l.bus = h.bus
        /\ h.ir \subseteq l.ir /\ l.ir \subseteq h.ir \cup {"BEI"}
    BY <2>1, LatchShape
  <2> HIDE DEF l
  <2>3. g = [l EXCEPT !.ecc = FALSE]
    BY <1>5 DEF l
  <2> QED
    BY <1>5, <2>2, <2>3 DEF SjaOnBus, Controllers, Buses, SameSetup, StaysOn
<1>6. CASE /\ h.asleep /\ ~h.rm /\ g = [Latch(h, {"WUI"}) EXCEPT !.asleep = FALSE]
  <2>1. {"WUI"} \in SUBSET Bits
    BY DEF Bits
  <2> DEFINE l == Latch(h, {"WUI"})
  <2>2. /\ l \in Controllers /\ SameSetup(l, h)
        /\ l.buf = h.buf /\ l.rm = h.rm /\ l.bus = h.bus
        /\ h.ir \subseteq l.ir /\ l.ir \subseteq h.ir \cup {"WUI"}
    BY <2>1, LatchShape
  <2> HIDE DEF l
  <2>3. g = [l EXCEPT !.asleep = FALSE]
    BY <1>6 DEF l
  <2>4. g \in Controllers
    BY <2>2, <2>3 DEF Controllers
  <2>5. /\ SameSetup(g, h) /\ g.buf = h.buf /\ g.rm = h.rm /\ g.bus = h.bus
        /\ g.ir = l.ir
    BY <2>2, <2>3 DEF Controllers, SameSetup
  <2> QED
    BY <1>6, <2>2, <2>4, <2>5 DEF StaysOn
<1> QED
  BY <1>2, <1>3, <1>4, <1>5, <1>6 DEF SjaBus, If

(* The SJA1000 obeys a reset request. *)
LEMMA SjaResetShape ==
    ASSUME NEW h \in Controllers, NEW g \in SjaReset(h)
    PROVE  /\ g \in Controllers /\ h.req /\ ~h.rm
           /\ g.ier = h.ier /\ g.tie = h.tie /\ g.bus = h.bus
           /\ g.rm /\ ~g.req /\ g.buf = "free" /\ g.ir = {}
<1>1. /\ h.req /\ ~h.rm
      /\ g = [h EXCEPT !.rm = TRUE, !.req = FALSE, !.buf = "free", !.ir = {}, !.asleep = FALSE]
  BY DEF SjaReset, If
<1>2. \A t, f \in BOOLEAN :
         [h EXCEPT !.rm = t, !.req = f, !.buf = "free", !.ir = {}, !.asleep = f] \in Controllers
  BY DEF Controllers
<1>3. g \in Controllers
  BY <1>1, <1>2, Zenon
<1>4. g.rm = TRUE
  BY <1>1 DEF Controllers
<1>5. g.req = FALSE
  BY <1>1 DEF Controllers
<1> QED
  BY <1>1, <1>3, <1>4, <1>5 DEF Controllers

(* rtcan_sja_is_operating takes a controller in reset for stopped. *)
LEMMA SjaGetStateShape ==
    ASSUME NEW d \in Devices
    PROVE  LET D == SjaGetState(d) IN
           /\ D \in Devices /\ D.before = d.before /\ D.skb = d.skb
           /\ D.hw.buf = d.hw.buf /\ D.hw.ir = d.hw.ir /\ D.hw.tie = d.hw.tie
           /\ D.hw.req = d.hw.req /\ D.hw.rm = d.hw.rm /\ D.hw.bus = d.hw.bus
           /\ IF ~ResetState(d.state) /\ d.hw.rm
              THEN D.state = "STOPPED" /\ D.sem = SemDestroy(d.sem)
              ELSE D = d
<1>1. CASE ~ResetState(d.state) /\ d.hw.rm
  <2> DEFINE m == SemDestroy(d.sem)
             h == [d.hw EXCEPT !.ier = "none"]
  <2>1. SjaGetState(d) = [d EXCEPT !.state = "STOPPED", !.hw = h, !.sem = m]
    BY <1>1 DEF SjaGetState, Devices, Controllers
  <2>2. m \in Sems /\ d.hw \in Controllers
    BY DeviceParts, SemDestroyShape
  <2> HIDE DEF m
  <2>3. /\ h \in Controllers /\ h.buf = d.hw.buf /\ h.ir = d.hw.ir /\ h.tie = d.hw.tie
        /\ h.req = d.hw.req /\ h.rm = d.hw.rm /\ h.bus = d.hw.bus
    BY <2>2 DEF Controllers
  <2> HIDE DEF h
  <2> DEFINE D == SjaGetState(d)
  <2>4. /\ D \in Devices /\ D.before = d.before /\ D.skb = d.skb
        /\ D.state = "STOPPED" /\ D.hw = h /\ D.sem = m
    BY <2>1, <2>2, <2>3 DEF Devices, DevStates
  <2> HIDE DEF D
  <2> QED
    BY <1>1, <2>3, <2>4 DEF D, m
<1>2. CASE ~(~ResetState(d.state) /\ d.hw.rm)
  <2>1. SjaGetState(d) = d
    BY <1>2 DEF SjaGetState
  <2> QED
    BY <1>2, <2>1
<1> QED
  BY <1>1, <1>2

(* rtcan_sja_mode_stop, its begin and its two ends. *)
LEMMA SjaStopShape ==
    ASSUME NEW d \in Devices
    PROVE  /\ SjaStopBegin(d) \in Devices /\ HwOnly(SjaStopBegin(d), d)
           /\ LET g == SjaStopBegin(d).hw
                  h == d.hw
              IN  /\ g.buf = h.buf /\ g.ir = h.ir /\ g.ier = "none" /\ g.tie = h.tie
                  /\ g.req /\ g.rm = h.rm /\ g.bus = h.bus
           /\ SjaStopFails(d) \in Devices /\ HwOnly(SjaStopFails(d), d)
           /\ LET g == SjaStopFails(d).hw
                  h == d.hw
              IN  /\ g.buf = h.buf /\ g.ir = h.ir /\ g.ier = "all" /\ g.tie = h.tie
                  /\ g.req = h.req /\ g.rm = h.rm /\ g.bus = h.bus
<1>1. d.hw \in Controllers
  BY DeviceParts
<1>2. SjaStopBegin(d) = [d EXCEPT !.hw = [d.hw EXCEPT !.ier = "none", !.req = TRUE]]
  BY DEF SjaStopBegin, Devices, Controllers
<1>3. [d.hw EXCEPT !.ier = "none", !.req = TRUE] \in Controllers
  BY <1>1 DEF Controllers
<1>4. SjaStopBegin(d) \in Devices /\ HwOnly(SjaStopBegin(d), d)
  BY <1>2, <1>3 DEF Devices, HwOnly
<1>5. SjaStopBegin(d).hw = [d.hw EXCEPT !.ier = "none", !.req = TRUE]
  BY <1>2, <1>3 DEF Devices
<1>6. SjaStopBegin(d).hw.req = TRUE
  BY <1>1, <1>5 DEF Controllers
<1>7. SjaStopFails(d) = [d EXCEPT !.hw = [d.hw EXCEPT !.ier = "all"]]
  BY DEF SjaStopFails, Devices, Controllers
<1>8. [d.hw EXCEPT !.ier = "all"] \in Controllers
  BY <1>1 DEF Controllers
<1>9. SjaStopFails(d) \in Devices /\ HwOnly(SjaStopFails(d), d)
  BY <1>7, <1>8 DEF Devices, HwOnly
<1>10. SjaStopFails(d).hw = [d.hw EXCEPT !.ier = "all"]
  BY <1>7, <1>8 DEF Devices
<1> QED
  BY <1>1, <1>4, <1>5, <1>6, <1>9, <1>10 DEF Controllers

(* The stop of every driver ends in a stopped device. *)
LEMMA StopDoneShape ==
    ASSUME NEW d \in Devices
    PROVE  \A D \in {SjaStopDone(d), MscanStopDone(d), VirtStop(d)} :
              /\ D \in Devices /\ D.state = "STOPPED" /\ D.hw = d.hw
              /\ D.before = d.before /\ D.skb = d.skb /\ D.sem = SemDestroy(d.sem)
<1> DEFINE m == SemDestroy(d.sem)
<1>1. m \in Sems
  BY DeviceParts, SemDestroyShape
<1>2. \A D \in {SjaStopDone(d), MscanStopDone(d), VirtStop(d)} :
         D = [d EXCEPT !.state = "STOPPED", !.sem = m]
  BY DEF SjaStopDone, MscanStopDone, VirtStop
<1> HIDE DEF m
<1> QED
  BY <1>1, <1>2 DEF Devices, DevStates, m

(* rtcan_sja_mode_start from a reset state. *)
LEMMA SjaStartShape ==
    ASSUME NEW d \in Devices, ResetState(d.state)
    PROVE  LET D == SjaStart(d) IN
           /\ D \in Devices /\ D.state = "ACTIVE" /\ D.sem = SemInit(d.sem)
           /\ D.hw.ir = d.hw.ir /\ ~D.hw.rm /\ ~D.hw.req /\ D.hw.tie = d.hw.tie
           /\ d.state = "STOPPED" =>
                 D.hw.ier = "all" /\ D.hw.bus = "ok" /\ D.hw.buf = "free"
           /\ d.state = "BUS_OFF" =>
                 /\ D.hw.ier = d.hw.ier /\ D.hw.buf = d.hw.buf
                 /\ D.hw.bus = IF d.hw.bus = "off" THEN "recovering" ELSE d.hw.bus
<1> DEFINE m == SemInit(d.sem)
           D == SjaStart(d)
<1>1. d.hw \in Controllers /\ m \in Sems
  BY DeviceParts, SemInitShape
<1> HIDE DEF m
<1>2. CASE d.state = "STOPPED"
  <2> DEFINE h == [d.hw EXCEPT !.ecc = TRUE, !.ier = "all", !.rm = FALSE, !.req = FALSE,
                               !.bus = "ok", !.buf = "free"]
  <2>1. D = [d EXCEPT !.state = "ACTIVE", !.sem = m, !.hw = h]
    BY <1>2 DEF SjaStart, Devices, Controllers, m
  <2>2. h \in Controllers
    <3>1. \A t, f \in BOOLEAN :
             [d.hw EXCEPT !.ecc = t, !.ier = "all", !.rm = f, !.req = f,
                          !.bus = "ok", !.buf = "free"] \in Controllers
      BY <1>1 DEF Controllers, Buses
    <3> QED
      BY <3>1, Zenon
  <2>3. h.rm = FALSE
    BY <1>1 DEF Controllers
  <2>4. h.req = FALSE
    BY <1>1 DEF Controllers
  <2>5. h.ir = d.hw.ir /\ h.tie = d.hw.tie /\ h.ier = "all" /\ h.bus = "ok" /\ h.buf = "free"
    BY <1>1 DEF Controllers
  <2> HIDE DEF h
  <2>6. D \in Devices /\ D.state = "ACTIVE" /\ D.sem = m /\ D.hw = h
    BY <2>1, <2>2, <1>1 DEF Devices, DevStates, OperatingStates
  <2> HIDE DEF D
  <2> QED
    BY <1>2, <2>3, <2>4, <2>5, <2>6 DEF D, m
<1>3. CASE d.state = "BUS_OFF"
  <2> DEFINE bus == IF d.hw.bus = "off" THEN "recovering" ELSE d.hw.bus
             h == [d.hw EXCEPT !.rm = FALSE, !.req = FALSE, !.bus = bus]
  <2>1. D = [d EXCEPT !.state = "ACTIVE", !.sem = m, !.hw = h]
    BY <1>3 DEF SjaStart, Devices, Controllers, m
  <2>2. bus \in Buses
    BY <1>1 DEF Controllers, Buses
  <2> HIDE DEF bus
  <2>3. h \in Controllers
    BY <1>1, <2>2 DEF Controllers
  <2>4. h.rm = FALSE
    BY <1>1 DEF Controllers
  <2>5. h.req = FALSE
    BY <1>1 DEF Controllers
  <2>6. /\ h.ir = d.hw.ir /\ h.tie = d.hw.tie /\ h.ier = d.hw.ier /\ h.bus = bus
        /\ h.buf = d.hw.buf
    BY <1>1 DEF Controllers
  <2> HIDE DEF h
  <2>7. D \in Devices /\ D.state = "ACTIVE" /\ D.sem = m /\ D.hw = h
    BY <2>1, <2>3, <1>1 DEF Devices, DevStates, OperatingStates
  <2> HIDE DEF D
  <2> QED
    BY <1>3, <2>4, <2>5, <2>6, <2>7 DEF D, m, bus
<1> QED
  BY <1>2, <1>3 DEF ResetState

(* The SJA1000 driver ends sleep mode. *)
LEMMA SjaWakeShape ==
    ASSUME NEW d \in Devices
    PROVE  LET D == SjaWake(d) IN
           /\ D \in Devices /\ HwOnly(D, d)
           /\ D.hw.buf = d.hw.buf /\ D.hw.ier = d.hw.ier /\ D.hw.tie = d.hw.tie
           /\ ~D.hw.req /\ D.hw.rm = d.hw.rm /\ D.hw.bus = d.hw.bus
           /\ d.hw.ir \subseteq D.hw.ir /\ D.hw.ir \subseteq d.hw.ir \cup {"WUI"}
<1> DEFINE D == SjaWake(d)
           ir == IF d.hw.asleep /\ d.hw.ier = "all" THEN d.hw.ir \cup {"WUI"} ELSE d.hw.ir
           h == [d.hw EXCEPT !.asleep = FALSE, !.req = FALSE, !.ir = ir]
<1>1. d.hw \in Controllers /\ ir \in SUBSET Bits
  BY DeviceParts DEF Bits
<1>2. D = [d EXCEPT !.hw = h]
  BY DEF SjaWake, Devices, Controllers
<1>3. d.hw.ir \subseteq ir /\ ir \subseteq d.hw.ir \cup {"WUI"}
  OBVIOUS
<1> HIDE DEF ir
<1>4. h \in Controllers
  BY <1>1 DEF Controllers
<1>5. h.req = FALSE
  BY <1>1 DEF Controllers
<1>6. /\ h.buf = d.hw.buf /\ h.ier = d.hw.ier /\ h.tie = d.hw.tie
      /\ h.rm = d.hw.rm /\ h.bus = d.hw.bus /\ h.ir = ir
  BY <1>1 DEF Controllers
<1> HIDE DEF h
<1>7. D \in Devices /\ HwOnly(D, d) /\ D.hw = h
  BY <1>2, <1>4 DEF Devices, HwOnly
<1> HIDE DEF D
<1> QED
  BY <1>3, <1>5, <1>6, <1>7 DEF D

(* CAN_MODE_SLEEP of the SJA1000 driver, on a state it has just read. *)
LEMMA SjaSleepShape ==
    ASSUME NEW d \in Devices, ~ResetState(d.state) => ~d.hw.rm
    PROVE  LET D == SjaSleep(d) IN
           /\ D \in Devices /\ D.skb = d.skb /\ D.sem = d.sem
           /\ D.hw.buf = d.hw.buf /\ D.hw.ir = d.hw.ir /\ D.hw.tie = d.hw.tie
           /\ D.hw.ier = d.hw.ier
           /\ D.hw.req = d.hw.req /\ D.hw.rm = d.hw.rm /\ D.hw.bus = d.hw.bus
           /\ D.state = IF ResetState(d.state) THEN d.state ELSE "SLEEPING"
<1> DEFINE D == SjaSleep(d)
<1>0. d.state \in DevStates /\ d.hw \in Controllers
  BY DeviceParts
<1>1. SjaGetState(d) = d
  BY DEF SjaGetState
<1>2. CASE ResetState(d.state) \/ d.state = "SLEEPING"
  <2>1. D = d
    BY <1>1, <1>2 DEF SjaSleep
  <2> HIDE DEF D
  <2> QED
    BY <1>2, <2>1 DEF D
<1>3. CASE ~(ResetState(d.state) \/ d.state = "SLEEPING")
  <2> DEFINE h == [d.hw EXCEPT !.asleep = TRUE]
  <2>1. D = [d EXCEPT !.before = d.state, !.state = "SLEEPING", !.hw = h]
    BY <1>1, <1>3 DEF SjaSleep, Devices, Controllers
  <2>2. d.state \in OperatingStates
    BY <1>0, <1>3 DEF ResetState, DevStates
  <2>3. h \in Controllers
    BY <1>0 DEF Controllers
  <2>4. /\ h.buf = d.hw.buf /\ h.ir = d.hw.ir /\ h.tie = d.hw.tie /\ h.ier = d.hw.ier
        /\ h.req = d.hw.req /\ h.rm = d.hw.rm /\ h.bus = d.hw.bus
    BY <1>0 DEF Controllers
  <2> HIDE DEF h
  <2>5. /\ D \in Devices /\ D.skb = d.skb /\ D.sem = d.sem /\ D.hw = h
        /\ D.state = "SLEEPING"
    BY <2>1, <2>2, <2>3 DEF Devices, DevStates
  <2> HIDE DEF D
  <2> QED
    BY <1>3, <2>4, <2>5 DEF D
<1> QED
  BY <1>2, <1>3

(* rtcan_sja_start_xmit *)
LEMMA SjaXmitShape ==
    ASSUME NEW d \in Devices
    PROVE  LET D == SjaXmit(d) IN
           /\ D \in Devices /\ HwOnly(D, d) /\ SameSetup(D.hw, d.hw)
           /\ D.hw.ir = d.hw.ir /\ D.hw.rm = d.hw.rm /\ D.hw.bus = d.hw.bus
           /\ D.hw.buf = IF d.hw.rm THEN "lost" ELSE "busy"
<1> DEFINE b == IF d.hw.rm THEN "lost" ELSE "busy"
           h == [d.hw EXCEPT !.buf = b]
<1>1. d.hw \in Controllers
  BY DeviceParts
<1>2. SjaXmit(d) = [d EXCEPT !.hw = h]
  BY DEF SjaXmit, Devices, Controllers
<1>3. /\ h \in Controllers /\ SameSetup(h, d.hw)
      /\ h.ir = d.hw.ir /\ h.rm = d.hw.rm /\ h.bus = d.hw.bus /\ h.buf = b
  BY <1>1 DEF Controllers, SameSetup
<1> HIDE DEF h
<1> QED
  BY <1>2, <1>3 DEF Devices, HwOnly

(* rtcan_sja_enable_bus_err *)
LEMMA SjaEnableBusErrShape ==
    ASSUME NEW d \in Devices
    PROVE  LET D == SjaEnableBusErr(d) IN
           /\ D \in Devices /\ HwOnly(D, d) /\ SameSetup(D.hw, d.hw)
           /\ D.hw.ir = d.hw.ir /\ D.hw.rm = d.hw.rm /\ D.hw.bus = d.hw.bus
           /\ D.hw.buf = d.hw.buf
<1> DEFINE e == d.hw.ecc \/ d.hw.berr < 1
           h == [d.hw EXCEPT !.ecc = e, !.berr = 2]
<1>1. d.hw \in Controllers /\ e \in BOOLEAN
  BY DeviceParts DEF Controllers
<1>2. SjaEnableBusErr(d) = [d EXCEPT !.hw = h]
  BY DEF SjaEnableBusErr, Devices, Controllers
<1> HIDE DEF e
<1>3. h \in Controllers
  <2>1. \A r \in 0..2 : [d.hw EXCEPT !.ecc = e, !.berr = r] \in Controllers
    BY <1>1 DEF Controllers
  <2>2. 2 \in 0..2
    OBVIOUS
  <2> QED
    BY <2>1, <2>2, Zenon
<1>4. /\ SameSetup(h, d.hw) /\ h.ir = d.hw.ir /\ h.rm = d.hw.rm /\ h.bus = d.hw.bus
      /\ h.buf = d.hw.buf
  BY <1>1 DEF Controllers, SameSetup
<1> HIDE DEF h
<1> QED
  BY <1>2, <1>3, <1>4 DEF Devices, HwOnly

(* rtcan_virt_set_mode and rtcan_virt_start_xmit *)
LEMMA VirtShape ==
    ASSUME NEW d \in Devices
    PROVE  /\ VirtStart(d) \in Devices /\ VirtStart(d).state = "ACTIVE"
           /\ VirtStart(d).hw = d.hw /\ VirtStart(d).sem = SemInit(d.sem)
           /\ VirtXmit(d) \in Devices /\ VirtXmit(d).state = d.state
           /\ VirtXmit(d).hw = d.hw /\ VirtXmit(d).sem = SemUp(d.sem)
           /\ VirtLoop(d) \in Devices /\ VirtLoop(d).state = d.state
           /\ VirtLoop(d).hw = d.hw /\ VirtLoop(d).sem = d.sem
<1> DEFINE i == SemInit(d.sem)
           u == SemUp(d.sem)
<1>1. i \in Sems /\ u \in Sems
  BY DeviceParts, SemInitShape, SemUpShape
<1>2. /\ VirtStart(d) = [d EXCEPT !.state = "ACTIVE", !.sem = i]
      /\ VirtXmit(d) = [d EXCEPT !.sem = u]
      /\ VirtLoop(d) = IF d.state = "ACTIVE" THEN [d EXCEPT !.skb = None] ELSE d
  BY DEF VirtStart, VirtXmit, VirtLoop
<1> HIDE DEF i, u
<1>3. /\ VirtStart(d) \in Devices /\ VirtStart(d).state = "ACTIVE"
      /\ VirtStart(d).hw = d.hw /\ VirtStart(d).sem = i
  BY <1>1, <1>2 DEF Devices, DevStates, OperatingStates
<1>4. /\ VirtXmit(d) \in Devices /\ VirtXmit(d).state = d.state
      /\ VirtXmit(d).hw = d.hw /\ VirtXmit(d).sem = u
  BY <1>1, <1>2 DEF Devices
<1>5. /\ VirtLoop(d) \in Devices /\ VirtLoop(d).state = d.state
      /\ VirtLoop(d).hw = d.hw /\ VirtLoop(d).sem = d.sem
  BY <1>2 DEF Devices
<1> QED
  BY <1>3, <1>4, <1>5 DEF i, u

(* A change of state that the MSCAN interrupt sees: no overrun came with it. *)
Seen(h) == "CSC" \in h.ir /\ "OVR" \notin h.ir

(* The interrupt handler of the MSCAN after its transmit part. *)
LEMMA MscanRestShape ==
    ASSUME NEW d \in Devices
    PROVE  LET D == MscanRest(d) IN
           /\ D \in Devices /\ D.before = d.before /\ D.skb = d.skb
           /\ D.hw.ir = {} /\ D.hw.buf = d.hw.buf /\ D.hw.tie = d.hw.tie
           /\ D.hw.req = d.hw.req /\ D.hw.rm = d.hw.rm /\ D.hw.asleep = d.hw.asleep
           /\ D.hw.bus = d.hw.bus
           /\ ~Seen(d.hw) => D.state = d.state
           /\ Seen(d.hw) => /\ D.state \in OperatingStates \cup {"BUS_OFF"}
                            /\ d.hw.bus = "off" => D.state = "BUS_OFF"
           /\ IF Seen(d.hw) /\ D.state = "BUS_OFF"
              THEN D.sem = SemDestroy(d.sem) ELSE D.sem = d.sem
<1> DEFINE D == MscanRest(d)
<1>1. d.hw \in Controllers /\ d.sem \in Sems
  BY DeviceParts
<1>2. CASE ~Seen(d.hw)
  <2> DEFINE h == [d.hw EXCEPT !.ir = {}]
  <2>1. D = [d EXCEPT !.hw = h]
    <3>1. d.hw.ir \cap {"CSC", "OVR"} # {} => MscanError(d) = d
      BY <1>2 DEF MscanError, Seen
    <3>2. D = [d EXCEPT !.hw.ir = {}]
      BY <3>1 DEF MscanRest
    <3> QED
      BY <3>2 DEF Devices, Controllers
  <2>2. /\ h \in Controllers /\ h.ir = {} /\ h.buf = d.hw.buf /\ h.tie = d.hw.tie
        /\ h.req = d.hw.req /\ h.rm = d.hw.rm /\ h.asleep = d.hw.asleep
        /\ h.bus = d.hw.bus
    BY <1>1 DEF Controllers
  <2> HIDE DEF h
  <2>3. /\ D \in Devices /\ D.before = d.before /\ D.skb = d.skb /\ D.hw = h
        /\ D.state = d.state /\ D.sem = d.sem
    BY <2>1, <2>2 DEF Devices
  <2> HIDE DEF D
  <2> QED
    BY <1>2, <2>2, <2>3 DEF D
<1>3. CASE Seen(d.hw)
  <2> DEFINE st == StatMap(d.hw.bus)
             ier == IF st = "BUS_OFF" THEN "none" ELSE d.hw.ier
             m == IF st = "BUS_OFF" THEN SemDestroy(d.sem) ELSE d.sem
             h == [d.hw EXCEPT !.ier = ier, !.ir = {}]
  <2>1. D = [d EXCEPT !.state = st, !.hw = h, !.sem = m]
    <3>1. D = [MscanStateChange(d) EXCEPT !.hw.ir = {}]
      BY <1>3 DEF MscanRest, MscanError, Seen
    <3> QED
      BY <3>1 DEF MscanStateChange, Devices, Controllers
  <2>2. /\ st \in OperatingStates \cup {"BUS_OFF"}
        /\ d.hw.bus = "off" => st = "BUS_OFF"
    BY <1>1 DEF StatMap, OperatingStates, Controllers, Buses
  <2>3. m \in Sems /\ ier \in {"none", "EI", "wup", "all"}
    BY <1>1, SemDestroyShape DEF Controllers
  <2>4. m = IF st = "BUS_OFF" THEN SemDestroy(d.sem) ELSE d.sem
    OBVIOUS
  <2> HIDE DEF st, ier, m
  <2>5. /\ h \in Controllers /\ h.ir = {} /\ h.buf = d.hw.buf /\ h.tie = d.hw.tie
        /\ h.req = d.hw.req /\ h.rm = d.hw.rm /\ h.asleep = d.hw.asleep
        /\ h.bus = d.hw.bus
    BY <1>1, <2>3 DEF Controllers
  <2> HIDE DEF h
  <2>6. /\ D \in Devices /\ D.before = d.before /\ D.skb = d.skb /\ D.hw = h
        /\ D.state = st /\ D.sem = m
    BY <2>1, <2>2, <2>3, <2>5 DEF Devices, DevStates
  <2> HIDE DEF D
  <2> QED
    BY <1>3, <2>2, <2>4, <2>5, <2>6 DEF D
<1> QED
  BY <1>2, <1>3

(* Its transmit part. *)
LEMMA MscanTxPartShape ==
    ASSUME NEW d \in Devices
    PROVE  LET D == MscanTxPart(d) IN
           /\ D \in Devices /\ D.state = d.state /\ D.before = d.before /\ D.skb = d.skb
           /\ D.sem = SemUp(d.sem) /\ ~D.hw.tie /\ D.hw.ir = d.hw.ir /\ D.hw.buf = d.hw.buf
           /\ D.hw.req = d.hw.req /\ D.hw.rm = d.hw.rm /\ D.hw.asleep = d.hw.asleep
           /\ D.hw.bus = d.hw.bus
<1> DEFINE m == SemUp(d.sem)
           h == [d.hw EXCEPT !.tie = FALSE]
           D == MscanTxPart(d)
<1>1. d.hw \in Controllers /\ m \in Sems
  BY DeviceParts, SemUpShape
<1>2. D = [d EXCEPT !.hw = h, !.sem = m]
  BY DEF MscanTxPart, Devices, Controllers
<1> HIDE DEF m
<1>3. h \in Controllers
  BY <1>1 DEF Controllers
<1>4. h.tie = FALSE
  BY <1>1 DEF Controllers
<1>5. /\ h.ir = d.hw.ir /\ h.buf = d.hw.buf
      /\ h.req = d.hw.req /\ h.rm = d.hw.rm /\ h.asleep = d.hw.asleep
      /\ h.bus = d.hw.bus
  BY <1>1 DEF Controllers
<1> HIDE DEF h
<1>6. /\ D \in Devices /\ D.state = d.state /\ D.before = d.before /\ D.skb = d.skb
      /\ D.hw = h /\ D.sem = m
  BY <1>1, <1>2, <1>3 DEF Devices
<1> HIDE DEF D
<1> QED
  BY <1>4, <1>5, <1>6 DEF D, m

(* rtcan_mscan_mode_stop: the request. *)
LEMMA MscanStopBeginShape ==
    ASSUME NEW d \in Devices
    PROVE  LET D == MscanStopBegin(d) IN
           /\ D \in Devices /\ HwOnly(D, d) /\ D.hw.req
           /\ D.hw.ir = d.hw.ir /\ D.hw.buf = d.hw.buf /\ D.hw.tie = d.hw.tie
           /\ D.hw.rm = d.hw.rm /\ D.hw.asleep = d.hw.asleep /\ D.hw.bus = d.hw.bus
<1> DEFINE h == [d.hw EXCEPT !.req = TRUE]
           D == MscanStopBegin(d)
<1>1. d.hw \in Controllers
  BY DeviceParts
<1>2. D = [d EXCEPT !.hw = h]
  BY DEF MscanStopBegin, Devices, Controllers
<1>3. h \in Controllers
  BY <1>1 DEF Controllers
<1>4. h.req = TRUE
  BY <1>1 DEF Controllers
<1>5. /\ h.ir = d.hw.ir /\ h.buf = d.hw.buf /\ h.tie = d.hw.tie
      /\ h.rm = d.hw.rm /\ h.asleep = d.hw.asleep /\ h.bus = d.hw.bus
  BY <1>1 DEF Controllers
<1> HIDE DEF h
<1>6. D \in Devices /\ HwOnly(D, d) /\ D.hw = h
  BY <1>2, <1>3 DEF Devices, HwOnly
<1> HIDE DEF D
<1> QED
  BY <1>4, <1>5, <1>6 DEF D

(* rtcan_mscan_mode_start: tx_sem first, and from bus-off at once. *)
LEMMA MscanStartBeginShape ==
    ASSUME NEW d \in Devices
    PROVE  /\ MscanStartBegin(d) \in Devices /\ MscanStartBegin(d).state = d.state
           /\ MscanStartBegin(d).hw = d.hw /\ MscanStartBegin(d).sem = SemInit(d.sem)
           /\ MscanRecover(d) \in Devices /\ MscanRecover(d).state = "ACTIVE"
           /\ MscanRecover(d).sem = SemInit(d.sem)
           /\ LET g == MscanRecover(d).hw
                  h == d.hw
              IN  /\ g.ir = h.ir /\ g.buf = h.buf /\ g.tie = h.tie
                  /\ g.req = h.req /\ g.rm = h.rm /\ g.asleep = h.asleep
                  /\ g.bus = IF h.bus = "off" THEN "recovering" ELSE h.bus
<1> DEFINE m == SemInit(d.sem)
           b == IF d.hw.bus = "off" THEN "recovering" ELSE d.hw.bus
           h == [d.hw EXCEPT !.ier = "all", !.bus = b]
<1>1. d.hw \in Controllers /\ m \in Sems /\ b \in Buses
  BY DeviceParts, SemInitShape DEF Controllers, Buses
<1>2. /\ MscanStartBegin(d) = [d EXCEPT !.sem = m]
      /\ MscanRecover(d) = [d EXCEPT !.state = "ACTIVE", !.sem = m, !.hw = h]
  BY DEF MscanStartBegin, MscanRecover, Devices, Controllers
<1> HIDE DEF m, b
<1>3. /\ h \in Controllers /\ h.ir = d.hw.ir /\ h.buf = d.hw.buf /\ h.tie = d.hw.tie
      /\ h.req = d.hw.req /\ h.rm = d.hw.rm /\ h.asleep = d.hw.asleep /\ h.bus = b
  BY <1>1 DEF Controllers
<1> HIDE DEF h
<1>4. /\ MscanStartBegin(d) \in Devices /\ MscanStartBegin(d).state = d.state
      /\ MscanStartBegin(d).hw = d.hw /\ MscanStartBegin(d).sem = m
  BY <1>1, <1>2 DEF Devices
<1>5. /\ MscanRecover(d) \in Devices /\ MscanRecover(d).state = "ACTIVE"
      /\ MscanRecover(d).hw = h /\ MscanRecover(d).sem = m
  BY <1>1, <1>2, <1>3 DEF Devices, DevStates, OperatingStates
<1> QED
  BY <1>3, <1>4, <1>5 DEF m, b

(* ... and what follows the polls. *)
LEMMA MscanStartDoneShape ==
    ASSUME NEW d \in Devices
    PROVE  LET D == MscanStartDone(d) IN
           /\ D \in Devices /\ D.state = "ACTIVE" /\ D.sem = d.sem
           /\ D.hw.ir = d.hw.ir /\ D.hw.tie = d.hw.tie /\ D.hw.bus = d.hw.bus
           /\ ~D.hw.rm /\ ~D.hw.req /\ ~D.hw.asleep
           /\ D.hw.buf = IF d.hw.buf = "lost" THEN "free" ELSE d.hw.buf
<1> DEFINE b == IF d.hw.buf = "lost" THEN "free" ELSE d.hw.buf
           h == [d.hw EXCEPT !.ier = "all", !.rm = FALSE, !.req = FALSE, !.asleep = FALSE,
                             !.buf = b]
           D == MscanStartDone(d)
<1>1. d.hw \in Controllers /\ b \in {"free", "busy", "lost"}
  BY DeviceParts DEF Controllers
<1>2. D = [d EXCEPT !.state = "ACTIVE", !.hw = h]
  BY DEF MscanStartDone, Devices, Controllers
<1> HIDE DEF b
<1>3. h \in Controllers
  <2>1. \A f \in BOOLEAN : [d.hw EXCEPT !.ier = "all", !.rm = f, !.req = f, !.asleep = f,
                                        !.buf = b] \in Controllers
    BY <1>1 DEF Controllers
  <2> QED
    BY <2>1, Zenon
<1>4. h.rm = FALSE
  BY <1>1 DEF Controllers
<1>5. h.req = FALSE
  BY <1>1 DEF Controllers
<1>6. h.asleep = FALSE
  BY <1>1 DEF Controllers
<1>7. h.ir = d.hw.ir /\ h.tie = d.hw.tie /\ h.bus = d.hw.bus /\ h.buf = b
  BY <1>1 DEF Controllers
<1> HIDE DEF h
<1>8. D \in Devices /\ D.state = "ACTIVE" /\ D.sem = d.sem /\ D.hw = h
  BY <1>2, <1>3 DEF Devices, DevStates, OperatingStates
<1> HIDE DEF D
<1> QED
  BY <1>4, <1>5, <1>6, <1>7, <1>8 DEF D, b

(* CAN_MODE_SLEEP of the MSCAN driver: interrupts off, and after the polls *)
(* the new state.                                                          *)
LEMMA MscanSleepShape ==
    ASSUME NEW d \in Devices, Operating(d)
    PROVE  LET D == MscanSleepBegin(d) IN
           /\ D \in Devices /\ D.state = d.state /\ D.sem = d.sem /\ ~D.hw.tie
           /\ D.hw.ir = d.hw.ir /\ D.hw.buf = d.hw.buf
           /\ D.hw.rm = d.hw.rm /\ D.hw.req = d.hw.req /\ D.hw.asleep = d.hw.asleep
           /\ D.hw.bus = d.hw.bus
<1> DEFINE h == [d.hw EXCEPT !.ier = "none", !.tie = FALSE]
           D == MscanSleepBegin(d)
<1>1. d.hw \in Controllers /\ d.state \in OperatingStates
  BY DeviceParts DEF Operating
<1>2. D = [d EXCEPT !.before = d.state, !.hw = h]
  BY DEF MscanSleepBegin, Devices, Controllers
<1>3. h \in Controllers
  BY <1>1 DEF Controllers
<1>4. h.tie = FALSE
  BY <1>1 DEF Controllers
<1>5. /\ h.ir = d.hw.ir /\ h.buf = d.hw.buf
      /\ h.rm = d.hw.rm /\ h.req = d.hw.req /\ h.asleep = d.hw.asleep
      /\ h.bus = d.hw.bus
  BY <1>1 DEF Controllers
<1> HIDE DEF h
<1>6. D \in Devices /\ D.state = d.state /\ D.sem = d.sem /\ D.hw = h
  BY <1>1, <1>2, <1>3 DEF Devices
<1> HIDE DEF D
<1> QED
  BY <1>4, <1>5, <1>6 DEF D

(* The new state. *)
LEMMA MscanSleepDoneShape ==
    ASSUME NEW d \in Devices, NEW acked \in BOOLEAN
    PROVE  LET D == MscanSleepDone(d, acked) IN
           /\ D \in Devices /\ D.state = "SLEEPING" /\ D.sem = d.sem
           /\ D.hw.ir = d.hw.ir /\ D.hw.buf = d.hw.buf /\ D.hw.tie = d.hw.tie
           /\ D.hw.rm = d.hw.rm /\ D.hw.req = d.hw.req /\ D.hw.bus = d.hw.bus
<1> DEFINE h == [d.hw EXCEPT !.ier = "wup", !.asleep = acked]
           D == MscanSleepDone(d, acked)
<1>1. d.hw \in Controllers
  BY DeviceParts
<1>2. D = [d EXCEPT !.state = "SLEEPING", !.hw = h]
  BY DEF MscanSleepDone, Devices, Controllers
<1>3. h \in Controllers
  BY <1>1 DEF Controllers
<1>4. /\ h.ir = d.hw.ir /\ h.buf = d.hw.buf /\ h.tie = d.hw.tie
      /\ h.rm = d.hw.rm /\ h.req = d.hw.req /\ h.bus = d.hw.bus
  BY <1>1 DEF Controllers
<1> HIDE DEF h
<1>5. D \in Devices /\ D.state = "SLEEPING" /\ D.sem = d.sem /\ D.hw = h
  BY <1>2, <1>3 DEF Devices, DevStates
<1> HIDE DEF D
<1> QED
  BY <1>4, <1>5 DEF D

(* rtcan_mscan_start_xmit *)
LEMMA MscanXmitShape ==
    ASSUME NEW d \in Devices
    PROVE  LET D == MscanXmit(d) IN
           /\ D \in Devices /\ HwOnly(D, d)
           /\ D.hw.ir = d.hw.ir /\ D.hw.rm = d.hw.rm /\ D.hw.req = d.hw.req
           /\ D.hw.asleep = d.hw.asleep /\ D.hw.bus = d.hw.bus
           /\ d.hw.buf = "busy" => D.hw.buf = "busy" /\ D.hw.tie = d.hw.tie
           /\ d.hw.buf # "busy" /\ d.hw.rm => D.hw.buf = "lost" /\ D.hw.tie = d.hw.tie
           /\ d.hw.buf # "busy" /\ ~d.hw.rm => D.hw.buf = "busy" /\ D.hw.tie
<1> DEFINE l == [d.hw EXCEPT !.buf = "lost"]
           h == [d.hw EXCEPT !.buf = "busy", !.tie = TRUE]
           D == MscanXmit(d)
<1>1. d.hw \in Controllers
  BY DeviceParts
<1>2. D = IF d.hw.buf = "busy" THEN d
          ELSE IF d.hw.rm THEN [d EXCEPT !.hw = l] ELSE [d EXCEPT !.hw = h]
  BY DEF MscanXmit, Devices, Controllers
<1>3. /\ l \in Controllers /\ l.buf = "lost" /\ l.ir = d.hw.ir /\ l.tie = d.hw.tie
      /\ l.rm = d.hw.rm /\ l.req = d.hw.req /\ l.asleep = d.hw.asleep
      /\ l.bus = d.hw.bus
  BY <1>1 DEF Controllers
<1>4. h \in Controllers
  BY <1>1 DEF Controllers
<1>5. h.tie = TRUE
  BY <1>1 DEF Controllers
<1>6. /\ h.buf = "busy" /\ h.ir = d.hw.ir
      /\ h.rm = d.hw.rm /\ h.req = d.hw.req /\ h.asleep = d.hw.asleep
      /\ h.bus = d.hw.bus
  BY <1>1 DEF Controllers
<1> HIDE DEF l, h
<1>7. /\ D \in Devices /\ HwOnly(D, d)
      /\ D.hw = IF d.hw.buf = "busy" THEN d.hw ELSE IF d.hw.rm THEN l ELSE h
  BY <1>2, <1>3, <1>4 DEF Devices, HwOnly
<1> HIDE DEF D
<1> QED
  BY <1>3, <1>5, <1>6, <1>7 DEF D

(* The MSCAN has sent its frame. *)
LEMMA MscanSentShape ==
    ASSUME NEW h \in Controllers, NEW g \in MscanSent(h)
    PROVE  /\ g \in Controllers /\ h.buf = "busy" /\ g.buf = "free"
           /\ g.ir = h.ir /\ g.tie = h.tie /\ g.req = h.req /\ g.rm = h.rm
           /\ g.asleep = h.asleep /\ g.bus = h.bus
  BY DEF MscanSent, Controllers

(* The bus of the MSCAN changes, or its activity ends sleep mode. *)
LEMMA MscanBusShape ==
    ASSUME NEW h \in Controllers, NEW g \in MscanBus(h)
    PROVE  /\ g \in Controllers /\ (~h.rm \/ h.asleep)
           /\ g.buf = h.buf /\ g.tie = h.tie /\ g.req = h.req /\ g.rm = h.rm
           /\ g.asleep => h.asleep
           /\ h.ir \subseteq g.ir
           /\ g.bus # h.bus => ~h.rm /\ "CSC" \in g.ir
<1>1. CASE \E x \in MscanMoves : /\ MscanOnBus(h)
                                 /\ g = [h EXCEPT !.bus = x[2], !.ir = @ \cup {"CSC"}]
  <2>1. PICK x \in MscanMoves : /\ MscanOnBus(h)
                                /\ g = [h EXCEPT !.bus = x[2], !.ir = @ \cup {"CSC"}]
    BY <1>1
  <2>2. x[2] \in Buses
    BY DEF MscanMoves, Buses
  <2>3. h.ir \cup {"CSC"} \in SUBSET Bits
    BY DEF Controllers, Bits
  <2> QED
    BY <2>1, <2>2, <2>3 DEF MscanOnBus, Controllers
<1>3. CASE MscanOnBus(h) /\ g = [h EXCEPT !.ir = @ \cup {"OVR"}]
  <2>1. h.ir \cup {"OVR"} \in SUBSET Bits
    BY DEF Controllers, Bits
  <2> QED
    BY <1>3, <2>1 DEF MscanOnBus, Controllers
<1>2. CASE h.asleep /\ g = [h EXCEPT !.asleep = FALSE, !.ir = @ \cup {"WUP"}]
  <2>1. h.ir \cup {"WUP"} \in SUBSET Bits
    BY DEF Controllers, Bits
  <2>2. g \in Controllers
    BY <1>2, <2>1 DEF Controllers
  <2>3. /\ g.buf = h.buf /\ g.tie = h.tie /\ g.req = h.req /\ g.rm = h.rm
        /\ g.bus = h.bus /\ g.ir = h.ir \cup {"WUP"}
    BY <1>2 DEF Controllers
  <2> QED
    BY <1>2, <2>2, <2>3
<1> QED
  BY <1>1, <1>2, <1>3 DEF MscanBus

(* The MSCAN enters initialisation mode. *)
LEMMA MscanResetShape ==
    ASSUME NEW h \in Controllers, NEW g \in MscanReset(h)
    PROVE  /\ g \in Controllers /\ h.req /\ ~h.rm
           /\ g.rm /\ ~g.req /\ ~g.tie /\ ~g.asleep /\ g.buf = "free" /\ g.ir = {}
           /\ g.bus = "ok"
<1>1. /\ h.req /\ ~h.rm
      /\ g = [h EXCEPT !.rm = TRUE, !.req = FALSE, !.buf = "free", !.tie = FALSE, !.ir = {},
                       !.ier = "none", !.asleep = FALSE, !.bus = "ok"]
  BY DEF MscanReset
<1>2. \A t, f \in BOOLEAN :
         [h EXCEPT !.rm = t, !.req = f, !.buf = "free", !.tie = f, !.ir = {},
                   !.ier = "none", !.asleep = f, !.bus = "ok"] \in Controllers
  BY DEF Controllers, Buses
<1>3. g \in Controllers
  BY <1>1, <1>2, Zenon
<1>4. g.rm = TRUE
  BY <1>1 DEF Controllers
<1>5. g.req = FALSE
  BY <1>1 DEF Controllers
<1>6. g.tie = FALSE
  BY <1>1 DEF Controllers
<1>7. g.asleep = FALSE
  BY <1>1 DEF Controllers
<1>8. g.buf = "free" /\ g.ir = {} /\ g.bus = "ok"
  BY <1>1 DEF Controllers
<1> QED
  BY <1>1, <1>3, <1>4, <1>5, <1>6, <1>7, <1>8

-----------------------------------------------------------------------------
(* The senders on tx_sem.                                                  *)

(* Only the semaphore of the device changes. *)
SemOnly == dev'.state = dev.state /\ dev'.hw = dev.hw

(* Queueing a task. *)
LEMMA AppendShape ==
    ASSUME NEW q \in Seq(Senders), NEW s \in Senders
    PROVE  /\ Append(q, s) \in Seq(Senders) /\ s \in Elements(Append(q, s))
           /\ Elements(q) \subseteq Elements(Append(q, s))
<1> DEFINE a == Append(q, s)
<1>1. /\ a \in Seq(Senders) /\ Len(a) = Len(q) + 1 /\ a[Len(q) + 1] = s
      /\ \A i \in 1..Len(q) : a[i] = q[i]
  BY AppendProperties
<1>2. Len(q) \in Nat
  BY LenProperties
<1> HIDE DEF a
<1>3. /\ Len(q) + 1 \in 1..Len(a) /\ \A i \in 1..Len(q) : i \in 1..Len(a)
  BY <1>1, <1>2
<1>4. a \in Seq(Senders) /\ s \in Elements(a) /\ Elements(q) \subseteq Elements(a)
  BY <1>1, <1>3 DEF Elements
<1> QED
  BY <1>4 DEF a

(* A device whose semaphore is replaced. *)
LEMMA NewSem ==
    ASSUME NEW d \in Devices, NEW m \in Sems
    PROVE  LET D == [d EXCEPT !.sem = m] IN
           /\ D \in Devices /\ D.state = d.state /\ D.before = d.before /\ D.hw = d.hw
           /\ D.sem = m /\ D.skb = d.skb
  BY DEF Devices

(* What leaving the wait queue does. *)
LEMMA LeaveShape ==
    ASSUME TypeOK, NEW s \in Senders, NEW n \in Sems, NEW to, Leave(s, n, to)
    PROVE  /\ dev' \in Devices /\ SemOnly /\ pc' = [pc EXCEPT ![s] = to]
           /\ dev'.sem.count = n.count /\ dev'.sem.sleepers = n.sleepers
           /\ dev'.sem.gone = n.gone
           /\ \A u \in n.woken : u # s => u \in dev'.sem.woken
           /\ s \in Elements(n.queue) =>
                 \A u \in Elements(n.queue) : u # s => u \in Elements(dev'.sem.queue)
<1>1. PICK m \in Unlink(n, s, LeftBehind) : dev' = [dev EXCEPT !.sem = WakeFirst(m)]
  BY DEF Leave
<1>2. LeftBehind \in SUBSET Senders
  BY DEF LeftBehind
<1>3. /\ m \in Sems
      /\ m.count = n.count /\ m.sleepers = n.sleepers /\ m.gone = n.gone
      /\ m.woken = n.woken \ {s}
      /\ s \in Elements(n.queue) =>
            \A u \in Elements(n.queue) : u # s => u \in Elements(m.queue)
  BY <1>1, <1>2, UnlinkShape
<1>4. /\ WakeFirst(m) \in Sems
      /\ WakeFirst(m).count = m.count /\ WakeFirst(m).sleepers = m.sleepers
      /\ WakeFirst(m).gone = m.gone /\ WakeFirst(m).queue = m.queue
      /\ m.woken \subseteq WakeFirst(m).woken
  BY <1>3, WakeFirstShape
<1>5. dev' \in Devices /\ SemOnly /\ dev'.sem = WakeFirst(m)
  BY <1>1, <1>4, NewSem DEF TypeOK, SemOnly
<1>6. pc' = [pc EXCEPT ![s] = to]
  BY DEF Leave
<1> QED
  BY <1>3, <1>4, <1>5, <1>6

(* One turn of the loop in _rtdm_sem_timeddown. *)
LEMMA TurnShape ==
    ASSUME TypeOK, NEW s \in Senders, NEW m \in Sems, Turn(s, m)
    PROVE  \E to \in {"idle", "push", "asleep"} :
           /\ pc' = [pc EXCEPT ![s] = to] /\ dev' \in Devices /\ SemOnly
           /\ dev'.sem.gone = m.gone
           /\ \A u \in m.woken : u # s => u \in dev'.sem.woken
           /\ s \in Elements(m.queue) =>
                 /\ \A u \in Elements(m.queue) : u # s => u \in Elements(dev'.sem.queue)
                 /\ to = "asleep" => s \in Elements(dev'.sem.queue)
           /\ to = "idle" => m.gone
           /\ to = "push" =>
                 /\ dev'.sem.count + dev'.sem.sleepers = m.count + m.sleepers - 1
                 /\ dev'.sem.count + dev'.sem.sleepers >= 0
           /\ to = "asleep" =>
                 /\ dev'.sem.count + dev'.sem.sleepers = m.count + m.sleepers
                 /\ ~m.gone
<1> DEFINE left == m.count + m.sleepers - 1
<1>0. m.count \in Int /\ m.sleepers \in Nat /\ left \in Int
  BY DEF Sems
<1>1. CASE m.gone
  <2>1. Leave(s, m, "idle")
    BY <1>1 DEF Turn
  <2>2. /\ dev' \in Devices /\ SemOnly /\ pc' = [pc EXCEPT ![s] = "idle"]
        /\ dev'.sem.gone = m.gone
        /\ \A u \in m.woken : u # s => u \in dev'.sem.woken
        /\ s \in Elements(m.queue) =>
              \A u \in Elements(m.queue) : u # s => u \in Elements(dev'.sem.queue)
    BY <2>1, LeaveShape
  <2> QED
    BY <1>1, <2>2
<1>2. CASE ~m.gone /\ left >= 0
  <2> DEFINE n == [m EXCEPT !.count = left, !.sleepers = 0]
  <2>1. Leave(s, n, "push")
    BY <1>2 DEF Turn
  <2>2. n \in Sems
    <3>1. \A c \in Int, z \in Nat : [m EXCEPT !.count = c, !.sleepers = z] \in Sems
      BY DEF Sems
    <3>2. 0 \in Nat
      OBVIOUS
    <3> HIDE DEF left
    <3> QED
      BY <3>1, <3>2, <1>0, Zenon
  <2>3. /\ n.count = left /\ n.sleepers = 0 /\ n.gone = m.gone
        /\ n.queue = m.queue /\ n.woken = m.woken
    BY DEF Sems
  <2> HIDE DEF n
  <2>4. /\ dev' \in Devices /\ SemOnly /\ pc' = [pc EXCEPT ![s] = "push"]
        /\ dev'.sem.count = n.count /\ dev'.sem.sleepers = n.sleepers
        /\ dev'.sem.gone = n.gone
        /\ \A u \in n.woken : u # s => u \in dev'.sem.woken
        /\ s \in Elements(n.queue) =>
              \A u \in Elements(n.queue) : u # s => u \in Elements(dev'.sem.queue)
    BY <2>1, <2>2, LeaveShape
  <2>5. /\ dev'.sem.count + dev'.sem.sleepers = m.count + m.sleepers - 1
        /\ dev'.sem.count + dev'.sem.sleepers >= 0
    BY <1>0, <1>2, <2>3, <2>4
  <2> QED
    BY <2>3, <2>4, <2>5
<1>3. CASE ~m.gone /\ ~(left >= 0)
  <2> DEFINE n == [m EXCEPT !.count = left, !.sleepers = 1, !.woken = @ \ {s}]
  <2>1. dev' = [dev EXCEPT !.sem = n] /\ pc' = [pc EXCEPT ![s] = "asleep"]
    BY <1>3 DEF Turn
  <2>2. n \in Sems
    <3>1. \A c \in Int, z \in Nat : [m EXCEPT !.count = c, !.sleepers = z,
                                              !.woken = @ \ {s}] \in Sems
      BY DEF Sems
    <3>2. 1 \in Nat
      OBVIOUS
    <3> HIDE DEF left
    <3> QED
      BY <3>1, <3>2, <1>0, Zenon
  <2>3. /\ n.count = left /\ n.sleepers = 1 /\ n.gone = m.gone
        /\ n.queue = m.queue /\ n.woken = m.woken \ {s}
    BY DEF Sems
  <2> HIDE DEF n
  <2>4. dev' \in Devices /\ SemOnly /\ dev'.sem = n
    BY <2>1, <2>2, NewSem DEF TypeOK, SemOnly
  <2>5. dev'.sem.count + dev'.sem.sleepers = m.count + m.sleepers
    BY <1>0, <2>3, <2>4
  <2> QED
    BY <1>3, <2>1, <2>3, <2>4, <2>5
<1> QED
  BY <1>1, <1>2, <1>3

(* The share of a sender at `at' in the permits: one that is on its way    *)
(* into the slow path, one that holds a permit.                            *)
InSlow(at) == IF at = "slow" THEN 1 ELSE 0
Holds(at) == IF at \in {"push", "xmit"} THEN 1 ELSE 0
Sum(m) == m.count + m.sleepers

(* What a step of sender s on tx_sem may do when it moves to `to': permits *)
(* are neither made nor lost, and the other tasks stay queued and woken.   *)
SenderEffect(s, to) ==
    /\ pc' = [pc EXCEPT ![s] = to] /\ dev' \in Devices /\ SemOnly
    /\ dev'.sem.gone = dev.sem.gone
    /\ ~dev.sem.gone /\ ~upset' =>
          /\ Sum(dev'.sem) + InSlow(to) + Holds(to)
                = Sum(dev.sem) + InSlow(pc[s]) + Holds(pc[s])
          /\ \/ Sum(dev'.sem) + InSlow(to) >= Sum(dev.sem) + InSlow(pc[s])
             \/ Sum(dev'.sem) >= 0
    /\ \A u \in dev.sem.woken : u # s => u \in dev'.sem.woken
    /\ (pc[s] = "asleep" => s \in Elements(dev.sem.queue)) =>
          /\ \A u \in Elements(dev.sem.queue) : u # s => u \in Elements(dev'.sem.queue)
          /\ to = "asleep" => ~dev.sem.gone /\ s \in Elements(dev'.sem.queue)

(* The decrement of rtdm_sem_timeddown. *)
LEMMA SendEffect ==
    ASSUME TypeOK, NEW s \in Senders, Send(s)
    PROVE  \E to \in PCs : SenderEffect(s, to)
<1> DEFINE n == [dev.sem EXCEPT !.count = @ - 1]
           to == IF dev.sem.count > 0 THEN "push" ELSE "slow"
<1>0. dev \in Devices /\ dev.sem \in Sems
  BY DeviceParts DEF TypeOK
<1>1. dev.sem.count \in Int /\ dev.sem.sleepers \in Nat
  BY <1>0 DEF Sems
<1>2. dev' = [dev EXCEPT !.sem = n] /\ pc' = [pc EXCEPT ![s] = to] /\ pc[s] = "idle"
  BY <1>0 DEF Send, Devices, Sems
<1>3. /\ n \in Sems /\ n.count = dev.sem.count - 1 /\ n.sleepers = dev.sem.sleepers
      /\ n.gone = dev.sem.gone /\ n.queue = dev.sem.queue /\ n.woken = dev.sem.woken
  BY <1>0 DEF Sems
<1> HIDE DEF n
<1>4. dev' \in Devices /\ SemOnly /\ dev'.sem = n
  BY <1>0, <1>2, <1>3, NewSem DEF SemOnly
<1>5. /\ Sum(dev'.sem) + InSlow(to) + Holds(to)
            = Sum(dev.sem) + InSlow(pc[s]) + Holds(pc[s])
      /\ \/ Sum(dev'.sem) + InSlow(to) >= Sum(dev.sem) + InSlow(pc[s])
         \/ Sum(dev'.sem) >= 0
  BY <1>1, <1>2, <1>3, <1>4 DEF Sum, InSlow, Holds
<1>6. to \in PCs /\ to # "asleep"
  BY DEF PCs
<1> HIDE DEF to
<1>7. SenderEffect(s, to)
  BY <1>2, <1>3, <1>4, <1>5, <1>6 DEF SenderEffect
<1> QED
  BY <1>6, <1>7

(* A turn of the loop on a semaphore m that differs from tx_sem only by    *)
(* the sleeper and the queue entry that s added on its way from "slow".    *)
LEMMA TurnEffect ==
    ASSUME TypeOK, NEW s \in Senders, NEW m \in Sems, Turn(s, m), pc[s] \in {"slow", "asleep"},
           m.gone = dev.sem.gone, m.woken = dev.sem.woken,
           Sum(m) = Sum(dev.sem) + InSlow(pc[s]),
           Elements(dev.sem.queue) \subseteq Elements(m.queue),
           pc[s] = "slow" => s \in Elements(m.queue)
    PROVE  \E to \in PCs : SenderEffect(s, to)
<1>1. PICK to \in {"idle", "push", "asleep"} :
           /\ pc' = [pc EXCEPT ![s] = to] /\ dev' \in Devices /\ SemOnly
           /\ dev'.sem.gone = m.gone
           /\ \A u \in m.woken : u # s => u \in dev'.sem.woken
           /\ s \in Elements(m.queue) =>
                 /\ \A u \in Elements(m.queue) : u # s => u \in Elements(dev'.sem.queue)
                 /\ to = "asleep" => s \in Elements(dev'.sem.queue)
           /\ to = "idle" => m.gone
           /\ to = "push" =>
                 /\ dev'.sem.count + dev'.sem.sleepers = m.count + m.sleepers - 1
                 /\ dev'.sem.count + dev'.sem.sleepers >= 0
           /\ to = "asleep" =>
                 /\ dev'.sem.count + dev'.sem.sleepers = m.count + m.sleepers
                 /\ ~m.gone
  BY TurnShape
<1>2. /\ dev.sem \in Sems /\ dev'.sem \in Sems
  BY <1>1, DeviceParts DEF TypeOK
<1>3. Sum(dev.sem) \in Int /\ Sum(m) \in Int /\ Sum(dev'.sem) \in Int
  <2>1. \A x \in Sems : Sum(x) \in Int
    BY DEF Sems, Sum
  <2> QED
    BY <1>2, <2>1
<1>4. ASSUME ~dev.sem.gone
      PROVE  /\ Sum(dev'.sem) + InSlow(to) + Holds(to)
                   = Sum(dev.sem) + InSlow(pc[s]) + Holds(pc[s])
             /\ \/ Sum(dev'.sem) + InSlow(to) >= Sum(dev.sem) + InSlow(pc[s])
                \/ Sum(dev'.sem) >= 0
  <2>1. to # "idle"
    BY <1>1, <1>4
  <2>2. CASE to = "push"
    <3>1. Sum(dev'.sem) = Sum(m) - 1 /\ Sum(dev'.sem) >= 0
      BY <1>1, <1>2, <2>2 DEF Sum, Sems
    <3> QED
      BY <1>3, <2>2, <3>1 DEF InSlow, Holds
  <2>3. CASE to = "asleep"
    <3>1. Sum(dev'.sem) = Sum(m)
      BY <1>1, <2>3 DEF Sum
    <3> QED
      BY <1>3, <2>3, <3>1 DEF InSlow, Holds
  <2> QED
    BY <1>1, <2>1, <2>2, <2>3
<1>5. SenderEffect(s, to) /\ to \in PCs
  BY <1>1, <1>4 DEF SenderEffect, PCs
<1> QED
  BY <1>5

(* The slow path of rtdm_sem_timeddown. *)
LEMMA SlowDownEffect ==
    ASSUME TypeOK, NEW s \in Senders, SlowDown(s)
    PROVE  \E to \in PCs : SenderEffect(s, to)
<1> DEFINE m == dev.sem
<1>0. dev \in Devices /\ dev.sem \in Sems /\ pc[s] = "slow" /\ "idle" \in PCs
  BY DeviceParts DEF TypeOK, SlowDown, PCs
<1>1. /\ m.count \in Int /\ m.sleepers \in Nat /\ m.gone \in BOOLEAN
      /\ m.queue \in Seq(Senders) /\ m.woken \in SUBSET Senders
  BY <1>0 DEF Sems
<1>2. CASE m.gone
  <2>1. pc' = [pc EXCEPT ![s] = "idle"] /\ dev' = dev
    BY <1>2 DEF SlowDown
  <2>2. SenderEffect(s, "idle")
    BY <1>0, <1>2, <2>1 DEF SenderEffect, SemOnly
  <2> QED
    BY <1>0, <2>2
<1>3. CASE ~m.gone /\ LET n == [m EXCEPT !.count = @ + m.sleepers + 1, !.sleepers = 0]
                      IN  /\ dev' = [dev EXCEPT !.sem = IF n.count >= 0 THEN WakeFirst(n) ELSE n]
                          /\ pc' = [pc EXCEPT ![s] = "idle"]
  <2> DEFINE n == [m EXCEPT !.count = @ + m.sleepers + 1, !.sleepers = 0]
             o == IF n.count >= 0 THEN WakeFirst(n) ELSE n
  <2>1. dev' = [dev EXCEPT !.sem = o] /\ pc' = [pc EXCEPT ![s] = "idle"]
    BY <1>3
  <2>2. n \in Sems
    <3>1. \A c \in Int, z \in Nat : [m EXCEPT !.count = c, !.sleepers = z] \in Sems
      BY <1>0 DEF Sems
    <3>2. 0 \in Nat /\ m.count + m.sleepers + 1 \in Int
      BY <1>1
    <3> HIDE DEF m
    <3> QED
      BY <3>1, <3>2, Zenon
  <2>3. /\ n.count = m.count + m.sleepers + 1 /\ n.sleepers = 0 /\ n.gone = m.gone
        /\ n.queue = m.queue /\ n.woken = m.woken
    BY <1>0 DEF Sems
  <2> HIDE DEF n
  <2>4. /\ WakeFirst(n) \in Sems
        /\ WakeFirst(n).count = n.count /\ WakeFirst(n).sleepers = n.sleepers
        /\ WakeFirst(n).gone = n.gone /\ WakeFirst(n).queue = n.queue
        /\ n.woken \subseteq WakeFirst(n).woken
    BY <2>2, WakeFirstShape
  <2>5. /\ o \in Sems /\ o.count = n.count /\ o.sleepers = n.sleepers
        /\ o.gone = n.gone /\ o.queue = n.queue /\ n.woken \subseteq o.woken
    BY <2>2, <2>4
  <2> HIDE DEF o
  <2>6. dev' \in Devices /\ SemOnly /\ dev'.sem = o
    BY <1>0, <2>1, <2>5, NewSem DEF SemOnly
  <2>7. Sum(dev'.sem) + InSlow("idle") = Sum(dev.sem) + InSlow(pc[s])
    BY <1>0, <1>1, <2>3, <2>5, <2>6 DEF Sum, InSlow
  <2>8. Holds("idle") = 0 /\ Holds(pc[s]) = 0 /\ Sum(dev'.sem) + InSlow("idle") \in Int
    BY <1>0, <1>1, <2>3, <2>5, <2>6 DEF Holds, Sum, InSlow
  <2>9. Sum(dev'.sem) + InSlow("idle") + Holds("idle")
            = Sum(dev.sem) + InSlow(pc[s]) + Holds(pc[s])
    BY <2>7, <2>8
  <2>10. Sum(dev'.sem) + InSlow("idle") >= Sum(dev.sem) + InSlow(pc[s])
    BY <2>7, <2>8
  <2>11. SenderEffect(s, "idle")
    BY <1>0, <2>1, <2>3, <2>5, <2>6, <2>9, <2>10 DEF SenderEffect
  <2> QED
    BY <1>0, <2>11
<1>4. CASE ~m.gone /\ Turn(s, [m EXCEPT !.queue = Append(@, s), !.sleepers = @ + 1])
  <2> DEFINE n == [m EXCEPT !.queue = Append(@, s), !.sleepers = @ + 1]
  <2>1. /\ Append(m.queue, s) \in Seq(Senders) /\ s \in Elements(Append(m.queue, s))
        /\ Elements(m.queue) \subseteq Elements(Append(m.queue, s))
    BY <1>1, AppendShape
  <2>2. n \in Sems
    <3>1. \A q \in Seq(Senders), z \in Nat : [m EXCEPT !.queue = q, !.sleepers = z] \in Sems
      BY <1>0 DEF Sems
    <3>2. m.sleepers + 1 \in Nat
      BY <1>1
    <3> HIDE DEF m
    <3> QED
      BY <2>1, <3>1, <3>2, Zenon
  <2>3. /\ n.count = m.count /\ n.sleepers = m.sleepers + 1 /\ n.gone = m.gone
        /\ n.queue = Append(m.queue, s) /\ n.woken = m.woken
    BY <1>0 DEF Sems
  <2>4. Turn(s, n)
    BY <1>4
  <2> HIDE DEF n
  <2>5. Sum(n) = Sum(dev.sem) + InSlow(pc[s])
    BY <1>0, <1>1, <2>3 DEF Sum, InSlow
  <2>6. n.gone = dev.sem.gone /\ n.woken = dev.sem.woken
    BY <2>3
  <2>7. Elements(dev.sem.queue) \subseteq Elements(n.queue) /\ s \in Elements(n.queue)
    BY <2>1, <2>3
  <2> QED
    BY <1>0, <2>2, <2>4, <2>5, <2>6, <2>7, TurnEffect
<1> QED
  BY <1>2, <1>3, <1>4 DEF SlowDown

(* A woken sender. *)
LEMMA WokenEffect ==
    ASSUME TypeOK, NEW s \in Senders, Woken(s)
    PROVE  \E to \in PCs : SenderEffect(s, to)
<1>1. dev.sem \in Sems /\ pc[s] = "asleep" /\ Turn(s, dev.sem)
  BY DeviceParts DEF TypeOK, Woken
<1>2. Sum(dev.sem) = Sum(dev.sem) + InSlow(pc[s])
  BY <1>1 DEF Sum, InSlow, Sems
<1> QED
  BY <1>1, <1>2, TurnEffect

(* A sender whose wait is ended by a signal or the timeout. *)
LEMMA InterruptedEffect ==
    ASSUME TypeOK, NEW s \in Senders, Interrupted(s)
    PROVE  \E to \in PCs : SenderEffect(s, to)
<1> DEFINE m == dev.sem
           n == [m EXCEPT !.count = @ + m.sleepers, !.sleepers = 0]
<1>0. m \in Sems /\ pc[s] = "asleep" /\ Leave(s, n, "idle") /\ "idle" \in PCs
  BY DeviceParts DEF TypeOK, Interrupted, PCs
<1>1. m.count \in Int /\ m.sleepers \in Nat
  BY <1>0 DEF Sems
<1>2. n \in Sems
  <2>1. \A c \in Int, z \in Nat : [m EXCEPT !.count = c, !.sleepers = z] \in Sems
    BY <1>0 DEF Sems
  <2>2. 0 \in Nat /\ m.count + m.sleepers \in Int
    BY <1>1
  <2> HIDE DEF m
  <2> QED
    BY <2>1, <2>2, Zenon
<1>3. /\ n.count = m.count + m.sleepers /\ n.sleepers = 0 /\ n.gone = m.gone
      /\ n.queue = m.queue /\ n.woken = m.woken
  BY <1>0 DEF Sems
<1> HIDE DEF n
<1>4. /\ dev' \in Devices /\ SemOnly /\ pc' = [pc EXCEPT ![s] = "idle"]
      /\ dev'.sem.count = n.count /\ dev'.sem.sleepers = n.sleepers
      /\ dev'.sem.gone = n.gone
      /\ \A u \in n.woken : u # s => u \in dev'.sem.woken
      /\ s \in Elements(n.queue) =>
            \A u \in Elements(n.queue) : u # s => u \in Elements(dev'.sem.queue)
  BY <1>0, <1>2, LeaveShape
<1>5. /\ Sum(dev'.sem) + InSlow("idle") + Holds("idle")
            = Sum(dev.sem) + InSlow(pc[s]) + Holds(pc[s])
      /\ Sum(dev'.sem) + InSlow("idle") >= Sum(dev.sem) + InSlow(pc[s])
  BY <1>0, <1>1, <1>3, <1>4 DEF Sum, InSlow, Holds
<1>6. SenderEffect(s, "idle")
  BY <1>0, <1>3, <1>4, <1>5 DEF SenderEffect
<1> QED
  BY <1>0, <1>6

(* rtcan_tx_push *)
LEMMA PushEffect ==
    ASSUME TypeOK, NEW s \in Senders, Push(s)
    PROVE  \E to \in PCs : SenderEffect(s, to)
<1>0. dev \in Devices /\ dev.sem \in Sems /\ "xmit" \in PCs
  BY DeviceParts DEF TypeOK, PCs
<1>1. /\ dev' = IF s \in Loopers THEN [dev EXCEPT !.skb = s] ELSE dev
      /\ pc' = [pc EXCEPT ![s] = "xmit"] /\ pc[s] = "push"
  BY DEF Push
<1>2. dev' \in Devices /\ SemOnly /\ dev'.sem = dev.sem
  BY <1>0, <1>1 DEF Devices, SemOnly
<1>3. Sum(dev.sem) \in Int
  BY <1>0 DEF Sum, Sems
<1>4. /\ Sum(dev'.sem) + InSlow("xmit") + Holds("xmit")
            = Sum(dev.sem) + InSlow(pc[s]) + Holds(pc[s])
      /\ Sum(dev'.sem) + InSlow("xmit") >= Sum(dev.sem) + InSlow(pc[s])
  BY <1>1, <1>2, <1>3 DEF InSlow, Holds
<1>5. SenderEffect(s, "xmit")
  BY <1>1, <1>2, <1>4 DEF SenderEffect
<1> QED
  BY <1>0, <1>5

(* Two sets of senders that differ at most in s. *)
LEMMA CountMove ==
    ASSUME NEW A \in SUBSET Senders, NEW B \in SUBSET Senders, NEW s \in Senders,
           A \ {s} = B \ {s}
    PROVE  /\ Cardinality(A) \in Nat /\ Cardinality(B) \in Nat
           /\ Cardinality(B) = Cardinality(A) - (IF s \in A THEN 1 ELSE 0)
                                              + (IF s \in B THEN 1 ELSE 0)
<1>1. IsFiniteSet(A) /\ IsFiniteSet(B)
  BY CanTxAssumption, FS_Subset
<1>2. Cardinality(A) \in Nat /\ Cardinality(B) \in Nat /\ Cardinality(A \ {s}) \in Nat
  BY <1>1, FS_CardinalityType, FS_RemoveElement
<1>3. Cardinality(A \ {s}) = IF s \in A THEN Cardinality(A) - 1 ELSE Cardinality(A)
  BY <1>1, FS_RemoveElement
<1>4. Cardinality(B \ {s}) = IF s \in B THEN Cardinality(B) - 1 ELSE Cardinality(B)
  BY <1>1, FS_RemoveElement
<1>5. Cardinality(A \ {s}) = Cardinality(B \ {s})
  OBVIOUS
<1> QED
  BY <1>2, <1>3, <1>4, <1>5

(* The two counts that OnePermit takes, after a sender has moved. *)
LEMMA Counts ==
    ASSUME TypeOK, NEW s \in Senders, NEW to \in PCs, pc' = [pc EXCEPT ![s] = to]
    PROVE  /\ Cardinality(Slow) \in Nat /\ Cardinality(Slow') \in Nat
           /\ Cardinality(Slow') = Cardinality(Slow) - InSlow(pc[s]) + InSlow(to)
           /\ Cardinality(Holders) \in Nat /\ Cardinality(Holders') \in Nat
           /\ Cardinality(Holders') = Cardinality(Holders) - Holds(pc[s]) + Holds(to)
<1>1. pc \in [Senders -> PCs]
  BY DEF TypeOK
<1>2. /\ Slow \in SUBSET Senders /\ Slow' \in SUBSET Senders /\ Slow \ {s} = Slow' \ {s}
      /\ (s \in Slow <=> pc[s] = "slow") /\ (s \in Slow' <=> to = "slow")
  BY <1>1 DEF Slow
<1>3. /\ Holders \in SUBSET Senders /\ Holders' \in SUBSET Senders
      /\ Holders \ {s} = Holders' \ {s}
      /\ (s \in Holders <=> pc[s] \in {"push", "xmit"})
      /\ (s \in Holders' <=> to \in {"push", "xmit"})
  BY <1>1 DEF Holders
<1>4. /\ Cardinality(Slow) \in Nat /\ Cardinality(Slow') \in Nat
      /\ Cardinality(Slow') = Cardinality(Slow) - (IF s \in Slow THEN 1 ELSE 0)
                                                + (IF s \in Slow' THEN 1 ELSE 0)
  BY <1>2, CountMove
<1>5. /\ Cardinality(Holders) \in Nat /\ Cardinality(Holders') \in Nat
      /\ Cardinality(Holders') = Cardinality(Holders) - (IF s \in Holders THEN 1 ELSE 0)
                                                      + (IF s \in Holders' THEN 1 ELSE 0)
  BY <1>3, CountMove
<1> QED
  BY <1>2, <1>3, <1>4, <1>5 DEF InSlow, Holds

(* The counts of the present state. *)
LEMMA CountTypes ==
    ASSUME TypeOK
    PROVE  Cardinality(Slow) \in Nat /\ Cardinality(Holders) \in Nat
<1>1. IsFiniteSet(Slow) /\ IsFiniteSet(Holders)
  BY CanTxAssumption, FS_Subset DEF Slow, Holders
<1> QED
  BY <1>1, FS_CardinalityType

-----------------------------------------------------------------------------
(* Invariance.                                                             *)

(* Whether a frame is in flight depends on the controller only. *)
LEMMA InFlightType ==
    ASSUME NEW d, NEW c PROVE InFlight(d, c) \in {0, 1}
  BY DEF InFlight

(* A step of a sender on tx_sem preserves the invariant. *)
LEMMA SenderPreserves ==
    ASSUME IInv, NEW s \in Senders, NEW to \in PCs, SenderEffect(s, to),
           UNCHANGED <<chip, ctl, parked>>, lock' \in Senders \cup {"free", "irq"},
           upset' \in BOOLEAN, upset => upset'
    PROVE  IInv'
<1>0. /\ TypeOK /\ dev.sem \in Sems /\ pc \in [Senders -> PCs]
  BY DeviceParts DEF IInv, TypeOK
<1>1. /\ pc' = [pc EXCEPT ![s] = to] /\ dev' \in Devices /\ dev'.sem \in Sems
      /\ dev'.state = dev.state /\ dev'.hw = dev.hw
      /\ dev'.sem.gone = dev.sem.gone
  BY DeviceParts DEF SenderEffect, SemOnly
<1>2. TypeOK'
  BY <1>0, <1>1 DEF TypeOK
<1>3. CtlOfChip' /\ SjaBusOff'
  BY <1>1 DEF IInv, CtlOfChip, SjaBusOff
<1>4. GoneExact' /\ SjaExact' /\ MscanExact'
  BY <1>1 DEF IInv, GoneExact, SjaExact, SjaLive, MscanExact, Operating
<1>5. AsleepQueued' /\ GoneWakes'
  <2> SUFFICES ASSUME ~upset', ~upset, NEW u \in Senders, pc'[u] = "asleep"
               PROVE  /\ u \in Elements(dev'.sem.queue)
                      /\ dev'.sem.gone => u \in dev'.sem.woken
    BY DEF AsleepQueued, GoneWakes
  <2>1. pc[s] = "asleep" => s \in Elements(dev.sem.queue)
    BY DEF IInv, AsleepQueued
  <2>2. CASE u = s
    <3>1. to = "asleep"
      BY <1>0, <1>1, <2>2
    <3> QED
      BY <1>1, <2>1, <2>2, <3>1 DEF SenderEffect
  <2>3. CASE u # s
    <3>1. pc[u] = "asleep"
      BY <1>0, <1>1, <2>3
    <3>2. u \in Elements(dev.sem.queue) /\ (dev.sem.gone => u \in dev.sem.woken)
      BY <3>1 DEF IInv, AsleepQueued, GoneWakes
    <3> QED
      BY <1>1, <2>1, <2>3, <3>2 DEF SenderEffect
  <2> QED
    BY <2>2, <2>3
<1>6. Permits'
  <2> SUFFICES ASSUME ~upset', ~upset, ~dev.sem.gone, ctl.pc # "stopping"
               PROVE  Free' >= 0 /\ Free' + Cardinality(Holders') + InFlight(dev', chip) = 1
    BY <1>1 DEF Permits
  <2>1. Free >= 0 /\ Free + Cardinality(Holders) + InFlight(dev, chip) = 1
    BY DEF IInv, Permits
  <2>2. InFlight(dev', chip) = InFlight(dev, chip) /\ InFlight(dev, chip) \in {0, 1}
    BY <1>1, InFlightType DEF InFlight, Pending
  <2>3. /\ Cardinality(Slow) \in Nat /\ Cardinality(Slow') \in Nat
        /\ Cardinality(Slow') = Cardinality(Slow) - InSlow(pc[s]) + InSlow(to)
        /\ Cardinality(Holders) \in Nat /\ Cardinality(Holders') \in Nat
        /\ Cardinality(Holders') = Cardinality(Holders) - Holds(pc[s]) + Holds(to)
    BY <1>0, <1>1, Counts
  <2>4. Sum(dev.sem) \in Int /\ Sum(dev'.sem) \in Int
    BY <1>0, <1>1 DEF Sems, Sum
  <2>5. Free = Sum(dev.sem) + Cardinality(Slow) /\ Free' = Sum(dev'.sem) + Cardinality(Slow')
    BY DEF Free, Sum
  <2>6. /\ Sum(dev'.sem) + InSlow(to) + Holds(to)
              = Sum(dev.sem) + InSlow(pc[s]) + Holds(pc[s])
        /\ \/ Sum(dev'.sem) + InSlow(to) >= Sum(dev.sem) + InSlow(pc[s])
           \/ Sum(dev'.sem) >= 0
    BY DEF SenderEffect
  <2>7. /\ InSlow(to) \in {0, 1} /\ InSlow(pc[s]) \in {0, 1}
        /\ Holds(to) \in {0, 1} /\ Holds(pc[s]) \in {0, 1}
    BY DEF InSlow, Holds
  <2>8. /\ Sum(dev.sem) + Cardinality(Slow) >= 0
        /\ Sum(dev.sem) + Cardinality(Slow) + Cardinality(Holders) + InFlight(dev, chip) = 1
    BY <2>1, <2>5
  <2>9. /\ Sum(dev'.sem) + Cardinality(Slow') >= 0
        /\ Sum(dev'.sem) + Cardinality(Slow') + Cardinality(Holders') + InFlight(dev, chip) = 1
    <3> DEFINE S == Sum(dev.sem)
               T == Sum(dev'.sem)
               l == Cardinality(Slow)
               m == Cardinality(Slow')
               h == Cardinality(Holders)
               k == Cardinality(Holders')
               f == InFlight(dev, chip)
               i == InSlow(pc[s])
               j == InSlow(to)
               p == Holds(pc[s])
               q == Holds(to)
    <3>1. /\ S \in Int /\ T \in Int /\ l \in Nat /\ m \in Nat /\ h \in Nat /\ k \in Nat
          /\ f \in {0, 1} /\ i \in {0, 1} /\ j \in {0, 1} /\ p \in {0, 1} /\ q \in {0, 1}
      BY <2>2, <2>3, <2>4, <2>7
    <3>2. m = l - i + j /\ k = h - p + q
      BY <2>3
    <3>3. T + j + q = S + i + p /\ (T + j >= S + i \/ T >= 0)
      BY <2>6
    <3>4. S + l >= 0 /\ S + l + h + f = 1
      BY <2>8
    <3> HIDE DEF S, T, l, m, h, k, f, i, j, p, q
    <3>5. T + m >= 0 /\ T + m + k + f = 1
      BY <3>1, <3>2, <3>3, <3>4
    <3> QED
      BY <3>5 DEF T, m, k, f
  <2> QED
    BY <2>2, <2>5, <2>9
<1> QED
  BY <1>2, <1>3, <1>4, <1>5, <1>6 DEF IInv

(* Sending on the virtual controller, its loopback, and a sender that      *)
(* finds the controller not operating, are steps on tx_sem only.           *)
LEMMA LoopbackEffect ==
    ASSUME TypeOK, NEW s \in Senders, Loopback(s)
    PROVE  \E to \in PCs : SenderEffect(s, to)
<1>0. dev \in Devices /\ dev.sem \in Sems /\ "idle" \in PCs
  BY DeviceParts DEF TypeOK, PCs
<1>1. dev' = VirtLoop(dev) /\ pc' = [pc EXCEPT ![s] = "idle"] /\ pc[s] = "loop"
  BY DEF Loopback
<1>2. dev' \in Devices /\ SemOnly /\ dev'.sem = dev.sem
  BY <1>0, <1>1, VirtShape DEF SemOnly
<1>3. Sum(dev.sem) \in Int
  BY <1>0 DEF Sum, Sems
<1>4. /\ Sum(dev'.sem) + InSlow("idle") + Holds("idle")
            = Sum(dev.sem) + InSlow(pc[s]) + Holds(pc[s])
      /\ Sum(dev'.sem) + InSlow("idle") >= Sum(dev.sem) + InSlow(pc[s])
  BY <1>1, <1>2, <1>3 DEF InSlow, Holds
<1>5. SenderEffect(s, "idle")
  BY <1>1, <1>2, <1>4 DEF SenderEffect
<1> QED
  BY <1>0, <1>5

(* Giving the permit back with rtdm_sem_up. *)
LEMMA GiveBackEffect ==
    ASSUME TypeOK, NEW s \in Senders, NEW to \in {"idle", "loop"}, pc[s] = "xmit",
           pc' = [pc EXCEPT ![s] = to],
           dev' \in Devices, SemOnly, dev'.sem = SemUp(dev.sem)
    PROVE  SenderEffect(s, to)
<1>0. dev.sem \in Sems
  BY DeviceParts DEF TypeOK
<1>1. /\ dev'.sem.count = dev.sem.count + 1 /\ dev'.sem.sleepers = dev.sem.sleepers
      /\ dev'.sem.gone = dev.sem.gone /\ dev'.sem.queue = dev.sem.queue
      /\ dev.sem.woken \subseteq dev'.sem.woken
  BY <1>0, SemUpShape
<1>2. /\ Sum(dev'.sem) + InSlow(to) + Holds(to)
            = Sum(dev.sem) + InSlow(pc[s]) + Holds(pc[s])
      /\ Sum(dev'.sem) + InSlow(to) >= Sum(dev.sem) + InSlow(pc[s])
  BY <1>0, <1>1 DEF Sum, InSlow, Holds, Sems
<1> QED
  BY <1>1, <1>2 DEF SenderEffect

(* The rest of sendmsg without a frame for a real controller. *)
LEMMA XmitEffect ==
    ASSUME IInv, NEW s \in Senders, Xmit(s), ~Operating(dev) \/ chip = "virt"
    PROVE  \E to \in PCs : SenderEffect(s, to)
<1>0. /\ TypeOK /\ dev \in Devices /\ dev.sem \in Sems /\ "idle" \in PCs /\ "loop" \in PCs
      /\ dev.state \in DevStates
  BY DeviceParts DEF IInv, TypeOK, PCs
<1>1. pc[s] = "xmit"
  BY DEF Xmit
<1>2. CASE ~Operating(dev) /\ dev.state = "SLEEPING"
  <2>1. dev' = [dev EXCEPT !.sem = SemUp(@)] /\ pc' = [pc EXCEPT ![s] = "idle"]
    BY <1>2 DEF Xmit
  <2>2. SemUp(dev.sem) \in Sems
    BY <1>0, SemUpShape
  <2>3. dev' \in Devices /\ SemOnly /\ dev'.sem = SemUp(dev.sem)
    BY <1>0, <2>1, <2>2, NewSem DEF SemOnly
  <2>4. SenderEffect(s, "idle")
    BY <1>0, <1>1, <2>1, <2>3, GiveBackEffect
  <2> QED
    BY <1>0, <2>4
<1>3. CASE ~Operating(dev) /\ dev.state # "SLEEPING"
  <2>1. /\ dev' = dev /\ pc' = [pc EXCEPT ![s] = "idle"]
        /\ upset' = (upset \/ (ctl.pc = "starting" /\ dev.state \in {"STOPPED", "BUS_OFF"}))
    BY <1>3 DEF Xmit
  <2>2. dev.state \in {"STOPPED", "BUS_OFF"}
    BY <1>0, <1>3 DEF DevStates, Operating
  <2>3. dev.sem.gone \/ upset'
    BY <2>1, <2>2 DEF IInv, GoneExact
  <2>4. SenderEffect(s, "idle")
    BY <1>0, <1>1, <2>1, <2>3 DEF SenderEffect, SemOnly
  <2> QED
    BY <1>0, <2>4
<1>4. CASE Operating(dev) /\ chip = "virt"
  <2>1. dev' = VirtXmit(dev) /\ pc' = [pc EXCEPT ![s] = "loop"]
    BY <1>4 DEF Xmit
  <2>2. dev' \in Devices /\ SemOnly /\ dev'.sem = SemUp(dev.sem)
    BY <1>0, <2>1, VirtShape DEF SemOnly
  <2>3. SenderEffect(s, "loop")
    BY <1>0, <1>1, <2>1, <2>2, GiveBackEffect
  <2> QED
    BY <1>0, <2>3
<1> QED
  BY <1>2, <1>3, <1>4

(* A device step, which leaves the senders where they are and does not     *)
(* re-initialise tx_sem, keeps the wait queue right.                       *)
LEMMA QueueKept ==
    ASSUME IInv, upset => upset', Evolves(dev.sem, dev'.sem),
           \A u \in Senders : pc'[u] = "asleep" => pc[u] = "asleep"
    PROVE  AsleepQueued' /\ GoneWakes'
<1> SUFFICES ASSUME ~upset, NEW u \in Senders, pc'[u] = "asleep"
             PROVE  /\ u \in Elements(dev'.sem.queue)
                    /\ dev'.sem.gone => u \in dev'.sem.woken
  BY DEF AsleepQueued, GoneWakes
<1>1. u \in Elements(dev.sem.queue) /\ (dev.sem.gone => u \in dev.sem.woken)
  BY DEF IInv, AsleepQueued, GoneWakes
<1> QED
  BY <1>1 DEF Evolves

(* rtdm_sem_init does so if nobody is inside tx_sem. *)
LEMMA QueueReset ==
    ASSUME upset' \/ Waiting = {}, pc' = pc
    PROVE  AsleepQueued' /\ GoneWakes'
  BY DEF AsleepQueued, GoneWakes, Waiting

(* The permits after a device step: neither tx_sem nor the frame in flight *)
(* changes, or the frame is done and its permit is given back.             *)
LEMMA PermitsKept ==
    ASSUME IInv, pc' = pc, chip' = chip, dev' \in Devices, upset => upset',
           dev'.sem.sleepers = dev.sem.sleepers,
           ~upset' /\ ~dev'.sem.gone /\ ctl'.pc # "stopping" =>
              /\ ~dev.sem.gone /\ ctl.pc # "stopping"
              /\ \/ dev'.sem.count = dev.sem.count /\ (Pending(dev', chip) <=> Pending(dev, chip))
                 \/ /\ dev'.sem.count = dev.sem.count + 1
                    /\ Pending(dev, chip) /\ ~Pending(dev', chip)
    PROVE  Permits'
<1> SUFFICES ASSUME ~upset', ~dev'.sem.gone, ctl'.pc # "stopping"
             PROVE  Free' >= 0 /\ Free' + Cardinality(Holders') + InFlight(dev', chip) = 1
  BY DEF Permits
<1>1. TypeOK /\ Slow' = Slow /\ Holders' = Holders
  BY DEF IInv, Slow, Holders
<1>2. Cardinality(Slow) \in Nat /\ Cardinality(Holders) \in Nat
  BY <1>1, CountTypes
<1>3. Free >= 0 /\ Free + Cardinality(Holders) + InFlight(dev, chip) = 1
  BY DEF IInv, Permits
<1>4. dev.sem \in Sems
  BY <1>1, DeviceParts DEF TypeOK
<1>5. dev.sem.count \in Int /\ dev.sem.sleepers \in Nat
  BY <1>4 DEF Sems
<1>6. /\ Free = dev.sem.count + dev.sem.sleepers + Cardinality(Slow)
      /\ Free' = dev'.sem.count + dev.sem.sleepers + Cardinality(Slow)
  BY <1>1 DEF Free
<1> DEFINE l == Cardinality(Slow)
           h == Cardinality(Holders)
           c == dev.sem.count
           z == dev.sem.sleepers
<1>7. l \in Nat /\ h \in Nat /\ c \in Int /\ z \in Nat
  BY <1>2, <1>5
<1>8. c + z + l >= 0 /\ c + z + l + h + InFlight(dev, chip) = 1
  BY <1>3, <1>6
<1> HIDE DEF l, h, c, z
<1>9. CASE dev'.sem.count = dev.sem.count /\ (Pending(dev', chip) <=> Pending(dev, chip))
  <2>1. InFlight(dev', chip) = InFlight(dev, chip) /\ Free' = Free
    BY <1>6, <1>9 DEF InFlight
  <2> QED
    BY <1>1, <1>3, <2>1
<1>10. CASE /\ dev'.sem.count = dev.sem.count + 1
            /\ Pending(dev, chip) /\ ~Pending(dev', chip)
  <2>1. InFlight(dev', chip) = 0 /\ InFlight(dev, chip) = 1
    BY <1>10 DEF InFlight
  <2>2. Free' = (c + 1) + z + l /\ Cardinality(Holders') = h
    BY <1>1, <1>6, <1>10 DEF c, z, l, h
  <2>3. c + z + l >= 0 /\ c + z + l + h + 1 = 1
    BY <1>8, <2>1
  <2>4. (c + 1) + z + l >= 0 /\ (c + 1) + z + l + h + 0 = 1
    BY <1>7, <2>3
  <2> QED
    BY <2>1, <2>2, <2>4
<1> QED
  BY <1>9, <1>10

(* The permits after rtdm_sem_init: one, if nobody is inside tx_sem or     *)
(* holds a permit and no frame is in flight.                               *)
LEMMA PermitsReset ==
    ASSUME TypeOK, pc' = pc, chip' = chip,
           ~upset' => Waiting \cup Holders = {} /\ ~Pending(dev', chip),
           dev'.sem.count = 1, dev'.sem.sleepers = 0
    PROVE  Permits'
<1> SUFFICES ASSUME ~upset'
             PROVE  Free' >= 0 /\ Free' + Cardinality(Holders') + InFlight(dev', chip) = 1
  BY DEF Permits
<1>1. Slow' = {} /\ Holders' = {}
  BY DEF Slow, Holders, Waiting
<1>2. Cardinality(Slow') = 0 /\ Cardinality(Holders') = 0
  BY <1>1, FS_EmptySet
<1>3. InFlight(dev', chip) = 0
  BY DEF InFlight
<1> QED
  BY <1>2, <1>3 DEF Free

(* While a sender holds the permit no frame is in flight. *)
LEMMA HolderAlone ==
    ASSUME IInv, NEW s \in Senders, pc[s] = "xmit",
           ~upset, ~dev.sem.gone, ctl.pc # "stopping"
    PROVE  ~Pending(dev, chip)
<1>1. TypeOK /\ Holders \subseteq Senders /\ s \in Holders
  BY DEF IInv, Holders
<1>2. IsFiniteSet(Holders)
  BY <1>1, CanTxAssumption, FS_Subset
<1>3. Cardinality(Holders) \in Nat /\ Cardinality(Holders) # 0
  BY <1>1, <1>2, FS_CardinalityType, FS_EmptySet
<1>4. Cardinality(Slow) \in Nat /\ dev.sem \in Sems
  BY <1>1, CountTypes, DeviceParts DEF TypeOK
<1>5. Free \in Int
  BY <1>4 DEF Free, Sems
<1>6. Free >= 0 /\ Free + Cardinality(Holders) + InFlight(dev, chip) = 1
  BY DEF IInv, Permits
<1>7. InFlight(dev, chip) \in {0, 1}
  BY InFlightType
<1>8. InFlight(dev, chip) # 1
  BY <1>3, <1>5, <1>6
<1> QED
  BY <1>7, <1>8 DEF InFlight

(* The permit goes from a sender to the frame in the controller. *)
LEMMA PermitsSent ==
    ASSUME IInv, NEW s \in Senders, pc[s] = "xmit", pc' = [pc EXCEPT ![s] = "idle"],
           dev'.sem = dev.sem, UNCHANGED <<chip, ctl, parked>>, upset => upset',
           ~upset /\ ~dev.sem.gone /\ ctl.pc # "stopping" => Pending(dev', chip)
    PROVE  Permits'
<1> SUFFICES ASSUME ~upset, ~dev.sem.gone, ctl.pc # "stopping"
             PROVE  Free' >= 0 /\ Free' + Cardinality(Holders') + InFlight(dev', chip) = 1
  BY DEF Permits
<1>1. InFlight(dev, chip) = 0 /\ InFlight(dev', chip) = 1
  BY HolderAlone DEF InFlight
<1>2. TypeOK /\ "idle" \in PCs
  BY DEF IInv, PCs
<1>3. /\ Cardinality(Slow) \in Nat /\ Cardinality(Slow') \in Nat
      /\ Cardinality(Slow') = Cardinality(Slow) - InSlow(pc[s]) + InSlow("idle")
      /\ Cardinality(Holders) \in Nat /\ Cardinality(Holders') \in Nat
      /\ Cardinality(Holders') = Cardinality(Holders) - Holds(pc[s]) + Holds("idle")
  BY <1>2, Counts
<1>4. /\ InSlow(pc[s]) = 0 /\ InSlow("idle") = 0 /\ Holds(pc[s]) = 1 /\ Holds("idle") = 0
  BY DEF InSlow, Holds
<1>5. Cardinality(Slow') = Cardinality(Slow) /\ Cardinality(Holders') = Cardinality(Holders) - 1
  BY <1>3, <1>4
<1>6. dev.sem \in Sems
  BY <1>2, DeviceParts DEF TypeOK
<1>7. Free \in Int
  BY <1>3, <1>6 DEF Free, Sems
<1>8. Free' = Free
  BY <1>5 DEF Free
<1>9. Free >= 0 /\ Free + Cardinality(Holders) + InFlight(dev, chip) = 1
  BY DEF IInv, Permits
<1>10. Free + (Cardinality(Holders) - 1) + 1 = 1
  BY <1>1, <1>3, <1>7, <1>9
<1> QED
  BY <1>1, <1>5, <1>8, <1>9, <1>10

(* hard_start_xmit of the SJA1000 driver. *)
LEMMA XmitSja ==
    ASSUME IInv, NEW s \in Senders, Xmit(s), Operating(dev), chip = "sja1000"
    PROVE  IInv'
<1>0. /\ TypeOK /\ dev \in Devices /\ pc \in [Senders -> PCs] /\ "idle" \in PCs
  BY DEF IInv, TypeOK, PCs
<1>1. /\ dev' = SjaXmit(dev) /\ pc' = [pc EXCEPT ![s] = "idle"] /\ pc[s] = "xmit"
      /\ UNCHANGED <<lock, chip, ctl, parked>> /\ upset' \in BOOLEAN /\ (upset => upset')
  BY DEF Xmit
<1>2. /\ dev' \in Devices /\ HwOnly(dev', dev) /\ SameSetup(dev'.hw, dev.hw)
      /\ dev'.hw.ir = dev.hw.ir /\ dev'.hw.rm = dev.hw.rm /\ dev'.hw.bus = dev.hw.bus
      /\ dev'.hw.buf = IF dev.hw.rm THEN "lost" ELSE "busy"
  BY <1>0, <1>1, SjaXmitShape
<1>3. TypeOK'
  BY <1>0, <1>1, <1>2 DEF TypeOK
<1>4. CtlOfChip' /\ SjaBusOff' /\ GoneExact' /\ MscanExact'
  BY <1>1, <1>2 DEF IInv, CtlOfChip, SjaBusOff, GoneExact, MscanExact, HwOnly, Operating
<1>5. ~upset /\ ~dev.sem.gone /\ ctl.pc # "stopping" => ~Pending(dev, chip) /\ SjaLive
  BY <1>1, HolderAlone DEF IInv, SjaExact
<1>6. SjaExact'
  BY <1>1, <1>2, <1>5 DEF IInv, SjaExact, SjaLive, HwOnly, SameSetup, Pending, Operating,
                          OperatingStates
<1>7. AsleepQueued' /\ GoneWakes'
  <2>1. Evolves(dev.sem, dev'.sem)
    BY <1>2, EvolvesSame DEF HwOnly
  <2>2. \A u \in Senders : pc'[u] = "asleep" => pc[u] = "asleep"
    BY <1>0, <1>1
  <2> QED
    BY <1>1, <2>1, <2>2, QueueKept
<1>8. Permits'
  <2>1. ~upset /\ ~dev.sem.gone /\ ctl.pc # "stopping" => Pending(dev', chip)
    BY <1>2, <1>5 DEF Pending, SjaLive
  <2>2. dev'.sem = dev.sem
    BY <1>2 DEF HwOnly
  <2> QED
    BY <1>1, <2>1, <2>2, PermitsSent
<1> QED
  BY <1>3, <1>4, <1>6, <1>7, <1>8 DEF IInv

(* hard_start_xmit of the MSCAN driver. *)
LEMMA XmitMscan ==
    ASSUME IInv, NEW s \in Senders, Xmit(s), Operating(dev), chip = "mscan"
    PROVE  IInv'
<1>0. /\ TypeOK /\ dev \in Devices /\ pc \in [Senders -> PCs] /\ "idle" \in PCs
  BY DEF IInv, TypeOK, PCs
<1>1. /\ dev' = MscanXmit(dev) /\ pc' = [pc EXCEPT ![s] = "idle"] /\ pc[s] = "xmit"
      /\ UNCHANGED <<lock, chip, ctl, parked>> /\ upset' \in BOOLEAN /\ (upset => upset')
  BY DEF Xmit
<1>2. /\ dev' \in Devices /\ HwOnly(dev', dev)
      /\ dev'.hw.ir = dev.hw.ir /\ dev'.hw.rm = dev.hw.rm /\ dev'.hw.req = dev.hw.req
      /\ dev'.hw.asleep = dev.hw.asleep
      /\ dev.hw.buf = "busy" => dev'.hw.buf = "busy" /\ dev'.hw.tie = dev.hw.tie
      /\ dev.hw.buf # "busy" /\ dev.hw.rm => dev'.hw.buf = "lost" /\ dev'.hw.tie = dev.hw.tie
      /\ dev.hw.buf # "busy" /\ ~dev.hw.rm => dev'.hw.buf = "busy" /\ dev'.hw.tie
  BY <1>0, <1>1, MscanXmitShape
<1>3. TypeOK'
  BY <1>0, <1>1, <1>2 DEF TypeOK
<1>4. CtlOfChip' /\ SjaBusOff' /\ GoneExact' /\ SjaExact'
  BY <1>1, <1>2 DEF IInv, CtlOfChip, SjaBusOff, GoneExact, SjaExact, HwOnly, Operating
<1>5. MscanExact'
  BY <1>1, <1>2 DEF IInv, MscanExact, HwOnly
<1>6. AsleepQueued' /\ GoneWakes'
  <2>1. Evolves(dev.sem, dev'.sem)
    BY <1>2, EvolvesSame DEF HwOnly
  <2>2. \A u \in Senders : pc'[u] = "asleep" => pc[u] = "asleep"
    BY <1>0, <1>1
  <2> QED
    BY <1>1, <2>1, <2>2, QueueKept
<1>7. Permits'
  <2>1. ASSUME ~upset, ~dev.sem.gone, ctl.pc # "stopping" PROVE Pending(dev', chip)
    <3>1. ~dev.hw.rm
      BY <2>1 DEF IInv, MscanExact, Operating, OperatingStates
    <3> QED
      BY <1>2, <3>1 DEF Pending
  <2>2. dev'.sem = dev.sem
    BY <1>2 DEF HwOnly
  <2> QED
    BY <1>1, <2>1, <2>2, PermitsSent
<1> QED
  BY <1>3, <1>4, <1>5, <1>6, <1>7 DEF IInv

(* A device whose controller is replaced. *)
LEMMA NewHw ==
    ASSUME NEW d \in Devices, NEW h \in Controllers
    PROVE  LET D == [d EXCEPT !.hw = h] IN D \in Devices /\ HwOnly(D, d) /\ D.hw = h
  BY DEF Devices, HwOnly

(* A step of the controller alone: what is left to show. *)
LEMMA HwStep ==
    ASSUME IInv, NEW g \in Controllers, dev' = [dev EXCEPT !.hw = g], chip # "virt",
           UNCHANGED <<chip, pc, lock, ctl, parked>>, upset' \in BOOLEAN, upset => upset',
           SjaBusOff', SjaExact', MscanExact',
           ~upset' /\ ~dev.sem.gone /\ ctl.pc # "stopping" =>
              (Pending(dev', chip) <=> Pending(dev, chip))
    PROVE  IInv'
<1>1. dev \in Devices /\ TypeOK
  BY DEF IInv, TypeOK
<1>2. dev' \in Devices /\ HwOnly(dev', dev)
  BY <1>1, NewHw
<1>3. TypeOK'
  BY <1>1, <1>2 DEF TypeOK
<1>4. CtlOfChip' /\ GoneExact'
  BY <1>2 DEF IInv, CtlOfChip, GoneExact, HwOnly, Operating
<1>5. AsleepQueued' /\ GoneWakes'
  BY <1>2, EvolvesSame, QueueKept DEF HwOnly
<1>6. Permits'
  BY <1>2, PermitsKept DEF HwOnly
<1> QED
  BY <1>3, <1>4, <1>5, <1>6 DEF IInv

(* A frame is sent. *)
LEMMA SentPreserves == ASSUME IInv, Sent PROVE IInv'
<1>0. dev \in Devices /\ dev.hw \in Controllers
  BY DeviceParts DEF IInv, TypeOK
<1>1. /\ chip # "virt" /\ UNCHANGED <<chip, pc, lock, ctl, parked>>
      /\ upset' = (upset \/ (chip = "sja1000" /\ dev.hw.ier # "all"))
  BY DEF Sent
<1>2. upset' \in BOOLEAN /\ (upset => upset')
  BY <1>1
<1>3. CASE chip = "sja1000"
  <2>1. PICK g \in SjaSent(dev.hw) : dev' = [dev EXCEPT !.hw = g]
    BY <1>3 DEF Sent
  <2>2. /\ g \in Controllers /\ SameSetup(g, dev.hw)
        /\ dev.hw.buf = "busy" /\ ~dev.hw.rm /\ g.buf = "free" /\ g.rm = dev.hw.rm
        /\ g.bus = dev.hw.bus
        /\ dev.hw.ir \subseteq g.ir /\ g.ir \subseteq dev.hw.ir \cup {"TI"}
        /\ dev.hw.ier = "all" => g.ir = dev.hw.ir \cup {"TI"}
    BY <1>0, <2>1, SjaSentShape
  <2>3. HwOnly(dev', dev) /\ dev'.hw = g
    BY <1>0, <2>1, <2>2, NewHw
  <2>4. SjaBusOff'
    BY <1>1, <2>2, <2>3 DEF IInv, SjaBusOff, HwOnly
  <2>5. SjaExact' /\ MscanExact'
    BY <1>1, <1>2, <1>3, <2>2, <2>3
       DEF IInv, SjaExact, SjaLive, MscanExact, HwOnly, SameSetup
  <2>6. ~upset' => (Pending(dev', chip) <=> Pending(dev, chip))
    BY <1>1, <1>3, <2>2, <2>3 DEF Pending
  <2> QED
    BY <1>1, <1>2, <2>1, <2>2, <2>4, <2>5, <2>6, HwStep
<1>4. CASE chip # "sja1000"
  <2>0. chip = "mscan"
    BY <1>1, <1>4, CanTxAssumption DEF IInv, TypeOK
  <2>1. PICK g \in MscanSent(dev.hw) : dev' = [dev EXCEPT !.hw = g]
    BY <1>4 DEF Sent
  <2>2. /\ g \in Controllers /\ dev.hw.buf = "busy" /\ g.buf = "free"
        /\ g.ir = dev.hw.ir /\ g.tie = dev.hw.tie /\ g.req = dev.hw.req /\ g.rm = dev.hw.rm
        /\ g.asleep = dev.hw.asleep
    BY <1>0, <2>1, MscanSentShape
  <2>3. HwOnly(dev', dev) /\ dev'.hw = g
    BY <1>0, <2>1, <2>2, NewHw
  <2>4. SjaBusOff' /\ SjaExact' /\ MscanExact'
    BY <1>1, <1>2, <1>4, <2>2, <2>3 DEF IInv, SjaBusOff, SjaExact, MscanExact, HwOnly
  <2>5. ~upset' => (Pending(dev', chip) <=> Pending(dev, chip))
    BY <1>1, <1>2, <2>0, <2>2, <2>3 DEF Pending, IInv, MscanExact
  <2> QED
    BY <1>1, <1>2, <2>1, <2>2, <2>4, <2>5, HwStep
<1> QED
  BY <1>3, <1>4

(* The error level of the bus changes, or sleep mode ends. *)
LEMMA BusChangePreserves == ASSUME IInv, BusChange PROVE IInv'
<1>0. dev \in Devices /\ dev.hw \in Controllers
  BY DeviceParts DEF IInv, TypeOK
<1>1. chip # "virt" /\ UNCHANGED <<chip, pc, lock, ctl, upset, parked>>
  BY DEF BusChange
<1>2. upset' \in BOOLEAN /\ (upset => upset')
  BY <1>1 DEF IInv, TypeOK
<1>3. CASE chip = "sja1000"
  <2>1. PICK g \in SjaBus(dev.hw) : dev' = [dev EXCEPT !.hw = g]
    BY <1>3 DEF BusChange
  <2>2. dev.hw.bus = "off" => dev.hw.rm
    BY <1>3 DEF IInv, SjaBusOff
  <2>3. /\ g \in Controllers /\ SameSetup(g, dev.hw) /\ ~dev.hw.rm
        /\ GoesOff(dev.hw, g) \/ StaysOn(dev.hw, g)
    BY <1>0, <2>1, <2>2, SjaBusShape
  <2>4. HwOnly(dev', dev) /\ dev'.hw = g
    BY <1>0, <2>1, <2>3, NewHw
  <2>5. MscanExact'
    BY <1>1, <1>3 DEF MscanExact
  <2>6. CASE GoesOff(dev.hw, g)
    <3>1. SjaBusOff'
      BY <1>1, <1>3, <2>3, <2>4, <2>6 DEF IInv, SjaBusOff, HwOnly, GoesOff
    <3>2. SjaExact'
      BY <1>1, <1>3, <2>3, <2>4, <2>6
         DEF IInv, SjaExact, SjaLive, SjaBusOff, HwOnly, SameSetup, GoesOff
    <3>3. ~upset /\ ~dev.sem.gone /\ ctl.pc # "stopping" =>
             (Pending(dev', chip) <=> Pending(dev, chip))
      BY <1>1, <1>3, <2>3, <2>4, <2>6 DEF IInv, SjaExact, SjaLive, Pending, GoesOff
    <3> QED
      BY <1>1, <1>2, <2>1, <2>3, <2>5, <3>1, <3>2, <3>3, HwStep
  <2>7. CASE StaysOn(dev.hw, g)
    <3>1. SjaBusOff'
      BY <1>1, <1>3, <2>3, <2>4, <2>7 DEF IInv, SjaBusOff, HwOnly, StaysOn
    <3>2. SjaExact'
      BY <1>1, <1>3, <2>3, <2>4, <2>7
         DEF IInv, SjaExact, SjaLive, SjaBusOff, HwOnly, SameSetup, StaysOn
    <3>3. ~upset /\ ~dev.sem.gone /\ ctl.pc # "stopping" =>
             (Pending(dev', chip) <=> Pending(dev, chip))
      BY <1>1, <1>3, <2>3, <2>4, <2>7 DEF IInv, SjaExact, SjaLive, Pending, StaysOn
    <3> QED
      BY <1>1, <1>2, <2>1, <2>3, <2>5, <3>1, <3>2, <3>3, HwStep
  <2> QED
    BY <2>3, <2>6, <2>7
<1>4. CASE chip # "sja1000"
  <2>0. chip = "mscan"
    BY <1>1, <1>4, CanTxAssumption DEF IInv, TypeOK
  <2>1. PICK g \in MscanBus(dev.hw) : dev' = [dev EXCEPT !.hw = g]
    BY <1>4 DEF BusChange
  <2>2. /\ g \in Controllers /\ (~dev.hw.rm \/ dev.hw.asleep)
        /\ g.buf = dev.hw.buf /\ g.tie = dev.hw.tie /\ g.req = dev.hw.req /\ g.rm = dev.hw.rm
        /\ g.asleep => dev.hw.asleep
    BY <1>0, <2>1, MscanBusShape
  <2>3. HwOnly(dev', dev) /\ dev'.hw = g
    BY <1>0, <2>1, <2>2, NewHw
  <2>4. SjaBusOff' /\ SjaExact'
    BY <1>1, <1>4 DEF SjaBusOff, SjaExact
  <2>5. MscanExact'
    BY <1>1, <2>0, <2>2, <2>3 DEF IInv, MscanExact, HwOnly
  <2>6. Pending(dev', chip) <=> Pending(dev, chip)
    BY <2>0, <2>2, <2>3 DEF Pending
  <2> QED
    BY <1>1, <1>2, <2>1, <2>2, <2>4, <2>5, <2>6, HwStep
<1> QED
  BY <1>3, <1>4

(* A reset request is obeyed; only a stop makes one. *)
LEMMA ResetPreserves == ASSUME IInv, Reset PROVE IInv'
<1>0. dev \in Devices /\ dev.hw \in Controllers
  BY DeviceParts DEF IInv, TypeOK
<1>1. chip # "virt" /\ UNCHANGED <<chip, pc, lock, ctl, upset, parked>>
  BY DEF Reset
<1>2. upset' \in BOOLEAN /\ (upset => upset')
  BY <1>1 DEF IInv, TypeOK
<1>3. CASE chip = "sja1000"
  <2>1. PICK g \in SjaReset(dev.hw) : dev' = [dev EXCEPT !.hw = g]
    BY <1>3 DEF Reset
  <2>2. /\ g \in Controllers /\ dev.hw.req /\ ~dev.hw.rm
        /\ g.ier = dev.hw.ier /\ g.tie = dev.hw.tie /\ g.bus = dev.hw.bus
        /\ g.rm /\ ~g.req /\ g.buf = "free" /\ g.ir = {}
    BY <1>0, <2>1, SjaResetShape
  <2>3. HwOnly(dev', dev) /\ dev'.hw = g
    BY <1>0, <2>1, <2>2, NewHw
  <2>4. SjaBusOff' /\ MscanExact'
    BY <1>1, <1>3, <2>2, <2>3 DEF IInv, SjaBusOff, MscanExact, HwOnly
  <2>5. SjaExact'
    BY <1>1, <1>3, <2>2, <2>3 DEF IInv, SjaExact, SjaLive, HwOnly
  <2>6. ~(~upset /\ ~dev.sem.gone /\ ctl.pc # "stopping")
    BY <1>3, <2>2 DEF IInv, SjaExact, SjaLive
  <2> QED
    BY <1>1, <1>2, <2>1, <2>2, <2>4, <2>5, <2>6, HwStep
<1>4. CASE chip # "sja1000"
  <2>0. chip = "mscan"
    BY <1>1, <1>4, CanTxAssumption DEF IInv, TypeOK
  <2>1. PICK g \in MscanReset(dev.hw) : dev' = [dev EXCEPT !.hw = g]
    BY <1>4 DEF Reset
  <2>2. /\ g \in Controllers /\ dev.hw.req /\ ~dev.hw.rm
        /\ g.rm /\ ~g.req /\ ~g.tie /\ ~g.asleep /\ g.buf = "free" /\ g.ir = {}
    BY <1>0, <2>1, MscanResetShape
  <2>3. HwOnly(dev', dev) /\ dev'.hw = g
    BY <1>0, <2>1, <2>2, NewHw
  <2>4. SjaBusOff' /\ SjaExact'
    BY <1>1, <1>4 DEF SjaBusOff, SjaExact
  <2>5. MscanExact'
    BY <1>1, <2>0, <2>2, <2>3 DEF IInv, MscanExact, HwOnly
  <2>6. ~(~upset /\ ctl.pc # "stopping")
    BY <2>0, <2>2 DEF IInv, MscanExact
  <2> QED
    BY <1>1, <1>2, <2>1, <2>2, <2>4, <2>5, <2>6, HwStep
<1> QED
  BY <1>3, <1>4

(* rtcan_sja_enable_bus_err *)
LEMMA EnableBusErrPreserves == ASSUME IInv, EnableBusErr PROVE IInv'
<1>0. dev \in Devices
  BY DEF IInv, TypeOK
<1>1. /\ chip = "sja1000" /\ dev' = SjaEnableBusErr(dev)
      /\ UNCHANGED <<chip, pc, lock, ctl, upset, parked>>
  BY DEF EnableBusErr
<1>2. /\ dev' \in Devices /\ HwOnly(dev', dev) /\ SameSetup(dev'.hw, dev.hw)
      /\ dev'.hw.ir = dev.hw.ir /\ dev'.hw.rm = dev.hw.rm /\ dev'.hw.bus = dev.hw.bus
      /\ dev'.hw.buf = dev.hw.buf
  BY <1>0, <1>1, SjaEnableBusErrShape
<1>3. TypeOK'
  BY <1>1, <1>2 DEF IInv, TypeOK
<1>4. CtlOfChip' /\ SjaBusOff' /\ GoneExact' /\ MscanExact'
  BY <1>1, <1>2 DEF IInv, CtlOfChip, SjaBusOff, GoneExact, MscanExact, HwOnly, Operating
<1>5. SjaExact'
  BY <1>1, <1>2 DEF IInv, SjaExact, SjaLive, HwOnly, SameSetup
<1>6. AsleepQueued' /\ GoneWakes'
  BY <1>1, <1>2, EvolvesSame, QueueKept DEF HwOnly
<1>7. Permits'
  <2>1. Pending(dev', chip) <=> Pending(dev, chip)
    BY <1>1, <1>2 DEF Pending
  <2> QED
    BY <1>1, <1>2, <2>1, PermitsKept DEF HwOnly
<1> QED
  BY <1>3, <1>4, <1>5, <1>6, <1>7 DEF IInv

(* The SJA1000 interrupt.  Only the bus-off interrupt can come in reset    *)
(* mode, and a stopped or bus-off controller has no other.                 *)
LEMMA SjaIrqPreserves == ASSUME IInv, SjaIrq PROVE IInv'
<1> DEFINE ir == dev.hw.ir
           off == "EI" \in ir /\ dev.hw.bus \in {"off", "recovering"}
<1>0. dev \in Devices /\ dev.sem \in Sems /\ TypeOK
  BY DeviceParts DEF IInv, TypeOK
<1>1. /\ chip = "sja1000" /\ ir # {} /\ dev' = SjaInterrupt(dev)
      /\ UNCHANGED <<chip, pc, ctl, parked>> /\ lock' \in {"irq", "free"}
      /\ upset' = (upset \/ (Dropped(dev, ir) /\ "EI" \in ir))
  BY DEF SjaIrq
<1>2. /\ dev' \in Devices
      /\ dev'.hw.ir = {}
      /\ dev'.hw.buf = IF dev.hw.buf = "lost" /\ "EI" \in ir THEN "free" ELSE dev.hw.buf
      /\ dev'.hw.req = dev.hw.req /\ dev'.hw.rm = dev.hw.rm /\ dev'.hw.bus = dev.hw.bus
      /\ dev'.state \in OperatingStates \cup {"BUS_OFF", dev.state}
      /\ dev'.state = "BUS_OFF" /\ dev.state # "BUS_OFF" => off
      /\ off /\ ~Dropped(dev, ir) => dev'.state = "BUS_OFF"
      /\ "EI" \in ir /\ dev'.state = "BUS_OFF" /\ ~Dropped(dev, ir) =>
            dev'.hw.ier = "EI" /\ dev'.sem.gone
      /\ dev'.state # "BUS_OFF" =>
            dev'.hw.ier \in {dev.hw.ier, "all"} /\ dev'.sem.gone = dev.sem.gone
      /\ dev'.sem.sleepers = dev.sem.sleepers
      /\ dev'.sem.count = dev.sem.count + (IF "TI" \in ir THEN 1 ELSE 0)
      /\ Evolves(dev.sem, dev'.sem)
  BY <1>0, <1>1, SjaInterruptShape
<1>3. TypeOK' /\ CtlOfChip' /\ MscanExact'
  BY <1>0, <1>1, <1>2 DEF TypeOK, IInv, CtlOfChip, MscanExact
<1>4. off => dev.hw.rm /\ dev.hw.bus = "off"
  BY <1>1 DEF IInv, SjaBusOff
<1>5. SjaBusOff'
  BY <1>1, <1>2, <1>4 DEF IInv, SjaBusOff
<1>6. AsleepQueued' /\ GoneWakes'
  BY <1>1, <1>2, QueueKept
<1>7. ASSUME ~upset'
      PROVE  /\ ~upset /\ ("EI" \in ir => ~Dropped(dev, ir))
             /\ dev.state # "BUS_OFF"
             /\ dev.hw.rm => off
             /\ dev'.state = "BUS_OFF" <=> off
             /\ dev.state = "STOPPED" => off
  <2>1. ~upset /\ ("EI" \in ir => ~Dropped(dev, ir))
    BY <1>1, <1>7
  <2>2. dev.hw.rm => "EI" \in ir /\ dev.hw.bus = "off"
    BY <1>1, <2>1 DEF IInv, SjaExact
  <2>3. dev.state # "BUS_OFF"
    BY <1>1, <2>2 DEF IInv, SjaBusOff
  <2>4. dev.state = "STOPPED" => off
    BY <1>1, <2>1, <2>2 DEF IInv, SjaExact
  <2> QED
    BY <1>2, <2>1, <2>2, <2>3, <2>4
<1>8. GoneExact'
  <2>1. ctl.pc \notin {"starting", "sleeping"}
    BY <1>1 DEF IInv, CtlOfChip
  <2> SUFFICES ASSUME ~upset'
               PROVE  dev'.sem.gone <=> dev'.state \in {"STOPPED", "BUS_OFF"}
    BY <1>1, <2>1 DEF GoneExact
  <2>2. CASE off
    BY <1>2, <1>7, <2>2
  <2>3. CASE ~off
    <3>1. dev'.state # "BUS_OFF" /\ dev.state \notin {"STOPPED", "BUS_OFF"} /\ ~upset
      BY <1>7, <2>3
    <3>2. ~dev.sem.gone
      BY <3>1, <2>1 DEF IInv, GoneExact
    <3>3. dev'.state # "STOPPED"
      BY <1>2, <3>1 DEF OperatingStates
    <3> QED
      BY <1>2, <3>1, <3>2, <3>3
  <2> QED
    BY <2>2, <2>3
<1>9. SjaExact'
  <2> SUFFICES ASSUME ~upset' PROVE SjaExact'
    BY DEF SjaExact
  <2>1. CASE off
    BY <1>1, <1>2, <1>4, <1>7, <2>1 DEF SjaExact
  <2>2. CASE ~off
    <3>1. /\ ~upset /\ ~dev.hw.rm /\ dev'.state # "BUS_OFF"
          /\ dev.state # "STOPPED"
      BY <1>7, <2>2
    <3>2. dev'.state # "STOPPED"
      BY <1>2, <3>1 DEF OperatingStates
    <3>3. ~dev'.sem.gone /\ ctl.pc # "stopping" => SjaLive
      BY <1>1, <1>2, <3>1 DEF IInv, SjaExact
    <3>4. ~dev'.sem.gone /\ ctl.pc # "stopping" => SjaLive'
      BY <1>2, <3>1, <3>3 DEF SjaLive
    <3> QED
      BY <1>1, <1>2, <3>1, <3>2, <3>4 DEF SjaExact
  <2> QED
    BY <2>1, <2>2
<1>10. Permits'
  <2>1. ASSUME ~upset', ~dev'.sem.gone, ctl'.pc # "stopping"
        PROVE  /\ ~dev.sem.gone /\ ctl.pc # "stopping"
               /\ \/ /\ dev'.sem.count = dev.sem.count
                     /\ Pending(dev', chip) <=> Pending(dev, chip)
                  \/ /\ dev'.sem.count = dev.sem.count + 1
                     /\ Pending(dev, chip) /\ ~Pending(dev', chip)
    <3>1. ~off /\ ~dev.hw.rm /\ ~upset
      BY <1>2, <1>7, <2>1
    <3>2. ~dev.sem.gone /\ ctl.pc # "stopping"
      BY <1>1, <1>2, <2>1 DEF Evolves
    <3>3. SjaLive
      BY <1>1, <3>1, <3>2 DEF IInv, SjaExact
    <3>4. dev.hw.buf # "lost" /\ dev'.hw.buf = dev.hw.buf
      BY <1>2, <3>1, <3>3 DEF SjaLive
    <3>5. CASE "TI" \in ir
      <4>1. dev.hw.buf # "busy"
        BY <3>3, <3>5 DEF SjaLive
      <4> QED
        BY <1>1, <1>2, <3>2, <3>4, <3>5, <4>1 DEF Pending
    <3>6. CASE "TI" \notin ir
      <4>1. dev'.sem.count = dev.sem.count
        BY <1>0, <1>2, <3>6 DEF Sems
      <4> QED
        BY <1>1, <1>2, <3>2, <3>4, <3>6, <4>1 DEF Pending
    <3> QED
      BY <3>5, <3>6
  <2> QED
    BY <1>1, <1>2, <2>1, PermitsKept
<1> QED
  BY <1>3, <1>5, <1>6, <1>8, <1>9, <1>10 DEF IInv

(* The error part of the MSCAN interrupt, on a device that differs from    *)
(* dev at most in the loopback frame.                                      *)
LEMMA MscanRestPreserves ==
    ASSUME IInv, chip = "mscan", NEW d \in Devices,
           d.state = dev.state /\ d.sem = dev.sem /\ d.hw = dev.hw,
           dev' = MscanRest(d), UNCHANGED <<chip, pc, ctl, parked>>,
           lock' \in Senders \cup {"free", "irq"},
           upset' \in BOOLEAN, upset \/ StrayState => upset'
    PROVE  IInv'
<1>0. dev.sem \in Sems /\ TypeOK
  BY DeviceParts DEF IInv, TypeOK
<1>1. /\ dev' \in Devices
      /\ dev'.hw.ir = {} /\ dev'.hw.buf = dev.hw.buf /\ dev'.hw.tie = dev.hw.tie
      /\ dev'.hw.req = dev.hw.req /\ dev'.hw.rm = dev.hw.rm /\ dev'.hw.asleep = dev.hw.asleep
      /\ ~Seen(dev.hw) => dev'.state = dev.state
      /\ Seen(dev.hw) => dev'.state \in OperatingStates \cup {"BUS_OFF"}
      /\ IF Seen(dev.hw) /\ dev'.state = "BUS_OFF"
         THEN dev'.sem = SemDestroy(dev.sem) ELSE dev'.sem = dev.sem
  BY MscanRestShape
<1>2. upset' \in BOOLEAN /\ (upset => upset')
  OBVIOUS
<1>3. TypeOK' /\ CtlOfChip' /\ SjaBusOff' /\ SjaExact'
  BY <1>0, <1>1, <1>2 DEF TypeOK, IInv, CtlOfChip, SjaBusOff, SjaExact
<1>4. /\ Evolves(dev.sem, dev'.sem) /\ dev'.sem.sleepers = dev.sem.sleepers
      /\ dev'.sem.count = dev.sem.count
      /\ Seen(dev.hw) /\ dev'.state = "BUS_OFF" => dev'.sem.gone
      /\ ~(Seen(dev.hw) /\ dev'.state = "BUS_OFF") => dev'.sem.gone = dev.sem.gone
  BY <1>0, <1>1, EvolvesSame, EvolvesDestroy, SemDestroyShape
<1>5. AsleepQueued' /\ GoneWakes'
  BY <1>2, <1>4, QueueKept
<1>6. GoneExact'
  <2> SUFFICES ASSUME ~upset' PROVE GoneExact'
    BY DEF GoneExact
  <2>1. ~upset /\ ~StrayState
    BY <1>2
  <2>2. CASE dev'.state = dev.state /\ dev'.sem.gone = dev.sem.gone
    BY <2>1, <2>2 DEF IInv, GoneExact, Operating
  <2>3. CASE dev'.state # dev.state \/ dev'.sem.gone # dev.sem.gone
    <3>1. Seen(dev.hw)
      BY <1>1, <2>3
    <3>2. CASE dev'.state = "BUS_OFF"
      BY <1>4, <2>1, <3>1, <3>2 DEF GoneExact, StrayState
    <3>3. CASE dev'.state \in OperatingStates
      <4>1. Operating(dev) /\ Operating(dev')
        BY <2>1, <3>3 DEF StrayState, Operating
      <4>2. dev'.state # "BUS_OFF" /\ dev'.sem.gone = dev.sem.gone
        BY <1>4, <3>3 DEF OperatingStates
      <4> QED
        BY <2>1, <4>1, <4>2 DEF IInv, GoneExact, Operating, OperatingStates
    <3> QED
      BY <1>1, <3>1, <3>2, <3>3
  <2> QED
    BY <2>2, <2>3
<1>7. MscanExact'
  <2> SUFFICES ASSUME ~upset' PROVE MscanExact'
    BY DEF MscanExact
  <2>1. ~upset
    BY <1>2
  <2>2. ctl.pc # "stopping" /\ dev'.state # "STOPPED" => ~dev.hw.rm
    <3>1. Seen(dev.hw) => ~dev.hw.rm
      BY <2>1 DEF IInv, MscanExact, Seen
    <3> QED
      BY <1>1, <2>1, <3>1 DEF IInv, MscanExact
  <2> QED
    BY <1>1, <2>1, <2>2 DEF IInv, MscanExact
<1>8. Permits'
  <2>1. Pending(dev', chip) <=> Pending(dev, chip)
    BY <1>1 DEF Pending
  <2>2. ~dev'.sem.gone => ~dev.sem.gone
    BY <1>4 DEF Evolves
  <2> QED
    BY <1>1, <1>2, <1>4, <2>1, <2>2, PermitsKept
<1> QED
  BY <1>3, <1>5, <1>6, <1>7, <1>8 DEF IInv

(* The MSCAN interrupt. *)
LEMMA MscanIrqPreserves == ASSUME IInv, MscanIrq PROVE IInv'
<1>0. dev \in Devices /\ dev.sem \in Sems /\ TypeOK
  BY DeviceParts DEF IInv, TypeOK
<1>1. /\ chip = "mscan" /\ UNCHANGED <<chip, pc, ctl, parked>>
      /\ upset' = (upset \/ StrayState \/ (~MscanTx(dev) /\ MscanMissed(dev)))
  BY DEF MscanIrq
<1>4. upset' \in BOOLEAN /\ (upset \/ StrayState => upset')
  BY <1>0, <1>1 DEF TypeOK
<1>2. CASE MscanTx(dev)
  <2>1. dev' = MscanTxPart(dev) /\ lock' = "irq"
    BY <1>2 DEF MscanIrq
  <2>2. /\ dev' \in Devices /\ dev'.state = dev.state
        /\ dev'.sem = SemUp(dev.sem) /\ ~dev'.hw.tie /\ dev'.hw.ir = dev.hw.ir
        /\ dev'.hw.buf = dev.hw.buf /\ dev'.hw.req = dev.hw.req /\ dev'.hw.rm = dev.hw.rm
        /\ dev'.hw.asleep = dev.hw.asleep
    BY <1>0, <2>1, MscanTxPartShape
  <2>3. /\ Evolves(dev.sem, dev'.sem) /\ dev'.sem.sleepers = dev.sem.sleepers
        /\ dev'.sem.count = dev.sem.count + 1 /\ dev'.sem.gone = dev.sem.gone
    BY <1>0, <2>2, SemUpShape, EvolvesUp
  <2>4. upset' \in BOOLEAN /\ (upset => upset')
    BY <1>4
  <2>5. TypeOK' /\ CtlOfChip' /\ SjaBusOff' /\ SjaExact'
    BY <1>0, <1>1, <2>1, <2>2, <2>4 DEF TypeOK, IInv, CtlOfChip, SjaBusOff, SjaExact
  <2>6. GoneExact' /\ MscanExact'
    BY <1>1, <1>2, <2>2, <2>3, <2>4 DEF IInv, GoneExact, MscanExact, MscanTx, Operating
  <2>7. AsleepQueued' /\ GoneWakes'
    BY <1>1, <2>3, <2>4, QueueKept
  <2>8. Pending(dev, chip) /\ ~Pending(dev', chip)
    BY <1>1, <1>2, <2>2 DEF MscanTx, Pending
  <2>9. Permits'
    BY <1>1, <2>2, <2>3, <2>4, <2>8, PermitsKept
  <2> QED
    BY <2>5, <2>6, <2>7, <2>9 DEF IInv
<1>3. CASE ~MscanTx(dev)
  <2>1. dev' = MscanRest(dev) /\ lock' \in Senders \cup {"free", "irq"}
    BY <1>0, <1>3 DEF MscanIrq, TypeOK
  <2> QED
    BY <1>0, <1>1, <1>4, <2>1, MscanRestPreserves
<1> QED
  BY <1>2, <1>3

(* The second half of a transmit interrupt. *)
LEMMA IrqLoopbackPreserves == ASSUME IInv, IrqLoopback PROVE IInv'
<1> DEFINE d == [dev EXCEPT !.skb = None]
<1>0. /\ d \in Devices /\ d.state = dev.state /\ d.sem = dev.sem /\ d.hw = dev.hw
      /\ TypeOK
  BY DEF IInv, TypeOK, Devices
<1>1. /\ UNCHANGED <<chip, pc, ctl, parked>> /\ lock' = "free"
      /\ upset' = (upset \/ StrayState \/ (chip = "mscan" /\ MscanMissed(dev)))
      /\ dev' = IF chip = "mscan" THEN MscanRest(d) ELSE d
  BY DEF IrqLoopback
<1>4. upset' \in BOOLEAN /\ (upset \/ StrayState => upset')
  BY <1>0, <1>1 DEF TypeOK
<1> HIDE DEF d
<1>2. CASE chip = "mscan"
  BY <1>0, <1>1, <1>2, <1>4, MscanRestPreserves
<1>3. CASE chip # "mscan"
  <2>1. /\ dev' \in Devices /\ dev'.state = dev.state /\ dev'.sem = dev.sem /\ dev'.hw = dev.hw
    BY <1>0, <1>1, <1>3
  <2>2. upset' \in BOOLEAN /\ (upset => upset')
    BY <1>4
  <2>3. TypeOK' /\ CtlOfChip' /\ SjaBusOff' /\ MscanExact'
    BY <1>0, <1>1, <1>3, <2>1, <2>2 DEF TypeOK, IInv, CtlOfChip, SjaBusOff, MscanExact
  <2>4. GoneExact' /\ SjaExact'
    BY <1>1, <2>1, <2>2 DEF IInv, GoneExact, SjaExact, SjaLive, Operating
  <2>5. AsleepQueued' /\ GoneWakes'
    BY <1>1, <2>1, <2>2, EvolvesSame, QueueKept
  <2>6. Pending(dev', chip) <=> Pending(dev, chip)
    BY <2>1 DEF Pending
  <2>7. Permits'
    BY <1>1, <2>1, <2>2, <2>6, PermitsKept
  <2> QED
    BY <2>3, <2>4, <2>5, <2>7 DEF IInv
<1> QED
  BY <1>2, <1>3

-----------------------------------------------------------------------------
(* The control task.                                                       *)

(* The control task is idle, or goes on with a step of a mode change. *)
LEMMA CtlValues ==
    /\ CtlIdle \in [pc : CtlPCs, started : BOOLEAN] /\ CtlIdle.pc = "idle"
    /\ CtlIdle.started = FALSE
    /\ \A step \in CtlPCs, b \in BOOLEAN :
          LET c == [pc |-> step, started |-> b]
          IN  c \in [pc : CtlPCs, started : BOOLEAN] /\ c.pc = step /\ c.started = b
<1>1. \A step \in CtlPCs, b \in BOOLEAN :
         LET c == [pc |-> step, started |-> b]
         IN  c \in [pc : CtlPCs, started : BOOLEAN] /\ c.pc = step /\ c.started = b
  OBVIOUS
<1>2. "idle" \in CtlPCs /\ FALSE \in BOOLEAN
  BY DEF CtlPCs
<1>3. /\ CtlIdle \in [pc : CtlPCs, started : BOOLEAN] /\ CtlIdle.pc = "idle"
      /\ CtlIdle.started = FALSE
  BY <1>1, <1>2, Zenon DEF CtlIdle
<1> QED
  BY <1>1, <1>3

(* A step of the control task that leaves the permits in tx_sem alone:     *)
(* what is left to show.                                                   *)
LEMMA CtlStep ==
    ASSUME IInv, dev' \in Devices, UNCHANGED <<chip, pc, lock, parked>>,
           ctl' \in [pc : CtlPCs, started : BOOLEAN], upset' \in BOOLEAN, upset => upset',
           Evolves(dev.sem, dev'.sem), dev'.sem.sleepers = dev.sem.sleepers,
           dev'.sem.count = dev.sem.count,
           CtlOfChip', SjaBusOff', GoneExact', SjaExact', MscanExact',
           ~upset' /\ ~dev'.sem.gone /\ ctl'.pc # "stopping" =>
              /\ ~dev.sem.gone /\ ctl.pc # "stopping"
              /\ Pending(dev', chip) <=> Pending(dev, chip)
    PROVE  IInv'
<1>1. TypeOK'
  BY DEF IInv, TypeOK
<1>2. AsleepQueued' /\ GoneWakes'
  BY QueueKept
<1>3. Permits'
  BY PermitsKept
<1> QED
  BY <1>1, <1>2, <1>3 DEF IInv

(* A step of the control task that sets tx_sem up: what is left to show. *)
LEMMA CtlReset ==
    ASSUME IInv, dev' \in Devices, UNCHANGED <<chip, pc, lock, parked>>,
           ctl' \in [pc : CtlPCs, started : BOOLEAN], upset' = (upset \/ Upsets),
           NEW m \in Sems, dev'.sem = SemInit(m),
           CtlOfChip', SjaBusOff', GoneExact', SjaExact', MscanExact',
           ~upset' => ~Pending(dev', chip)
    PROVE  IInv'
<1>0. TypeOK
  BY DEF IInv
<1>1. TypeOK'
  BY <1>0 DEF TypeOK
<1>2. ~upset' => Waiting \cup Holders = {}
  BY DEF Upsets
<1>3. AsleepQueued' /\ GoneWakes'
  BY <1>2, QueueReset
<1>4. dev'.sem.count = 1 /\ dev'.sem.sleepers = 0
  BY SemInitShape
<1>5. Permits'
  BY <1>0, <1>2, <1>4, PermitsReset
<1> QED
  BY <1>1, <1>3, <1>5 DEF IInv

(* The SJA1000 as do_get_state leaves it: a chip found in reset mode is    *)
(* stopped, else nothing changes.                                          *)
LEMMA SjaSeen ==
    ASSUME IInv, chip = "sja1000", ctl.pc = "idle"
    PROVE  LET d == SjaGetState(dev) IN
           /\ d \in Devices /\ d.hw.buf = dev.hw.buf /\ d.hw.ir = dev.hw.ir
           /\ d.hw.req = dev.hw.req /\ d.hw.rm = dev.hw.rm /\ d.hw.bus = dev.hw.bus
           /\ d = dev \/ (d.state = "STOPPED" /\ d.hw.rm /\ d.sem = SemDestroy(dev.sem))
           /\ ~ResetState(d.state) => d = dev /\ ~d.hw.rm
<1> DEFINE d == SjaGetState(dev)
<1>1. dev \in Devices
  BY DEF IInv, TypeOK
<1>2. /\ d \in Devices /\ d.hw.buf = dev.hw.buf /\ d.hw.ir = dev.hw.ir
      /\ d.hw.req = dev.hw.req /\ d.hw.rm = dev.hw.rm /\ d.hw.bus = dev.hw.bus
      /\ IF ~ResetState(dev.state) /\ dev.hw.rm
         THEN d.state = "STOPPED" /\ d.sem = SemDestroy(dev.sem) ELSE d = dev
  BY <1>1, SjaGetStateShape
<1> HIDE DEF d
<1>3. d = dev \/ (d.state = "STOPPED" /\ d.hw.rm /\ d.sem = SemDestroy(dev.sem))
  BY <1>2
<1>4. ResetState("STOPPED")
  BY DEF ResetState
<1>5. ~ResetState(d.state) => d = dev /\ ~d.hw.rm
  BY <1>2, <1>4
<1> QED
  BY <1>2, <1>3, <1>5 DEF d

(* An ioctl that changes nothing else *)
LEMMA NothingPreserves ==
    ASSUME IInv, ctl.pc = "idle", dev' = dev, Finish, UNCHANGED <<chip, pc, lock, upset, parked>>
    PROVE  IInv'
<1>1. /\ dev' \in Devices /\ ctl' \in [pc : CtlPCs, started : BOOLEAN]
      /\ ctl'.pc = "idle" /\ upset' \in BOOLEAN
  BY CtlValues DEF IInv, TypeOK, Finish
<1>2. CtlOfChip' /\ SjaBusOff' /\ GoneExact' /\ SjaExact' /\ MscanExact'
  BY <1>1 DEF IInv, CtlOfChip, SjaBusOff, GoneExact, SjaExact, SjaLive, MscanExact, Operating
<1>3. Evolves(dev.sem, dev'.sem)
  BY EvolvesSame
<1> QED
  BY <1>1, <1>2, <1>3, CtlStep DEF IInv

(* CAN_MODE_GET on the SJA1000, and every ioctl that ends after it *)
LEMMA SjaSeenPreserves ==
    ASSUME IInv, chip = "sja1000", ctl.pc = "idle", dev' = SjaGetState(dev), Finish,
           UNCHANGED <<chip, pc, lock, upset, parked>>
    PROVE  IInv'
<1>1. /\ dev' \in Devices /\ dev'.hw.buf = dev.hw.buf /\ dev'.hw.ir = dev.hw.ir
      /\ dev'.hw.req = dev.hw.req /\ dev'.hw.rm = dev.hw.rm /\ dev'.hw.bus = dev.hw.bus
      /\ dev' = dev \/ (dev'.state = "STOPPED" /\ dev'.hw.rm /\ dev'.sem = SemDestroy(dev.sem))
  BY SjaSeen
<1>2. CASE dev' = dev
  BY <1>2, NothingPreserves
<1>3. CASE dev'.state = "STOPPED" /\ dev'.hw.rm /\ dev'.sem = SemDestroy(dev.sem)
  <2>1. dev.sem \in Sems
    BY DeviceParts DEF IInv, TypeOK
  <2>2. /\ Evolves(dev.sem, dev'.sem) /\ dev'.sem.sleepers = dev.sem.sleepers
        /\ dev'.sem.count = dev.sem.count /\ dev'.sem.gone
    BY <1>3, <2>1, SemDestroyShape, EvolvesDestroy
  <2>3. ctl' \in [pc : CtlPCs, started : BOOLEAN] /\ ctl'.pc = "idle" /\ upset' \in BOOLEAN
    BY CtlValues DEF IInv, TypeOK, Finish
  <2>4. CtlOfChip' /\ SjaBusOff' /\ GoneExact' /\ MscanExact'
    BY <1>1, <1>3, <2>2, <2>3 DEF IInv, CtlOfChip, SjaBusOff, GoneExact, MscanExact
  <2>5. SjaExact'
    BY <1>1, <1>3, <2>2 DEF IInv, SjaExact
  <2> QED
    BY <1>1, <2>2, <2>3, <2>4, <2>5, CtlStep
<1> QED
  BY <1>1, <1>2, <1>3

(* CAN_MODE_START on the virtual controller *)
LEMMA VirtStartPreserves ==
    ASSUME IInv, chip = "virt", NEW d \in Devices, d.hw = dev.hw, dev' = VirtStart(d), Finish,
           upset' = (upset \/ Upsets), UNCHANGED <<chip, pc, lock, parked>>
    PROVE  IInv'
<1>1. /\ dev' \in Devices /\ dev'.state = "ACTIVE" /\ dev'.hw = dev.hw
      /\ dev'.sem = SemInit(d.sem) /\ d.sem \in Sems
  BY VirtShape, DeviceParts
<1>2. ctl' \in [pc : CtlPCs, started : BOOLEAN] /\ ctl'.pc = "idle"
  BY CtlValues DEF Finish
<1>3. ~dev'.sem.gone
  BY <1>1, SemInitShape
<1>4. CtlOfChip' /\ SjaBusOff' /\ GoneExact' /\ SjaExact' /\ MscanExact'
  BY <1>1, <1>2, <1>3 DEF IInv, CtlOfChip, SjaBusOff, GoneExact, SjaExact, MscanExact
<1>5. ~Pending(dev', chip)
  BY <1>1 DEF IInv, CtlOfChip, Pending
<1> QED
  BY <1>1, <1>2, <1>4, <1>5, CtlReset

(* rtcan_sja_mode_start from a stopped or bus-off controller.  After a     *)
(* bus-off the frame was given up and its error interrupt has been read,   *)
(* so nothing is left to bring a second permit back.                       *)
LEMMA SjaStartPreserves ==
    ASSUME IInv, chip = "sja1000", NEW d \in Devices, d.hw.ir = dev.hw.ir,
           d.state = "STOPPED" \/ (d = dev /\ d.state = "BUS_OFF"),
           dev' = SjaStart(d), Finish, upset' = (upset \/ Upsets), UNCHANGED <<chip, pc, lock, parked>>
    PROVE  IInv'
<1>0. ResetState(d.state) /\ d.sem \in Sems
  BY DeviceParts DEF ResetState
<1>1. /\ dev' \in Devices /\ dev'.state = "ACTIVE" /\ dev'.sem = SemInit(d.sem)
      /\ dev'.hw.ir = dev.hw.ir /\ ~dev'.hw.rm /\ ~dev'.hw.req
      /\ d.state = "STOPPED" =>
            dev'.hw.ier = "all" /\ dev'.hw.bus = "ok" /\ dev'.hw.buf = "free"
      /\ d.state = "BUS_OFF" =>
            /\ dev'.hw.ier = d.hw.ier /\ dev'.hw.buf = d.hw.buf
            /\ dev'.hw.bus = IF d.hw.bus = "off" THEN "recovering" ELSE d.hw.bus
  BY <1>0, SjaStartShape
<1>2. ctl' \in [pc : CtlPCs, started : BOOLEAN] /\ ctl'.pc = "idle"
  BY CtlValues DEF Finish
<1>3. ~dev'.sem.gone
  BY <1>0, <1>1, SemInitShape
<1>4. CtlOfChip' /\ GoneExact' /\ MscanExact'
  BY <1>1, <1>2, <1>3 DEF IInv, CtlOfChip, GoneExact, MscanExact
<1>5. SjaBusOff'
  <2>1. dev'.hw.bus # "off"
    BY <1>1
  <2>2. dev'.hw.bus = "recovering" => "EI" \notin dev.hw.ir
    BY <1>1 DEF IInv, SjaBusOff
  <2> QED
    BY <1>1, <1>2, <2>1, <2>2 DEF SjaBusOff
<1>6. ASSUME ~upset'
      PROVE  /\ dev'.hw.ier \in {"all", "EI"} /\ dev'.hw.buf \notin {"lost", "busy"}
             /\ "TI" \notin dev.hw.ir
  <2>1. ~upset /\ ~Pending(dev, chip)
    BY <1>6 DEF Upsets
  <2>2. dev.hw.buf # "busy" /\ "TI" \notin dev.hw.ir
    BY <2>1 DEF Pending
  <2>3. dev.state = "BUS_OFF" => dev.hw.buf # "lost" /\ dev.hw.ier = "EI"
    BY <2>1 DEF IInv, SjaExact
  <2> QED
    BY <1>1, <2>2, <2>3
<1>7. SjaExact'
  BY <1>1, <1>6 DEF SjaExact, SjaLive
<1>8. ~upset' => ~Pending(dev', chip)
  BY <1>1, <1>6 DEF Pending
<1> QED
  BY <1>0, <1>1, <1>2, <1>4, <1>5, <1>7, <1>8, CtlReset

(* rtcan_mscan_mode_start: bus-off recovery, and the start up to the polls *)
LEMMA MscanStartPreserves ==
    ASSUME IInv, chip = "mscan", NEW d \in Devices, d.hw = dev.hw, NEW started \in BOOLEAN,
           \/ ctl.pc = "idle" /\ d = dev
           \/ ctl.pc = "stopping" /\ dev.hw.rm /\ d.state = "STOPPED",
           \/ d.state = "BUS_OFF" /\ dev' = MscanRecover(d) /\ Finish
           \/ /\ d.state \in {"STOPPED", "SLEEPING"}
              /\ dev' = MscanStartBegin(d) /\ Continue("starting", started),
           upset' = (upset \/ Upsets), UNCHANGED <<chip, pc, lock, parked>>
    PROVE  IInv'
<1>0. d.sem \in Sems /\ TypeOK
  BY DeviceParts DEF IInv
<1>1. /\ dev' \in Devices /\ dev'.sem = SemInit(d.sem)
      /\ dev'.hw.ir = dev.hw.ir /\ dev'.hw.buf = dev.hw.buf /\ dev'.hw.tie = dev.hw.tie
      /\ dev'.hw.req = dev.hw.req /\ dev'.hw.rm = dev.hw.rm /\ dev'.hw.asleep = dev.hw.asleep
  BY MscanStartBeginShape
<1>2. \/ d.state = "BUS_OFF" /\ dev'.state = "ACTIVE" /\ ctl' = CtlIdle
      \/ /\ d.state \in {"STOPPED", "SLEEPING"} /\ dev'.state = d.state
         /\ ctl' = [pc |-> "starting", started |-> started]
  BY MscanStartBeginShape DEF Finish, Continue
<1>3. "starting" \in CtlPCs
  BY DEF CtlPCs
<1>4. /\ ctl' \in [pc : CtlPCs, started : BOOLEAN]
      /\ \/ d.state = "BUS_OFF" /\ dev'.state = "ACTIVE" /\ ctl'.pc = "idle"
         \/ /\ d.state \in {"STOPPED", "SLEEPING"} /\ dev'.state = d.state
            /\ ctl'.pc = "starting"
  BY <1>2, <1>3, CtlValues
<1>5. ~dev'.sem.gone
  BY <1>0, <1>1, SemInitShape
<1>6. CtlOfChip' /\ SjaBusOff' /\ SjaExact' /\ GoneExact'
  BY <1>4, <1>5 DEF IInv, CtlOfChip, SjaBusOff, SjaExact, GoneExact
<1>7. MscanExact'
  <2> SUFFICES ASSUME ~upset' PROVE MscanExact'
    BY DEF MscanExact
  <2>1. ~upset
    OBVIOUS
  <2>2. ~dev.hw.req
    BY <2>1 DEF IInv, MscanExact
  <2>3. dev'.state # "STOPPED" => ~dev.hw.rm
    BY <1>4, <2>1 DEF IInv, MscanExact
  <2> QED
    BY <1>1, <1>4, <2>1, <2>2, <2>3 DEF IInv, MscanExact
<1>8. ~upset' => ~Pending(dev', chip)
  BY <1>1 DEF Upsets, Pending
<1> QED
  BY <1>0, <1>1, <1>4, <1>6, <1>7, <1>8, CtlReset

(* The SJA1000 in sleep mode is told to wake up. *)
LEMMA SjaWakePreserves ==
    ASSUME IInv, chip = "sja1000", ctl.pc = "idle", dev.state = "SLEEPING", ~dev.hw.rm,
           NEW started \in BOOLEAN, dev' = SjaWake(dev), Continue("waking", started),
           UNCHANGED <<chip, pc, lock, upset, parked>>
    PROVE  IInv'
<1>0. dev \in Devices
  BY DEF IInv, TypeOK
<1>1. /\ dev' \in Devices /\ HwOnly(dev', dev)
      /\ dev'.hw.buf = dev.hw.buf /\ dev'.hw.ier = dev.hw.ier
      /\ ~dev'.hw.req /\ dev'.hw.rm = dev.hw.rm /\ dev'.hw.bus = dev.hw.bus
      /\ dev.hw.ir \subseteq dev'.hw.ir /\ dev'.hw.ir \subseteq dev.hw.ir \cup {"WUI"}
  BY <1>0, SjaWakeShape
<1>2. "waking" \in CtlPCs
  BY DEF CtlPCs
<1>3. ctl' \in [pc : CtlPCs, started : BOOLEAN] /\ ctl'.pc = "waking" /\ upset' \in BOOLEAN
  BY <1>2, CtlValues DEF Continue, IInv, TypeOK
<1>4. CtlOfChip' /\ GoneExact' /\ MscanExact'
  BY <1>1, <1>3 DEF IInv, CtlOfChip, GoneExact, MscanExact, HwOnly
<1>5. ("EI" \in dev'.hw.ir <=> "EI" \in dev.hw.ir) /\ ("TI" \in dev'.hw.ir <=> "TI" \in dev.hw.ir)
  BY <1>1
<1>6. SjaBusOff'
  BY <1>1, <1>3, <1>5 DEF IInv, SjaBusOff, HwOnly
<1>7. SjaExact'
  BY <1>1, <1>3, <1>5 DEF IInv, SjaExact, SjaLive, HwOnly
<1>8. Pending(dev', chip) <=> Pending(dev, chip)
  BY <1>1, <1>5 DEF Pending
<1>9. Evolves(dev.sem, dev'.sem)
  BY <1>1, EvolvesSame DEF HwOnly
<1> QED
  BY <1>1, <1>3, <1>4, <1>6, <1>7, <1>8, <1>9, CtlStep DEF HwOnly

(* CAN_MODE_START as a whole.  It starts from the device that do_get_state *)
(* or a stop has left.                                                     *)
LEMMA StartPreserves ==
    ASSUME IInv, NEW d \in Devices, NEW started \in BOOLEAN, Start(d, started),
           \/ ctl.pc = "idle" /\ d = IF chip = "sja1000" THEN SjaGetState(dev) ELSE dev
           \/ /\ ctl.pc = "stopping" /\ dev.hw.rm /\ chip # "virt"
              /\ d.state = "STOPPED" /\ d.hw = dev.hw,
           UNCHANGED <<chip, pc, lock, parked>>
    PROVE  IInv'
<1>0. chip \in {"virt", "sja1000", "mscan"} /\ d.state \in DevStates
  BY CanTxAssumption, DeviceParts DEF IInv, TypeOK
<1>1. CASE Operating(d)
  <2>1. dev' = d /\ Finish /\ UNCHANGED upset
    BY <1>1 DEF Start
  <2>2. ctl.pc = "idle" /\ d = IF chip = "sja1000" THEN SjaGetState(dev) ELSE dev
    BY <1>1 DEF Operating, OperatingStates
  <2> QED
    BY <2>1, <2>2, NothingPreserves, SjaSeenPreserves
<1>2. CASE ~Operating(d) /\ chip = "sja1000" /\ d.state = "SLEEPING"
  <2>1. dev' = SjaWake(d) /\ Continue("waking", started) /\ UNCHANGED upset
    BY <1>2 DEF Start
  <2>2. ctl.pc = "idle" /\ d = SjaGetState(dev) /\ ~ResetState(d.state)
    BY <1>2 DEF ResetState
  <2>3. d = dev /\ ~d.hw.rm
    BY <1>2, <2>2, SjaSeen
  <2> QED
    BY <1>2, <2>1, <2>2, <2>3, SjaWakePreserves
<1>3. CASE ~Operating(d) /\ ~(chip = "sja1000" /\ d.state = "SLEEPING")
  <2>1. /\ upset' = (upset \/ Upsets)
        /\ \/ chip = "virt" /\ dev' = VirtStart(d) /\ Finish
           \/ chip = "sja1000" /\ dev' = SjaStart(d) /\ Finish
           \/ chip = "mscan" /\ d.state = "BUS_OFF" /\ dev' = MscanRecover(d) /\ Finish
           \/ /\ chip = "mscan" /\ d.state # "BUS_OFF"
              /\ dev' = MscanStartBegin(d)
              /\ Continue("starting", started)
    BY <1>3 DEF Start
  <2>2. d.state \in {"BUS_OFF", "STOPPED", "SLEEPING"}
    BY <1>0, <1>3 DEF Operating, DevStates
  <2>3. CASE chip = "virt"
    BY <2>1, <2>3, VirtStartPreserves
  <2>4. CASE chip = "sja1000"
    <3>1. d.hw.ir = dev.hw.ir /\ (d = dev \/ d.state = "STOPPED")
      BY <2>4, SjaSeen
    <3>2. d.state \in {"BUS_OFF", "STOPPED"}
      BY <1>3, <2>2, <2>4
    <3>3. d.state = "STOPPED" \/ (d = dev /\ d.state = "BUS_OFF")
      BY <3>1, <3>2
    <3>4. dev' = SjaStart(d) /\ Finish
      BY <2>1, <2>4
    <3> QED
      BY <2>1, <2>4, <3>1, <3>3, <3>4, SjaStartPreserves
  <2>5. CASE chip = "mscan"
    <3>1. \/ d.state = "BUS_OFF" /\ dev' = MscanRecover(d) /\ Finish
          \/ /\ d.state \in {"STOPPED", "SLEEPING"}
             /\ dev' = MscanStartBegin(d) /\ Continue("starting", started)
      BY <2>1, <2>2, <2>5
    <3>2. d.hw = dev.hw
      BY <2>5
    <3>3. \/ ctl.pc = "idle" /\ d = dev
          \/ ctl.pc = "stopping" /\ dev.hw.rm /\ d.state = "STOPPED"
      BY <2>5
    <3> QED
      BY <2>1, <2>5, <3>1, <3>2, <3>3, MscanStartPreserves
  <2> QED
    BY <1>0, <2>3, <2>4, <2>5
<1> QED
  BY <1>1, <1>2, <1>3

(* A device whose tx_sem is destroyed as the controller stops *)
LEMMA StoppedPreserves ==
    ASSUME IInv, dev' \in {SjaStopDone(dev), MscanStopDone(dev), VirtStop(dev)},
           (ctl.pc = "stopping" /\ dev.hw.rm) \/ chip = "virt",
           Finish, UNCHANGED <<chip, pc, lock, upset, parked>>
    PROVE  IInv'
<1>0. dev \in Devices /\ dev.sem \in Sems
  BY DeviceParts DEF IInv, TypeOK
<1>1. /\ dev' \in Devices /\ dev'.state = "STOPPED" /\ dev'.hw = dev.hw
      /\ dev'.sem = SemDestroy(dev.sem)
  BY <1>0, StopDoneShape
<1>2. /\ Evolves(dev.sem, dev'.sem) /\ dev'.sem.sleepers = dev.sem.sleepers
      /\ dev'.sem.count = dev.sem.count /\ dev'.sem.gone
  BY <1>0, <1>1, SemDestroyShape, EvolvesDestroy
<1>3. ctl' \in [pc : CtlPCs, started : BOOLEAN] /\ ctl'.pc = "idle" /\ upset' \in BOOLEAN
  BY CtlValues DEF IInv, TypeOK, Finish
<1>4. CtlOfChip' /\ SjaBusOff' /\ GoneExact'
  BY <1>1, <1>2, <1>3 DEF IInv, CtlOfChip, SjaBusOff, GoneExact
<1>5. SjaExact' /\ MscanExact'
  BY <1>1, <1>2, <1>3 DEF IInv, SjaExact, MscanExact
<1> QED
  BY <1>1, <1>2, <1>3, <1>4, <1>5, CtlStep

(* The request of a stop; the permits are out of use until it ends. *)
LEMMA StopBeginPreserves ==
    ASSUME IInv, ctl.pc = "idle", NEW started \in BOOLEAN, Continue("stopping", started),
           \/ /\ chip = "sja1000" /\ ~ResetState(dev.state) /\ ~dev.hw.rm
              /\ started => Operating(dev)
              /\ dev' = SjaStopBegin(dev)
           \/ chip = "mscan" /\ Operating(dev) /\ dev' = MscanStopBegin(dev),
           UNCHANGED <<chip, pc, lock, upset, parked>>
    PROVE  IInv'
<1>0. dev \in Devices
  BY DEF IInv, TypeOK
<1>1. "stopping" \in CtlPCs
  BY DEF CtlPCs
<1>2. /\ ctl' \in [pc : CtlPCs, started : BOOLEAN] /\ ctl'.pc = "stopping"
      /\ ctl'.started = started /\ upset' \in BOOLEAN
  BY <1>1, CtlValues DEF Continue, IInv, TypeOK
<1>3. CASE chip = "sja1000"
  <2>0. ~ResetState(dev.state) /\ ~dev.hw.rm /\ (started => Operating(dev))
    BY <1>3
  <2>1. /\ dev' \in Devices /\ HwOnly(dev', dev)
        /\ dev'.hw.buf = dev.hw.buf /\ dev'.hw.ir = dev.hw.ir
        /\ dev'.hw.rm = dev.hw.rm /\ dev'.hw.bus = dev.hw.bus
    BY <1>0, <1>3, SjaStopShape
  <2>2. CtlOfChip' /\ SjaBusOff' /\ GoneExact' /\ MscanExact'
    BY <1>2, <1>3, <2>0, <2>1
    DEF IInv, CtlOfChip, SjaBusOff, GoneExact, MscanExact, HwOnly, Operating
  <2>3. SjaExact'
    BY <1>2, <2>0, <2>1 DEF IInv, SjaExact, HwOnly, ResetState
  <2>4. Evolves(dev.sem, dev'.sem)
    BY <2>1, EvolvesSame DEF HwOnly
  <2> QED
    BY <1>2, <2>1, <2>2, <2>3, <2>4, CtlStep DEF HwOnly
<1>4. CASE chip = "mscan"
  <2>0. Operating(dev)
    BY <1>4
  <2>1. /\ dev' \in Devices /\ HwOnly(dev', dev)
        /\ dev'.hw.ir = dev.hw.ir /\ dev'.hw.buf = dev.hw.buf /\ dev'.hw.tie = dev.hw.tie
        /\ dev'.hw.rm = dev.hw.rm /\ dev'.hw.asleep = dev.hw.asleep
    BY <1>0, <1>4, MscanStopBeginShape
  <2>2. CtlOfChip' /\ SjaBusOff' /\ GoneExact' /\ SjaExact'
    BY <1>2, <1>4, <2>1 DEF IInv, CtlOfChip, SjaBusOff, GoneExact, SjaExact, HwOnly
  <2>3. ~upset => ~dev.hw.rm
    BY <1>4, <2>0 DEF IInv, MscanExact, Operating, OperatingStates
  <2>4. MscanExact'
    BY <1>2, <2>1, <2>3 DEF IInv, MscanExact, HwOnly
  <2>5. Evolves(dev.sem, dev'.sem)
    BY <2>1, EvolvesSame DEF HwOnly
  <2> QED
    BY <1>2, <2>1, <2>2, <2>4, <2>5, CtlStep DEF HwOnly
<1> QED
  BY <1>3, <1>4

(* CAN_MODE_STOP as a whole; a setting stops only an operating controller. *)
LEMMA StopPreserves ==
    ASSUME IInv, ctl.pc = "idle", NEW started \in BOOLEAN, NEW d \in Devices,
           d = IF chip = "sja1000" THEN SjaGetState(dev) ELSE dev,
           started => Operating(d), Stop(d, started), UNCHANGED <<chip, pc, lock, parked>>
    PROVE  IInv'
<1>0. chip \in {"virt", "sja1000", "mscan"} /\ dev \in Devices
  BY CanTxAssumption DEF IInv, TypeOK
<1>1. CASE chip = "virt"
  <2>1. d = dev
    BY <1>1
  <2>2. CASE started
    <3>1. dev' = VirtStart(VirtStop(dev)) /\ upset' = (upset \/ Upsets) /\ Finish
      BY <1>1, <2>1, <2>2 DEF Stop
    <3>2. VirtStop(dev) \in Devices /\ VirtStop(dev).hw = dev.hw
      BY <1>0, StopDoneShape
    <3> QED
      BY <1>1, <3>1, <3>2, VirtStartPreserves
  <2>3. CASE ~started
    <3>1. dev' = VirtStop(dev) /\ UNCHANGED upset /\ Finish
      BY <1>1, <2>1, <2>3 DEF Stop
    <3> QED
      BY <1>1, <3>1, StoppedPreserves
  <2> QED
    BY <2>2, <2>3
<1>2. CASE chip = "sja1000"
  <2>1. d = SjaGetState(dev)
    BY <1>2
  <2>2. CASE ResetState(d.state)
    <3>1. dev' = d /\ Finish /\ UNCHANGED upset
      BY <1>2, <2>2 DEF Stop
    <3> QED
      BY <1>2, <2>1, <3>1, SjaSeenPreserves
  <2>3. CASE ~ResetState(d.state)
    <3>1. dev' = SjaStopBegin(d) /\ Continue("stopping", started) /\ UNCHANGED upset
      BY <1>2, <2>3 DEF Stop
    <3>2. d = dev /\ ~d.hw.rm
      BY <1>2, <2>1, <2>3, SjaSeen
    <3> QED
      BY <1>2, <2>3, <3>1, <3>2, StopBeginPreserves
  <2> QED
    BY <2>2, <2>3
<1>3. CASE chip = "mscan"
  <2>1. d = dev
    BY <1>3
  <2>2. CASE ~Operating(d)
    <3>1. dev' = dev /\ Finish /\ UNCHANGED upset
      BY <1>3, <2>1, <2>2 DEF Stop
    <3> QED
      BY <3>1, NothingPreserves
  <2>3. CASE Operating(d)
    <3>1. dev' = MscanStopBegin(dev) /\ Continue("stopping", started) /\ UNCHANGED upset
      BY <1>3, <2>1, <2>3 DEF Stop
    <3> QED
      BY <1>3, <2>1, <2>3, <3>1, StopBeginPreserves
  <2> QED
    BY <2>2, <2>3
<1> QED
  BY <1>0, <1>1, <1>2, <1>3

(* CAN_MODE_SLEEP.  A frame that is still to be sent when the MSCAN goes   *)
(* to sleep counts as an upset, so its permit is not lost silently.        *)
LEMMA SjaSleepPreserves ==
    ASSUME IInv, ctl.pc = "idle", chip = "sja1000", dev' = SjaSleep(SjaGetState(dev)), Finish,
           UNCHANGED <<chip, pc, lock, upset, parked>>
    PROVE  IInv'
<1> DEFINE d == SjaGetState(dev)
<1>0. dev \in Devices /\ dev.sem \in Sems
  BY DeviceParts DEF IInv, TypeOK
<1>1. /\ d \in Devices /\ d.hw.buf = dev.hw.buf /\ d.hw.ir = dev.hw.ir
      /\ d.hw.req = dev.hw.req /\ d.hw.rm = dev.hw.rm /\ d.hw.bus = dev.hw.bus
      /\ d = dev \/ (d.state = "STOPPED" /\ d.hw.rm /\ d.sem = SemDestroy(dev.sem))
      /\ ~ResetState(d.state) => d = dev /\ ~d.hw.rm
  BY SjaSeen
<1>2. dev' = SjaSleep(d)
  OBVIOUS
<1> HIDE DEF d
<1>3. /\ dev' \in Devices /\ dev'.sem = d.sem
      /\ dev'.hw.buf = dev.hw.buf /\ dev'.hw.ir = dev.hw.ir /\ dev'.hw.ier = d.hw.ier
      /\ dev'.hw.req = dev.hw.req /\ dev'.hw.rm = dev.hw.rm /\ dev'.hw.bus = dev.hw.bus
      /\ dev'.state = IF ResetState(d.state) THEN d.state ELSE "SLEEPING"
  BY <1>1, <1>2, SjaSleepShape
<1>4. ctl' \in [pc : CtlPCs, started : BOOLEAN] /\ ctl'.pc = "idle" /\ upset' \in BOOLEAN
  BY CtlValues DEF IInv, TypeOK, Finish
<1>5. CASE d = dev
  <2>1. ResetState(dev'.state) <=> ResetState(dev.state)
    BY <1>3, <1>5 DEF ResetState
  <2>2. CtlOfChip' /\ GoneExact' /\ MscanExact'
    BY <1>3, <1>4, <1>5, <2>1 DEF IInv, CtlOfChip, GoneExact, MscanExact, ResetState
  <2>3. SjaBusOff' /\ SjaExact'
    BY <1>3, <1>4, <1>5 DEF IInv, SjaBusOff, SjaExact, SjaLive, ResetState
  <2>4. Pending(dev', chip) <=> Pending(dev, chip)
    BY <1>3 DEF Pending
  <2>5. Evolves(dev.sem, dev'.sem)
    BY <1>3, <1>5, EvolvesSame
  <2> QED
    BY <1>3, <1>4, <1>5, <2>2, <2>3, <2>4, <2>5, CtlStep
<1>6. CASE d.state = "STOPPED" /\ d.hw.rm /\ d.sem = SemDestroy(dev.sem)
  <2>1. dev'.state = "STOPPED"
    BY <1>3, <1>6 DEF ResetState
  <2>2. /\ Evolves(dev.sem, dev'.sem) /\ dev'.sem.sleepers = dev.sem.sleepers
        /\ dev'.sem.count = dev.sem.count /\ dev'.sem.gone
    <3>1. dev'.sem = SemDestroy(dev.sem)
      BY <1>3, <1>6
    <3> QED
      BY <1>0, <3>1, SemDestroyShape, EvolvesDestroy
  <2>3. CtlOfChip' /\ SjaBusOff' /\ GoneExact' /\ MscanExact'
    BY <1>3, <1>4, <2>1, <2>2 DEF IInv, CtlOfChip, SjaBusOff, GoneExact, MscanExact
  <2>4. SjaExact'
    BY <1>1, <1>3, <1>6, <2>1, <2>2 DEF IInv, SjaExact
  <2> QED
    BY <1>3, <1>4, <2>2, <2>3, <2>4, CtlStep
<1> QED
  BY <1>1, <1>5, <1>6

(* The same on each controller *)
LEMMA SleepPreserves ==
    ASSUME IInv, ctl.pc = "idle", NEW d \in Devices,
           d = IF chip = "sja1000" THEN SjaGetState(dev) ELSE dev,
           Sleep(d), UNCHANGED <<chip, pc, lock, parked>>
    PROVE  IInv'
<1>0. chip \in {"virt", "sja1000", "mscan"} /\ dev \in Devices /\ upset \in BOOLEAN
  BY CanTxAssumption DEF IInv, TypeOK
<1>1. CASE ~(chip = "mscan" /\ Operating(d))
  <2>1. upset' = upset /\ Finish
    BY <1>0, <1>1 DEF Sleep
  <2>2. CASE chip = "sja1000"
    <3>1. dev' = SjaSleep(SjaGetState(dev))
      BY <2>2 DEF Sleep
    <3> QED
      BY <2>1, <2>2, <3>1, SjaSleepPreserves
  <2>3. CASE chip # "sja1000"
    <3>1. dev' = dev
      BY <1>0, <1>1, <2>3 DEF Sleep
    <3> QED
      BY <2>1, <3>1, NothingPreserves
  <2> QED
    BY <2>2, <2>3
<1>2. CASE chip = "mscan" /\ Operating(d)
  <2>1. /\ d = dev /\ dev' = MscanSleepBegin(dev) /\ Continue("sleeping", FALSE)
        /\ upset' = (upset \/ Pending(dev, chip))
    BY <1>0, <1>2 DEF Sleep
  <2>2. /\ dev' \in Devices /\ dev'.state = dev.state /\ dev'.sem = dev.sem /\ ~dev'.hw.tie
        /\ dev'.hw.ir = dev.hw.ir /\ dev'.hw.buf = dev.hw.buf
        /\ dev'.hw.rm = dev.hw.rm /\ dev'.hw.req = dev.hw.req
        /\ dev'.hw.asleep = dev.hw.asleep
    BY <1>0, <1>2, <2>1, MscanSleepShape
  <2>3. "sleeping" \in CtlPCs /\ FALSE \in BOOLEAN
    BY DEF CtlPCs
  <2>4. ctl' \in [pc : CtlPCs, started : BOOLEAN] /\ ctl'.pc = "sleeping"
    BY <2>1, <2>3, CtlValues DEF Continue
  <2>5. upset' \in BOOLEAN
    BY <1>0, <2>1
  <2>6. CtlOfChip' /\ SjaBusOff' /\ SjaExact' /\ GoneExact'
    BY <1>2, <2>1, <2>2, <2>4
    DEF IInv, CtlOfChip, SjaBusOff, SjaExact, GoneExact, Operating
  <2>7. ~upset' => dev.hw.buf # "busy" /\ ~dev.hw.tie
    BY <1>2, <2>1 DEF Pending
  <2>8. MscanExact'
    <3> SUFFICES ASSUME ~upset' PROVE MscanExact'
      BY DEF MscanExact
    <3>1. ~upset
      BY <2>1
    <3> QED
      BY <1>2, <2>2, <2>4, <2>7, <3>1 DEF IInv, MscanExact
  <2>9. ~upset' => (Pending(dev', chip) <=> Pending(dev, chip))
    BY <1>2, <2>2, <2>7 DEF Pending
  <2>10. Evolves(dev.sem, dev'.sem)
    BY <2>2, EvolvesSame
  <2> QED
    BY <2>1, <2>2, <2>4, <2>5, <2>6, <2>8, <2>9, <2>10, CtlStep
<1> QED
  BY <1>1, <1>2

(* rtcan_raw_ioctl_dev_set and _get up to the first wait *)
LEMMA IoctlPreserves == ASSUME IInv, NEW req, Ioctl(req) PROVE IInv'
<1> DEFINE d == IF chip = "sja1000" THEN SjaGetState(dev) ELSE dev
<1>1. /\ ctl.pc = "idle" /\ UNCHANGED <<chip, pc, lock, parked>>
      /\ \/ req = "START" /\ Start(d, FALSE)
         \/ req = "STOP" /\ Stop(d, FALSE)
         \/ req = "SLEEP" /\ Sleep(d)
         \/ req = "GETSTATE" /\ dev' = d /\ Finish /\ UNCHANGED upset
         \/ req \in Settings /\ chip = "virt" /\ req # "CTRLMODE"
            /\ dev' = dev /\ Finish /\ UNCHANGED upset
         \/ req \in Settings /\ (chip # "virt" \/ req = "CTRLMODE")
            /\ IF Operating(d) THEN Stop(d, TRUE)
               ELSE dev' = d /\ Finish /\ UNCHANGED upset
  BY DEF Ioctl
<1>2. dev \in Devices
  BY DEF IInv, TypeOK
<1>3. d \in Devices
  BY <1>2, SjaGetStateShape
<1>4. d = IF chip = "sja1000" THEN SjaGetState(dev) ELSE dev
  OBVIOUS
<1> HIDE DEF d
<1>5. TRUE \in BOOLEAN /\ FALSE \in BOOLEAN
  OBVIOUS
<1>6. CASE Start(d, FALSE)
  BY <1>1, <1>3, <1>4, <1>5, <1>6, StartPreserves
<1>7. CASE Stop(d, FALSE)
  BY <1>1, <1>3, <1>4, <1>5, <1>7, StopPreserves
<1>8. CASE Sleep(d)
  BY <1>1, <1>3, <1>4, <1>8, SleepPreserves
<1>9. CASE (dev' = d \/ dev' = dev) /\ Finish /\ UNCHANGED upset
  BY <1>1, <1>4, <1>9, NothingPreserves, SjaSeenPreserves
<1>10. CASE Operating(d) /\ Stop(d, TRUE)
  BY <1>1, <1>3, <1>4, <1>5, <1>10, StopPreserves
<1> QED
  BY <1>1, <1>6, <1>7, <1>8, <1>9, <1>10

(* The reset bit is read as set. *)
LEMMA StopDonePreserves == ASSUME IInv, StopDone PROVE IInv'
<1> DEFINE d == IF chip = "sja1000" THEN SjaStopDone(dev) ELSE MscanStopDone(dev)
<1>0. dev \in Devices /\ ctl.started \in BOOLEAN
  BY DEF IInv, TypeOK
<1>1. /\ ctl.pc = "stopping" /\ dev.hw.rm /\ UNCHANGED <<chip, pc, lock, parked>>
      /\ IF ctl.started THEN Start(d, TRUE) ELSE dev' = d /\ Finish /\ UNCHANGED upset
  BY DEF StopDone
<1>2. d \in {SjaStopDone(dev), MscanStopDone(dev), VirtStop(dev)}
  OBVIOUS
<1>3. d \in Devices /\ d.state = "STOPPED" /\ d.hw = dev.hw
  BY <1>0, <1>2, StopDoneShape
<1>4. chip # "virt"
  BY <1>1 DEF IInv, CtlOfChip
<1> HIDE DEF d
<1>5. TRUE \in BOOLEAN
  OBVIOUS
<1>6. CASE ctl.started
  BY <1>1, <1>3, <1>4, <1>5, <1>6, StartPreserves
<1>7. CASE ~ctl.started
  BY <1>1, <1>2, <1>7, StoppedPreserves
<1> QED
  BY <1>6, <1>7

(* The SJA1000 stop that fails is an upset; what holds past upsets is kept. *)
LEMMA StopFailsPreserves == ASSUME IInv, StopFails PROVE IInv'
<1>0. dev \in Devices
  BY DEF IInv, TypeOK
<1>1. /\ chip = "sja1000" /\ dev' = SjaStopFails(dev) /\ Finish /\ upset' = TRUE
      /\ UNCHANGED <<chip, pc, lock, parked>>
  BY DEF StopFails
<1>2. upset'
  BY <1>1
<1>3. /\ dev' \in Devices /\ dev'.state = dev.state /\ dev'.sem = dev.sem
      /\ dev'.hw.ir = dev.hw.ir /\ dev'.hw.rm = dev.hw.rm /\ dev'.hw.bus = dev.hw.bus
  BY <1>0, <1>1, SjaStopShape DEF HwOnly
<1>4. ctl' \in [pc : CtlPCs, started : BOOLEAN] /\ ctl'.pc = "idle" /\ upset' \in BOOLEAN
  BY <1>1, CtlValues DEF Finish
<1>5. CtlOfChip' /\ SjaBusOff'
  BY <1>1, <1>3, <1>4 DEF IInv, CtlOfChip, SjaBusOff
<1>6. GoneExact' /\ SjaExact' /\ MscanExact'
  BY <1>2 DEF GoneExact, SjaExact, MscanExact
<1>7. Evolves(dev.sem, dev'.sem)
  BY <1>3, EvolvesSame
<1> QED
  BY <1>1, <1>2, <1>3, <1>4, <1>5, <1>6, <1>7, CtlStep

(* The polls of the MSCAN start end. *)
LEMMA StartDonePreserves == ASSUME IInv, StartDone PROVE IInv'
<1>0. dev \in Devices
  BY DEF IInv, TypeOK
<1>1. /\ ctl.pc = "starting" /\ dev' = MscanStartDone(dev) /\ Finish
      /\ UNCHANGED <<chip, pc, lock, upset, parked>>
  BY DEF StartDone
<1>2. chip = "mscan"
  BY <1>1, CanTxAssumption DEF IInv, CtlOfChip, TypeOK
<1>3. /\ dev' \in Devices /\ dev'.state = "ACTIVE" /\ dev'.sem = dev.sem
      /\ dev'.hw.tie = dev.hw.tie /\ ~dev'.hw.rm /\ ~dev'.hw.req
      /\ dev'.hw.buf = IF dev.hw.buf = "lost" THEN "free" ELSE dev.hw.buf
  BY <1>0, <1>1, MscanStartDoneShape
<1>4. ctl' \in [pc : CtlPCs, started : BOOLEAN] /\ ctl'.pc = "idle" /\ upset' \in BOOLEAN
  BY <1>1, CtlValues DEF Finish, IInv, TypeOK
<1>5. CtlOfChip' /\ SjaBusOff' /\ SjaExact' /\ GoneExact'
  BY <1>1, <1>2, <1>3, <1>4 DEF IInv, CtlOfChip, SjaBusOff, SjaExact, GoneExact
<1>6. MscanExact'
  BY <1>1, <1>3 DEF IInv, MscanExact
<1>7. Pending(dev', chip) <=> Pending(dev, chip)
  BY <1>2, <1>3 DEF Pending
<1>8. Evolves(dev.sem, dev'.sem)
  BY <1>3, EvolvesSame
<1> QED
  BY <1>1, <1>3, <1>4, <1>5, <1>6, <1>7, <1>8, CtlStep

(* The wait for the SJA1000's wake-up ends. *)
LEMMA WakeDonePreserves == ASSUME IInv, WakeDone PROVE IInv'
<1>1. /\ ctl.pc = "waking" /\ dev' = dev /\ Finish /\ UNCHANGED <<chip, pc, lock, upset, parked>>
  BY DEF WakeDone
<1>2. /\ dev' \in Devices /\ ctl' \in [pc : CtlPCs, started : BOOLEAN] /\ ctl'.pc = "idle"
      /\ upset' \in BOOLEAN
  BY <1>1, CtlValues DEF Finish, IInv, TypeOK
<1>3. CtlOfChip' /\ SjaBusOff' /\ GoneExact' /\ SjaExact' /\ MscanExact'
  BY <1>1, <1>2
  DEF IInv, CtlOfChip, SjaBusOff, GoneExact, SjaExact, SjaLive, MscanExact, Operating
<1>4. Evolves(dev.sem, dev'.sem)
  BY <1>1, EvolvesSame
<1> QED
  BY <1>1, <1>2, <1>3, <1>4, CtlStep

(* The polls of the MSCAN sleep end. *)
LEMMA SleepDonePreserves == ASSUME IInv, SleepDone PROVE IInv'
<1>0. dev \in Devices
  BY DEF IInv, TypeOK
<1>1. PICK acked \in BOOLEAN : dev' = MscanSleepDone(dev, acked)
  BY DEF SleepDone
<1>2. ctl.pc = "sleeping" /\ Finish /\ UNCHANGED <<chip, pc, lock, upset, parked>>
  BY DEF SleepDone
<1>3. chip = "mscan"
  BY <1>2, CanTxAssumption DEF IInv, CtlOfChip, TypeOK
<1>4. /\ dev' \in Devices /\ dev'.state = "SLEEPING" /\ dev'.sem = dev.sem
      /\ dev'.hw.ir = dev.hw.ir /\ dev'.hw.buf = dev.hw.buf /\ dev'.hw.tie = dev.hw.tie
      /\ dev'.hw.rm = dev.hw.rm /\ dev'.hw.req = dev.hw.req
  BY <1>0, <1>1, MscanSleepDoneShape
<1>5. ctl' \in [pc : CtlPCs, started : BOOLEAN] /\ ctl'.pc = "idle" /\ upset' \in BOOLEAN
  BY <1>2, CtlValues DEF Finish, IInv, TypeOK
<1>6. ~upset => dev.state \notin {"STOPPED", "BUS_OFF"} /\ ~dev.sem.gone
  BY <1>2 DEF IInv, GoneExact, Operating, OperatingStates
<1>7. CtlOfChip' /\ SjaBusOff' /\ SjaExact' /\ GoneExact'
  BY <1>2, <1>3, <1>4, <1>5, <1>6 DEF IInv, CtlOfChip, SjaBusOff, SjaExact, GoneExact
<1>8. MscanExact'
  <2>1. ~upset => ~dev.hw.rm /\ ~dev.hw.req
    BY <1>2, <1>3, <1>6 DEF IInv, MscanExact
  <2> QED
    BY <1>2, <1>4, <2>1 DEF IInv, MscanExact
<1>9. Pending(dev', chip) <=> Pending(dev, chip)
  BY <1>4 DEF Pending
<1>10. Evolves(dev.sem, dev'.sem)
  BY <1>4, EvolvesSame
<1> QED
  BY <1>2, <1>4, <1>5, <1>7, <1>8, <1>9, <1>10, CtlStep

-----------------------------------------------------------------------------
(* The theorems.                                                           *)

(* A device after its driver's init satisfies the invariant. *)
LEMMA InitIInv == ASSUME Init PROVE IInv
<1>1. /\ dev = InitDev /\ pc = [s \in Senders |-> "idle"] /\ lock = "free"
      /\ ctl = CtlIdle /\ parked = NoTask /\ upset = FALSE /\ chip \in Chips
  BY DEF Init
<1>2. ~upset /\ upset \in BOOLEAN /\ ctl.pc = "idle"
      /\ ctl \in [pc : CtlPCs, started : BOOLEAN]
  BY <1>1, CtlValues
<1>3. Hardware \in Controllers
  <2>1. \A f \in BOOLEAN, t \in BOOLEAN, n \in 0..2 :
           [buf |-> "free", ir |-> {}, ier |-> "none", tie |-> f, req |-> f,
            rm |-> t, asleep |-> f, bus |-> "ok", ecc |-> t, berr |-> n] \in Controllers
    BY DEF Controllers, Bits, Buses
  <2>2. TRUE \in BOOLEAN /\ FALSE \in BOOLEAN /\ 1 \in 0..2
    OBVIOUS
  <2> QED
    BY <2>1, <2>2, Zenon DEF Hardware
<1> DEFINE m == [count |-> 0, sleepers |-> 0, gone |-> TRUE, queue |-> <<>>, woken |-> {}]
<1>4. m \in Sems /\ m.gone = TRUE
  <2>1. \A c \in Int, z \in Nat, g \in BOOLEAN, e \in Seq(Senders) :
           LET n == [count |-> c, sleepers |-> z, gone |-> g, queue |-> e, woken |-> {}]
           IN  n \in Sems /\ n.gone = g
    BY DEF Sems
  <2>2. 0 \in Int /\ 0 \in Nat /\ TRUE \in BOOLEAN /\ <<>> \in Seq(Senders)
    BY EmptySeq
  <2> QED
    BY <2>1, <2>2, Zenon
<1>5. InitDev = [state |-> "STOPPED", before |-> "ACTIVE", skb |-> None, hw |-> Hardware,
                 sem |-> m]
  BY DEF InitDev
<1> HIDE DEF m
<1>6. /\ dev \in Devices /\ dev.state = "STOPPED" /\ dev.hw = Hardware /\ dev.sem.gone
  BY <1>1, <1>3, <1>4, <1>5 DEF Devices, DevStates, OperatingStates
<1>7. /\ dev.hw.buf = "free" /\ dev.hw.ir = {} /\ ~dev.hw.req /\ ~dev.hw.asleep
      /\ dev.hw.rm /\ dev.hw.bus = "ok"
  <2>1. Hardware.buf = "free" /\ Hardware.ir = {} /\ Hardware.bus = "ok"
    BY DEF Hardware
  <2>2. Hardware.req = FALSE /\ Hardware.asleep = FALSE
    BY Zenon DEF Hardware
  <2>3. Hardware.rm = TRUE
    BY Zenon DEF Hardware
  <2> QED
    BY <1>6, <2>1, <2>2, <2>3
<1>8. pc \in [Senders -> PCs] /\ \A s \in Senders : pc[s] = "idle"
  BY <1>1 DEF PCs
<1>9. TypeOK
  <2>1. parked \in [pc : CtlPCs \cup {"none"}, started : BOOLEAN]
    BY <1>1 DEF NoTask
  <2> QED
    BY <1>1, <1>2, <1>6, <1>8, <2>1 DEF TypeOK
<1>10. CtlOfChip /\ SjaBusOff /\ GoneExact
  BY <1>2, <1>6, <1>7 DEF CtlOfChip, SjaBusOff, GoneExact
<1>11. AsleepQueued /\ GoneWakes
  BY <1>8 DEF AsleepQueued, GoneWakes
<1>12. SjaExact /\ MscanExact /\ Permits
  BY <1>2, <1>6, <1>7 DEF SjaExact, MscanExact, Permits
<1> QED
  BY <1>9, <1>10, <1>11, <1>12 DEF IInv

(* rtcan_raw_sendmsg: each of its steps preserves the invariant. *)
LEMMA SenderStepPreserves ==
    ASSUME IInv, NEW s \in Senders, Send(s) \/ Step(s) \/ Interrupted(s)
    PROVE  IInv'
<1>0. /\ TypeOK /\ chip \in {"virt", "sja1000", "mscan"} /\ upset \in BOOLEAN
      /\ lock \in Senders \cup {"free", "irq"}
  BY CanTxAssumption DEF IInv, TypeOK
<1>1. ASSUME UNCHANGED <<chip, lock, ctl, upset, parked>>, \E to \in PCs : SenderEffect(s, to)
      PROVE  IInv'
  BY <1>0, <1>1, SenderPreserves
<1>2. CASE Send(s)
  <2>1. UNCHANGED <<chip, lock, ctl, upset, parked>>
    BY <1>2 DEF Send
  <2> QED
    BY <1>0, <1>1, <1>2, <2>1, SendEffect
<1>3. CASE SlowDown(s)
  <2>1. UNCHANGED <<chip, lock, ctl, upset, parked>>
    BY <1>3 DEF SlowDown
  <2> QED
    BY <1>0, <1>1, <1>3, <2>1, SlowDownEffect
<1>4. CASE Woken(s)
  <2>1. UNCHANGED <<chip, lock, ctl, upset, parked>>
    BY <1>4 DEF Woken
  <2> QED
    BY <1>0, <1>1, <1>4, <2>1, WokenEffect
<1>5. CASE Interrupted(s)
  <2>1. UNCHANGED <<chip, lock, ctl, upset, parked>>
    BY <1>5 DEF Interrupted
  <2> QED
    BY <1>0, <1>1, <1>5, <2>1, InterruptedEffect
<1>6. CASE Push(s)
  <2>1. UNCHANGED <<chip, lock, ctl, upset, parked>>
    BY <1>6 DEF Push
  <2> QED
    BY <1>0, <1>1, <1>6, <2>1, PushEffect
<1>7. CASE Loopback(s)
  <2>1. UNCHANGED <<chip, ctl, upset, parked>> /\ lock' = "free"
    BY <1>7 DEF Loopback
  <2>2. PICK to \in PCs : SenderEffect(s, to)
    BY <1>0, <1>7, LoopbackEffect
  <2> QED
    BY <1>0, <2>1, <2>2, SenderPreserves
<1>8. CASE Xmit(s)
  <2>1. CASE Operating(dev) /\ chip = "sja1000"
    BY <1>8, <2>1, XmitSja
  <2>2. CASE Operating(dev) /\ chip = "mscan"
    BY <1>8, <2>2, XmitMscan
  <2>3. CASE ~Operating(dev) \/ chip = "virt"
    <3>1. UNCHANGED <<chip, ctl, parked>> /\ lock' \in Senders \cup {"free", "irq"}
      BY <1>0, <1>8, <2>3 DEF Xmit
    <3>2. upset' = (upset \/ (ctl.pc = "starting" /\ dev.state \in {"STOPPED", "BUS_OFF"}))
      BY <1>8 DEF Xmit
    <3>3. upset' \in BOOLEAN /\ (upset => upset')
      BY <1>0, <3>2
    <3>4. PICK to \in PCs : SenderEffect(s, to)
      BY <1>8, <2>3, XmitEffect
    <3> QED
      BY <3>1, <3>3, <3>4, SenderPreserves
  <2> QED
    BY <1>0, <2>1, <2>2, <2>3
<1> QED
  BY <1>2, <1>3, <1>4, <1>5, <1>6, <1>7, <1>8 DEF Step

(* Another control task gets its turn. *)
LEMMA OverlapPreserves == ASSUME IInv, ParkedOfChip, Overlap PROVE IInv'
<1>1. /\ TypeOK /\ upset' = TRUE /\ UNCHANGED <<chip, dev, pc, lock>> /\ parked' = ctl
      /\ ctl' = IF parked.pc = "none" THEN CtlIdle ELSE parked
  BY DEF IInv, Overlap
<1>2. /\ upset' \in BOOLEAN /\ ~(upset' = FALSE)
      /\ ctl' \in [pc : CtlPCs, started : BOOLEAN]
      /\ parked' \in [pc : CtlPCs \cup {"none"}, started : BOOLEAN]
      /\ parked'.pc # "none"
  <2>1. parked.pc # "none" => parked \in [pc : CtlPCs, started : BOOLEAN]
    BY <1>1 DEF TypeOK
  <2>2. ctl \in [pc : CtlPCs, started : BOOLEAN]
    BY <1>1 DEF TypeOK
  <2>3. ctl.pc # "none" /\ ctl \in [pc : CtlPCs \cup {"none"}, started : BOOLEAN]
    BY <2>2 DEF CtlPCs
  <2> QED
    BY <1>1, <2>1, <2>2, <2>3, CtlValues
<1>3. TypeOK'
  BY <1>1, <1>2 DEF TypeOK
<1>4. CtlOfChip'
  <2>1. parked.pc = "none" => ctl'.pc = "idle"
    BY <1>1, CtlValues
  <2>2. parked.pc # "none" => ctl'.pc = parked.pc
    BY <1>1
  <2> QED
    BY <1>1, <2>1, <2>2 DEF IInv, CtlOfChip, ParkedOfChip
<1>5. SjaBusOff'
  BY <1>1, <1>2 DEF IInv, SjaBusOff
<1>6. upset'
  BY <1>1
<1>7. AsleepQueued' /\ GoneWakes' /\ GoneExact' /\ SjaExact' /\ MscanExact' /\ Permits'
  BY <1>6 DEF AsleepQueued, GoneWakes, GoneExact, SjaExact, MscanExact, Permits
<1> QED
  BY <1>3, <1>4, <1>5, <1>7 DEF IInv

(* Every step preserves the invariant. *)
LEMMA NextIInv == ASSUME IInv, ParkedOfChip, [Next]_vars PROVE IInv'
<1>1. CASE \E s \in Senders : Send(s) \/ Step(s) \/ Interrupted(s)
  BY <1>1, SenderStepPreserves
<1>2. CASE Sent
  BY <1>2, SentPreserves
<1>3. CASE BusChange
  BY <1>3, BusChangePreserves
<1>4. CASE Reset
  BY <1>4, ResetPreserves
<1>5. CASE SjaIrq
  BY <1>5, SjaIrqPreserves
<1>6. CASE MscanIrq
  BY <1>6, MscanIrqPreserves
<1>7. CASE IrqLoopback
  BY <1>7, IrqLoopbackPreserves
<1>8. CASE EnableBusErr
  BY <1>8, EnableBusErrPreserves
<1>9. CASE \E req \in Requests : Ioctl(req)
  BY <1>9, IoctlPreserves
<1>10. CASE StopDone
  BY <1>10, StopDonePreserves
<1>11. CASE StopFails
  BY <1>11, StopFailsPreserves
<1>12. CASE StartDone
  BY <1>12, StartDonePreserves
<1>13. CASE WakeDone
  BY <1>13, WakeDonePreserves
<1>14. CASE SleepDone
  BY <1>14, SleepDonePreserves
<1>15. CASE Overlap
  BY <1>15, OverlapPreserves
<1>16. CASE UNCHANGED vars
  BY <1>16
  DEF vars, IInv, TypeOK, CtlOfChip, SjaBusOff, AsleepQueued, GoneWakes, GoneExact,
      SjaExact, SjaLive, MscanExact, Permits, Free, Slow, Holders, Operating
<1> QED
  BY <1>1, <1>2, <1>3, <1>4, <1>5, <1>6, <1>7, <1>8, <1>9, <1>10, <1>11, <1>12, <1>13,
     <1>14, <1>15, <1>16 DEF Next

(* The other control task, too, is where its chip's driver has a wait. *)
LEMMA NextParked == ASSUME IInv, ParkedOfChip, [Next]_vars PROVE ParkedOfChip'
<1>1. ASSUME NEW s \in Senders, Send(s) \/ Step(s) \/ Interrupted(s)
      PROVE  UNCHANGED <<chip, parked>>
  BY <1>1 DEF Send, Step, SlowDown, Woken, Push, Xmit, Loopback, Interrupted
<1>2. Sent \/ BusChange \/ Reset \/ SjaIrq \/ MscanIrq \/ IrqLoopback \/ EnableBusErr
         => UNCHANGED <<chip, parked>>
  BY DEF Sent, BusChange, Reset, SjaIrq, MscanIrq, IrqLoopback, EnableBusErr
<1>3. ASSUME NEW req, Ioctl(req) PROVE UNCHANGED <<chip, parked>>
  BY <1>3 DEF Ioctl
<1>4. StopDone \/ StopFails \/ StartDone \/ WakeDone \/ SleepDone
         => UNCHANGED <<chip, parked>>
  BY DEF StopDone, StopFails, StartDone, WakeDone, SleepDone
<1>5. CASE Overlap
  <2>1. chip' = chip /\ parked' = ctl /\ chip # "virt"
    BY <1>5 DEF Overlap, IInv, CtlOfChip, ParkedOfChip
  <2> QED
    BY <2>1 DEF IInv, CtlOfChip, ParkedOfChip
<1>6. CASE UNCHANGED <<chip, parked>>
  BY <1>6 DEF ParkedOfChip
<1> QED
  BY <1>1, <1>2, <1>3, <1>4, <1>5, <1>6 DEF Next, vars

-----------------------------------------------------------------------------
(* Bus-off of the MSCAN.                                                   *)

(* A step that leaves the bus alone and acknowledges nothing. *)
LEMMA OffKept ==
    ASSUME MscanOff, chip' = chip, upset => upset',
           dev'.hw.bus = dev.hw.bus, dev'.hw.ir = dev.hw.ir, dev'.hw.rm = dev.hw.rm,
           dev.sem.gone => dev'.sem.gone, dev'.state = "STOPPED" => dev.state = "STOPPED"
    PROVE  MscanOff'
  BY DEF MscanOff

(* rtcan_raw_sendmsg *)
LEMMA SenderOff ==
    ASSUME IInv, MscanOff, NEW s \in Senders, Send(s) \/ Step(s) \/ Interrupted(s)
    PROVE  MscanOff'
<1>0. /\ TypeOK /\ chip \in {"virt", "sja1000", "mscan"} /\ upset \in BOOLEAN
      /\ dev \in Devices /\ dev.sem \in Sems
  BY CanTxAssumption, DeviceParts DEF IInv, TypeOK
<1>1. chip' = chip /\ (upset => upset')
  <2>1. CASE Xmit(s)
    BY <2>1 DEF Xmit
  <2>2. CASE Send(s) \/ SlowDown(s) \/ Woken(s) \/ Push(s) \/ Loopback(s) \/ Interrupted(s)
    BY <2>2 DEF Send, SlowDown, Woken, Push, Loopback, Interrupted
  <2> QED
    BY <2>1, <2>2 DEF Step
<1>2. CASE \E to \in PCs : SenderEffect(s, to)
  BY <1>1, <1>2, OffKept DEF SenderEffect, SemOnly
<1>3. CASE Send(s) \/ SlowDown(s) \/ Woken(s) \/ Interrupted(s) \/ Push(s) \/ Loopback(s)
  BY <1>0, <1>2, <1>3, SendEffect, SlowDownEffect, WokenEffect, InterruptedEffect,
     PushEffect, LoopbackEffect
<1>4. CASE Xmit(s)
  <2>1. CASE ~Operating(dev) \/ chip = "virt"
    BY <1>2, <1>4, <2>1, XmitEffect
  <2>2. CASE Operating(dev) /\ chip = "mscan"
    <3>1. dev' = MscanXmit(dev)
      BY <1>4, <2>2 DEF Xmit
    <3> QED
      BY <1>0, <1>1, <3>1, MscanXmitShape, OffKept DEF HwOnly
  <2>3. CASE chip = "sja1000"
    BY <1>1, <2>3 DEF MscanOff
  <2> QED
    BY <1>0, <2>1, <2>2, <2>3
<1> QED
  BY <1>3, <1>4 DEF Step

(* The chip *)
LEMMA ChipOff == ASSUME IInv, MscanOff, Sent \/ BusChange \/ Reset PROVE MscanOff'
<1>0. dev \in Devices /\ dev.hw \in Controllers
  BY DeviceParts DEF IInv, TypeOK
<1>1. chip' = chip /\ (upset => upset')
  <2>1. CASE Sent
    BY <2>1 DEF Sent
  <2>2. CASE BusChange \/ Reset
    BY <2>2 DEF BusChange, Reset
  <2> QED
    BY <2>1, <2>2
<1> SUFFICES ASSUME chip = "mscan" PROVE MscanOff'
  BY <1>1 DEF MscanOff
<1>2. CASE Sent
  <2>1. PICK g \in MscanSent(dev.hw) : dev' = [dev EXCEPT !.hw = g]
    BY <1>2 DEF Sent
  <2>2. g \in Controllers /\ g.ir = dev.hw.ir /\ g.rm = dev.hw.rm /\ g.bus = dev.hw.bus
    BY <1>0, MscanSentShape
  <2> QED
    BY <1>0, <1>1, <2>1, <2>2, NewHw, OffKept DEF HwOnly
<1>3. CASE BusChange
  <2>1. PICK g \in MscanBus(dev.hw) : dev' = [dev EXCEPT !.hw = g]
    BY <1>3 DEF BusChange
  <2>2. /\ g \in Controllers /\ dev.hw.ir \subseteq g.ir /\ g.rm = dev.hw.rm
        /\ g.bus # dev.hw.bus => ~dev.hw.rm /\ "CSC" \in g.ir
    BY <1>0, MscanBusShape
  <2>3. HwOnly(dev', dev) /\ dev'.hw = g
    BY <1>0, <2>1, <2>2, NewHw
  <2> QED
    BY <1>1, <2>2, <2>3 DEF MscanOff, HwOnly
<1>4. CASE Reset
  <2>1. PICK g \in MscanReset(dev.hw) : dev' = [dev EXCEPT !.hw = g]
    BY <1>4 DEF Reset
  <2>2. g \in Controllers /\ g.rm /\ g.bus = "ok"
    BY <1>0, MscanResetShape
  <2>3. HwOnly(dev', dev) /\ dev'.hw = g
    BY <1>0, <2>1, <2>2, NewHw
  <2> QED
    BY <1>1, <2>2, <2>3 DEF MscanOff
<1> QED
  BY <1>2, <1>3, <1>4

(* The interrupt handler: only an overrun takes a bus-off away unseen. *)
LEMMA IrqOff ==
    ASSUME IInv, MscanOff, SjaIrq \/ MscanIrq \/ IrqLoopback \/ EnableBusErr
    PROVE  MscanOff'
<1>0. dev \in Devices /\ dev.sem \in Sems
  BY DeviceParts DEF IInv, TypeOK
<1>1. chip' = chip /\ (upset => upset')
  <2>1. CASE SjaIrq
    BY <2>1 DEF SjaIrq
  <2>2. CASE MscanIrq
    BY <2>2 DEF MscanIrq
  <2>3. CASE IrqLoopback
    BY <2>3 DEF IrqLoopback
  <2>4. CASE EnableBusErr
    BY <2>4 DEF EnableBusErr
  <2> QED
    BY <2>1, <2>2, <2>3, <2>4
<1> SUFFICES ASSUME chip = "mscan" PROVE MscanOff'
  BY <1>1 DEF MscanOff
<1>2. CASE MscanIrq /\ MscanTx(dev)
  <2>1. dev' = MscanTxPart(dev)
    BY <1>2 DEF MscanIrq
  <2> QED
    BY <1>0, <1>1, <2>1, MscanTxPartShape, SemUpShape, OffKept
<1>3. ASSUME NEW d \in Devices, dev' = MscanRest(d),
             d.state = dev.state /\ d.sem = dev.sem /\ d.hw = dev.hw,
             MscanMissed(dev) => upset'
      PROVE  MscanOff'
  <2> SUFFICES ASSUME ~upset' PROVE MscanOff'
    BY DEF MscanOff
  <2>1. ~upset /\ ~MscanMissed(dev)
    BY <1>1, <1>3
  <2>2. /\ dev'.hw.ir = {} /\ dev'.hw.rm = dev.hw.rm /\ dev'.hw.bus = dev.hw.bus
        /\ ~Seen(dev.hw) => dev'.state = dev.state
        /\ Seen(dev.hw) => /\ dev'.state \in OperatingStates \cup {"BUS_OFF"}
                           /\ dev.hw.bus = "off" => dev'.state = "BUS_OFF"
        /\ IF Seen(dev.hw) /\ dev'.state = "BUS_OFF"
           THEN dev'.sem = SemDestroy(dev.sem) ELSE dev'.sem = dev.sem
    BY <1>3, MscanRestShape
  <2>3. dev.hw.bus = "off" /\ "CSC" \in dev.hw.ir => Seen(dev.hw)
    BY <2>1 DEF MscanMissed, Seen
  <2>4. dev.hw.bus = "off" => dev'.sem.gone
    BY <1>0, <2>1, <2>2, <2>3, SemDestroyShape DEF MscanOff
  <2>5. dev'.state = "STOPPED" => dev.state = "STOPPED"
    BY <2>2 DEF OperatingStates
  <2> QED
    BY <1>1, <2>1, <2>2, <2>4, <2>5 DEF MscanOff
<1>4. CASE MscanIrq /\ ~MscanTx(dev)
  <2>1. dev' = MscanRest(dev) /\ (MscanMissed(dev) => upset')
    BY <1>4 DEF MscanIrq
  <2> QED
    BY <1>0, <1>3, <2>1
<1>5. CASE IrqLoopback
  <2> DEFINE d == [dev EXCEPT !.skb = None]
  <2>1. dev' = MscanRest(d) /\ (MscanMissed(dev) => upset')
    BY <1>5 DEF IrqLoopback
  <2>2. d \in Devices /\ d.state = dev.state /\ d.sem = dev.sem /\ d.hw = dev.hw
    BY <1>0 DEF Devices
  <2> QED
    BY <1>3, <2>1, <2>2
<1> QED
  BY <1>2, <1>4, <1>5 DEF SjaIrq, EnableBusErr

(* CAN_MODE_START of the MSCAN driver: a start from the stopped state      *)
(* finds the chip in initialisation mode, one from bus-off begins the      *)
(* recovery.                                                               *)
LEMMA StartOff ==
    ASSUME IInv, MscanOff, chip = "mscan", NEW d \in Devices, d.hw = dev.hw,
           NEW started \in BOOLEAN,
           \/ ctl.pc = "idle" /\ d = dev
           \/ dev.hw.rm /\ d.state = "STOPPED" /\ d.sem.gone,
           Start(d, started), chip' = chip
    PROVE  MscanOff'
<1>1. upset => upset'
  BY DEF Start
<1> SUFFICES ASSUME ~upset' PROVE MscanOff'
  BY DEF MscanOff
<1>2. ~upset
  BY <1>1
<1>3. CASE dev' = d
  BY <1>2, <1>3 DEF MscanOff
<1>4. CASE dev' = MscanRecover(d) /\ d.state = "BUS_OFF"
  <2>1. /\ dev'.state = "ACTIVE" /\ dev'.hw.rm = dev.hw.rm
        /\ dev'.hw.bus = IF dev.hw.bus = "off" THEN "recovering" ELSE dev.hw.bus
    BY <1>4, MscanStartBeginShape
  <2> QED
    BY <1>2, <2>1 DEF MscanOff
<1>5. CASE dev' = MscanStartBegin(d) /\ d.state \notin {"BUS_OFF"} \cup OperatingStates
  <2>1. dev'.state = d.state /\ dev'.hw = dev.hw
    BY <1>5, MscanStartBeginShape
  <2>2. ~(dev.hw.bus = "off" /\ "CSC" \notin dev.hw.ir)
    <3>1. CASE d.state = "STOPPED"
      BY <1>2, <3>1 DEF MscanOff
    <3>2. CASE d.state # "STOPPED"
      <4>1. ctl.pc = "idle" /\ dev.state \notin {"STOPPED", "BUS_OFF"}
        BY <1>5, <3>2
      <4>2. ~dev.sem.gone
        BY <1>2, <4>1 DEF IInv, GoneExact
      <4> QED
        BY <1>2, <4>2 DEF MscanOff
    <3> QED
      BY <3>1, <3>2
  <2> QED
    BY <1>2, <2>1, <2>2 DEF MscanOff
<1> QED
  BY <1>3, <1>4, <1>5 DEF Start, Operating

(* The other steps of the control task. *)
LEMMA CtlOff ==
    ASSUME IInv, MscanOff,
           \/ \E req \in Requests : Ioctl(req)
           \/ StopDone \/ StopFails \/ StartDone \/ WakeDone \/ SleepDone
    PROVE  MscanOff'
<1>0. dev \in Devices /\ dev.sem \in Sems /\ upset \in BOOLEAN
  BY DeviceParts DEF IInv, TypeOK
<1>1. chip' = chip
  BY DEF Ioctl, StopDone, StopFails, StartDone, WakeDone, SleepDone
<1> SUFFICES ASSUME chip = "mscan" PROVE MscanOff'
  BY <1>1 DEF MscanOff
<1>2. ASSUME dev' = dev, upset => upset' PROVE MscanOff'
  BY <1>1, <1>2, OffKept
<1>3. ASSUME NEW started \in BOOLEAN, Stop(dev, started) PROVE MscanOff'
  <2>1. upset' = upset /\ (dev' = dev \/ dev' = MscanStopBegin(dev))
    BY <1>3 DEF Stop
  <2>2. CASE dev' = MscanStopBegin(dev)
    BY <1>0, <1>1, <2>1, <2>2, MscanStopBeginShape, OffKept DEF HwOnly
  <2> QED
    BY <1>2, <2>1, <2>2
<1>4. ASSUME Sleep(dev) PROVE MscanOff'
  <2>1. /\ upset => upset'
        /\ dev' = dev \/ (Operating(dev) /\ dev' = MscanSleepBegin(dev))
    BY <1>4 DEF Sleep
  <2>2. CASE Operating(dev) /\ dev' = MscanSleepBegin(dev)
    BY <1>0, <1>1, <2>1, <2>2, MscanSleepShape, OffKept
  <2> QED
    BY <1>2, <2>1, <2>2
<1>5. ASSUME NEW req \in Requests, Ioctl(req) PROVE MscanOff'
  <2>1. ctl.pc = "idle" /\ TRUE \in BOOLEAN /\ FALSE \in BOOLEAN
    BY <1>5 DEF Ioctl
  <2>2. \/ Start(dev, FALSE) \/ Stop(dev, FALSE) \/ Stop(dev, TRUE) \/ Sleep(dev)
        \/ dev' = dev /\ upset' = upset
    BY <1>5 DEF Ioctl
  <2>3. CASE Start(dev, FALSE)
    BY <1>0, <1>1, <2>1, <2>3, StartOff
  <2> QED
    BY <1>2, <1>3, <1>4, <2>1, <2>2, <2>3
<1>6. CASE StopDone
  <2> DEFINE d == MscanStopDone(dev)
  <2>1. Start(d, TRUE) \/ (dev' = d /\ upset' = upset)
    BY <1>6 DEF StopDone
  <2>2. d \in Devices /\ d.state = "STOPPED" /\ d.hw = dev.hw /\ d.sem = SemDestroy(dev.sem)
    BY <1>0, StopDoneShape
  <2>3. d.sem.gone
    BY <1>0, <2>2, SemDestroyShape
  <2>5. dev.hw.rm
    BY <1>6 DEF StopDone
  <2> HIDE DEF d
  <2>4. CASE Start(d, TRUE)
    <3>1. TRUE \in BOOLEAN
      OBVIOUS
    <3> QED
      BY <1>1, <2>2, <2>3, <2>4, <2>5, <3>1, StartOff
  <2>6. CASE dev' = d /\ upset' = upset
    BY <1>1, <2>2, <2>3, <2>5, <2>6 DEF MscanOff
  <2> QED
    BY <2>1, <2>4, <2>6
<1>7. CASE StartDone
  <2>1. dev' = MscanStartDone(dev) /\ upset' = upset
    BY <1>7 DEF StartDone
  <2>2. /\ dev'.state = "ACTIVE" /\ dev'.sem = dev.sem /\ dev'.hw.ir = dev.hw.ir
        /\ dev'.hw.bus = dev.hw.bus /\ ~dev'.hw.rm
    BY <1>0, <2>1, MscanStartDoneShape
  <2> QED
    BY <1>1, <2>1, <2>2 DEF MscanOff
<1>8. CASE SleepDone
  <2>1. PICK acked \in BOOLEAN : dev' = MscanSleepDone(dev, acked)
    BY <1>8 DEF SleepDone
  <2>2. upset' = upset
    BY <1>8 DEF SleepDone
  <2> QED
    BY <1>0, <1>1, <2>1, <2>2, MscanSleepDoneShape, OffKept
<1>9. CASE WakeDone
  BY <1>2, <1>9 DEF WakeDone
<1> QED
  BY <1>5, <1>6, <1>7, <1>8, <1>9 DEF StopFails

(* Every step. *)
LEMMA NextOff == ASSUME IInv, MscanOff, [Next]_vars PROVE MscanOff'
<1>1. CASE Overlap
  <2>1. upset'
    BY <1>1 DEF Overlap
  <2> QED
    BY <2>1 DEF MscanOff
<1>2. CASE UNCHANGED vars
  BY <1>2 DEF vars, MscanOff
<1> QED
  BY <1>1, <1>2, SenderOff, ChipOff, IrqOff, CtlOff DEF Next

(* The invariant holds throughout. *)
THEOREM FullInvariance == Spec => []FullInv
<1>1. Init => FullInv
  <2> SUFFICES ASSUME Init PROVE FullInv
    OBVIOUS
  <2>1. /\ parked = NoTask /\ NoTask.pc = "none" /\ dev = InitDev
    BY DEF Init, NoTask
  <2>2. InitDev.hw = Hardware /\ InitDev.state = "STOPPED"
    BY DEF InitDev
  <2>3. Hardware.bus = "ok"
    BY DEF Hardware
  <2>4. Hardware.rm = TRUE
    BY Zenon DEF Hardware
  <2>5. ParkedOfChip
    BY <2>1 DEF ParkedOfChip
  <2>6. MscanOff
    BY <2>1, <2>2, <2>3, <2>4 DEF MscanOff
  <2> QED
    BY <2>5, <2>6, InitIInv DEF FullInv
<1>2. FullInv /\ [Next]_vars => FullInv'
  BY NextIInv, NextParked, NextOff DEF FullInv
<1> QED
  BY <1>1, <1>2, PTL DEF Spec

(* Its first part, which the theorems below use. *)
THEOREM Invariance == Spec => []IInv
<1>1. FullInv => IInv
  BY DEF FullInv
<1> QED
  BY <1>1, FullInvariance, PTL

(* The values of the device, the senders and the control tasks. *)
THEOREM TypeCorrect == Spec => []TypeOK
<1>1. IInv => TypeOK
  BY DEF IInv
<1> QED
  BY <1>1, Invariance, PTL

(* No sender sleeps on through a stop or a bus-off, for any number of      *)
(* senders: the state of the device tells (GoneExact), and so does the     *)
(* chip's own, for once its report is handled tx_sem is destroyed (SjaLive *)
(* and MscanOff), whatever was raised with the report.                     *)
THEOREM WakesAll == Spec => []StopWakesAll
<1>1. FullInv => StopWakesAll
  <2> SUFFICES ASSUME FullInv, ~upset,
                      OffTold \/ (dev.state \in {"STOPPED", "BUS_OFF"} /\ ctl.pc # "starting")
               PROVE  AllWoken
    BY DEF StopWakesAll
  <2>0. IInv /\ MscanOff /\ chip \in {"virt", "sja1000", "mscan"}
    BY CanTxAssumption DEF FullInv, IInv, TypeOK
  <2>2. dev.sem.gone
    <3>1. CASE dev.state \in {"STOPPED", "BUS_OFF"} /\ ctl.pc # "starting"
      BY <2>0, <3>1 DEF IInv, GoneExact
    <3>2. CASE OffTold /\ chip = "sja1000"
      BY <2>0, <3>2 DEF IInv, OffTold, SjaBusOff, SjaExact, SjaLive
    <3>3. CASE OffTold /\ chip = "mscan"
      BY <2>0, <3>3 DEF OffTold, MscanOff
    <3> QED
      BY <2>0, <3>1, <3>2, <3>3 DEF OffTold
  <2> QED
    BY <2>0, <2>2 DEF IInv, GoneWakes, AllWoken
<1> QED
  BY <1>1, FullInvariance, PTL

(* While the controller operates there is exactly one permit: sendmsg, the *)
(* interrupt handlers, sleep, bus-off and restart neither lose nor double  *)
(* it, up to the events counted in `upset'.                                *)
THEOREM PermitConserved == Spec => []OnePermit
<1>1. IInv => OnePermit
  <2> SUFFICES ASSUME IInv, ~upset, Operating(dev), ctl.pc = "idle"
               PROVE  dev.sem.count + dev.sem.sleepers + Cardinality(Slow)
                         + Cardinality(Holders) + InFlight(dev, chip) = 1
    BY DEF OnePermit
  <2>1. ~dev.sem.gone
    BY DEF IInv, GoneExact, Operating, OperatingStates
  <2> QED
    BY <2>1 DEF IInv, Permits, Free
<1> QED
  BY <1>1, Invariance, PTL

(* A setting that stops a running controller leaves it operating when it   *)
(* returns, upset or not: the restart finds the controller stopped and     *)
(* does not take the early return of CAN_MODE_START, and a stop that fails *)
(* leaves a controller that cannot have gone bus-off, for bus-off would    *)
(* have set the reset bit that the stop waits for.                         *)
THEOREM SettingsRestart == Spec => SettingsKeepRunning
<1> DEFINE A == parked'.pc = "none" /\ ctl.started /\ ctl.pc \in {"stopping", "starting"}
                      /\ ctl'.pc = "idle" => Operating(dev')
<1>1. ASSUME IInv, [Next]_vars PROVE [A]_vars
  <2> SUFFICES ASSUME Next, ctl.started, ctl.pc \in {"stopping", "starting"},
                      ctl'.pc = "idle", parked'.pc = "none"
               PROVE  Operating(dev')
    BY <1>1
  <2>0. dev \in Devices /\ "ACTIVE" \in OperatingStates
    BY <1>1 DEF IInv, TypeOK, OperatingStates
  <2>1. StopDone \/ StopFails \/ StartDone
    <3>1. ctl.pc # "idle" /\ ctl' # ctl
      OBVIOUS
    <3>2. ASSUME NEW s \in Senders, Send(s) \/ Step(s) \/ Interrupted(s) PROVE ctl' = ctl
      BY <3>2 DEF Send, Step, SlowDown, Woken, Push, Xmit, Loopback, Interrupted
    <3>3. Sent \/ BusChange \/ Reset \/ SjaIrq \/ MscanIrq \/ IrqLoopback \/ EnableBusErr
             => ctl' = ctl
      BY DEF Sent, BusChange, Reset, SjaIrq, MscanIrq, IrqLoopback, EnableBusErr
    <3>4. ASSUME NEW req, Ioctl(req) PROVE ctl.pc = "idle"
      BY <3>4 DEF Ioctl
    <3>5. ~WakeDone /\ ~SleepDone
      BY DEF WakeDone, SleepDone
    <3>6. ~Overlap
      BY <1>1 DEF Overlap, IInv, TypeOK, CtlPCs
    <3> QED
      BY <3>1, <3>2, <3>3, <3>4, <3>5, <3>6 DEF Next
  <2>2. CASE StopDone
    <3> DEFINE d == IF chip = "sja1000" THEN SjaStopDone(dev) ELSE MscanStopDone(dev)
    <3>1. ctl.pc = "stopping" /\ Start(d, TRUE)
      BY <2>2 DEF StopDone
    <3>2. d \in Devices /\ d.state = "STOPPED"
      BY <2>0, StopDoneShape
    <3>3. chip # "virt"
      BY <1>1, <3>1 DEF IInv, CtlOfChip
    <3> HIDE DEF d
    <3>4. ~Operating(d) /\ d.state \notin {"SLEEPING", "BUS_OFF"} /\ ResetState(d.state)
      BY <3>2 DEF Operating, OperatingStates, ResetState
    <3>5. (chip = "sja1000" /\ dev' = SjaStart(d)) \/ Continue("starting", TRUE)
      BY <3>1, <3>3, <3>4 DEF Start
    <3>6. ~Continue("starting", TRUE)
      <4>1. "starting" \in CtlPCs /\ TRUE \in BOOLEAN
        BY DEF CtlPCs
      <4>2. Continue("starting", TRUE) => ctl'.pc = "starting"
        BY <4>1, CtlValues, Zenon DEF Continue
      <4> QED
        BY <4>2
    <3>7. dev'.state = "ACTIVE"
      <4>1. SjaStart(d).state = "ACTIVE"
        BY <3>2, <3>4, SjaStartShape
      <4>2. dev' = SjaStart(d)
        BY <3>5, <3>6
      <4> QED
        BY <4>1, <4>2
    <3> QED
      BY <2>0, <3>7 DEF Operating
  <2>3. CASE StopFails
    <3>1. /\ ctl.pc = "stopping" /\ chip = "sja1000" /\ ~dev.hw.rm
          /\ dev' = SjaStopFails(dev)
      BY <2>3 DEF StopFails
    <3>2. dev'.state = dev.state
      BY <2>0, <3>1, SjaStopShape DEF HwOnly
    <3>3. dev.state \in OperatingStates
      <4>1. parked' = parked
        BY <2>3 DEF StopFails
      <4> QED
        BY <1>1, <3>1, <4>1 DEF IInv, SjaBusOff
    <3> QED
      BY <3>2, <3>3 DEF Operating
  <2>4. CASE StartDone
    <3>1. dev' = MscanStartDone(dev)
      BY <2>4 DEF StartDone
    <3>2. dev'.state = "ACTIVE"
      BY <2>0, <3>1, MscanStartDoneShape
    <3> QED
      BY <2>0, <3>2 DEF Operating
  <2> QED
    BY <2>1, <2>2, <2>3, <2>4
<1>2. IInv /\ [Next]_vars => [A]_vars
  BY <1>1
<1> QED
  BY <1>2, Invariance, PTL DEF Spec, SettingsKeepRunning
=============================================================================
