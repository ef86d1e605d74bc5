------------------------------ MODULE CanSja1000 ------------------------------
(***************************************************************************)
(* The SJA1000 driver (drivers/can/sja1000/rtcan_sja1000.c): interrupt     *)
(* handler, mode changes, start of a transmission, and the chip's own      *)
(* steps.  Interrupt bits latch only when enabled: ier is "all"            *)
(* (SJA1000_IER), "EI" (bus-off) or "none".  Received frames and the       *)
(* contents of error frames go to the sockets (CanRing) and change nothing *)
(* here.                                                                   *)
(***************************************************************************)
EXTENDS CanDev

ResetState(st) == st \in {"STOPPED", "BUS_OFF"}      \* STATE_RESET

(* rtcan_sja_err_interrupt: the state after EPI and EI *)
AfterEpi(st) == IF st = "BUS_WARNING" THEN "BUS_PASSIVE" ELSE "BUS_WARNING"
AfterEi(st, bus) ==
    IF bus \in {"off", "recovering"} THEN "BUS_OFF"
    ELSE IF bus \in {"warning", "passive"} THEN "BUS_WARNING"
    ELSE IF st = "BUS_WARNING" THEN "ACTIVE" ELSE st
SjaError(d, ir) ==
    LET st1 == IF "EPI" \in ir THEN AfterEpi(d.state) ELSE d.state
        st2 == IF "EI" \in ir THEN AfterEi(st1, d.hw.bus) ELSE st1
        off == "EI" \in ir /\ st2 = "BUS_OFF"
        recovered == "EI" \in ir /\ d.hw.bus = "ok" /\ st1 # "BUS_WARNING"
    IN  [d EXCEPT !.state = st2,
                  !.hw.ier = IF off THEN "EI" ELSE IF recovered THEN "all" ELSE @,
                  !.hw.ecc = @ \/ "BEI" \in ir,
                  !.sem = IF off THEN SemDestroy(@) ELSE @]

(* bus_err_on-- < 2: the bus error is not wanted, and with it every error  *)
(* read in the same pass of the loop is dropped.                           *)
Dropped(d, ir) == "BEI" \in ir /\ d.hw.berr < 2
CountBei(d, ir) ==
    IF "BEI" \in ir /\ d.hw.berr > 0 THEN [d EXCEPT !.hw.berr = @ - 1] ELSE d

(* rtcan_sja_interrupt, one pass of its loop up to the loopback: reading   *)
(* SJA_IR clears it.                                                       *)
SjaInterrupt(d) ==
    LET ir == d.hw.ir
        d0 == [d EXCEPT !.hw.ir = {},
                        !.hw.buf = IF @ = "lost" /\ "EI" \in ir THEN "free" ELSE @]
        d1 == IF "WUI" \in ir THEN [d0 EXCEPT !.state = d.before] ELSE d0
        d2 == CountBei(d1, ir)
        d3 == IF ir \cap {"EI", "EPI", "BEI"} # {} /\ ~Dropped(d, ir)
              THEN SjaError(d2, ir) ELSE d2
    IN  IF "TI" \in ir THEN [d3 EXCEPT !.sem = SemUp(@)] ELSE d3

(* rtcan_sja_is_operating, as do_get_state calls it *)
SjaGetState(d) ==
    IF ~ResetState(d.state) /\ d.hw.rm
    THEN [d EXCEPT !.state = "STOPPED", !.hw.ier = "none", !.sem = SemDestroy(@)]
    ELSE d

(* rtcan_sja_mode_stop: up to the first read of the reset bit; success;    *)
(* and the failure after 50 reads, where interrupts are enabled again.     *)
SjaStopBegin(d) == [d EXCEPT !.hw.ier = "none", !.hw.req = TRUE]
SjaStopDone(d) == [d EXCEPT !.state = "STOPPED", !.sem = SemDestroy(@)]
SjaStopFails(d) == [d EXCEPT !.hw.ier = "all"]

(* rtcan_sja_mode_start *)
SjaStart(d) ==
    IF d.state = "STOPPED"
    THEN [d EXCEPT !.state = "ACTIVE", !.sem = SemInit(@), !.hw.ecc = TRUE,
                   !.hw.ier = "all", !.hw.rm = FALSE, !.hw.req = FALSE, !.hw.bus = "ok",
                   !.hw.buf = "free"]
    ELSE IF d.state = "BUS_OFF"
    THEN [d EXCEPT !.state = "ACTIVE", !.sem = SemInit(@), !.hw.rm = FALSE,
                   !.hw.req = FALSE,
                   !.hw.bus = IF @ = "off" THEN "recovering" ELSE @]
    ELSE d
SjaWake(d) ==           \* clears SJA_MOD_SM: the wake-up interrupt
    [d EXCEPT !.hw.asleep = FALSE, !.hw.req = FALSE,
              !.hw.ir = IF d.hw.asleep /\ d.hw.ier = "all" THEN @ \cup {"WUI"} ELSE @]

(* CAN_MODE_SLEEP in rtcan_sja_set_mode *)
SjaSleep(d) ==
    LET g == SjaGetState(d)
    IN  IF ResetState(g.state) \/ g.state = "SLEEPING" THEN g
        ELSE [g EXCEPT !.before = g.state, !.state = "SLEEPING", !.hw.asleep = TRUE]

(* rtcan_sja_start_xmit; in reset mode the chip takes no frame. *)
SjaXmit(d) == [d EXCEPT !.hw.buf = IF d.hw.rm THEN "lost" ELSE "busy"]

(* rtcan_sja_enable_bus_err: reading SJA_ECC arms the capture again. *)
SjaEnableBusErr(d) ==
    [d EXCEPT !.hw.ecc = @ \/ d.hw.berr < 1, !.hw.berr = 2]

-----------------------------------------------------------------------------
(* The chip (external). *)
Latch(h, bits) ==
    IF h.ier = "all" THEN [h EXCEPT !.ir = @ \cup bits]
    ELSE IF h.ier = "EI" THEN [h EXCEPT !.ir = @ \cup (bits \cap {"EI"})]
    ELSE h

SjaOnBus(h) == ~h.rm /\ ~h.asleep /\ h.bus \notin {"off", "recovering"}
If(p, h) == IF p THEN {h} ELSE {}

(* Error level before and after, and the interrupt that tells *)
BusMoves ==
    {<<"ok", "warning", "EI">>, <<"warning", "passive", "EPI">>,
     <<"passive", "warning", "EPI">>, <<"warning", "ok", "EI">>}

(* A frame is sent; the error level changes; bus-off (the chip enters      *)
(* reset mode, which clears SJA_IR but for the new EI and perhaps the BEI  *)
(* of the error that led there, and gives its frame up); bus-off recovery  *)
(* ends; a bus error is captured; bus activity ends sleep mode; a reset    *)
(* request is obeyed.                                                      *)
SjaSent(h) == If(SjaOnBus(h) /\ h.buf = "busy", [Latch(h, {"TI"}) EXCEPT !.buf = "free"])
SjaBus(h) ==
    {[Latch(h, {m[3]}) EXCEPT !.bus = m[2]] : m \in {x \in BusMoves : SjaOnBus(h) /\ x[1] = h.bus}}
    \cup {[Latch(h, {"EI"}) EXCEPT !.bus = "off", !.rm = TRUE, !.ir = @ \cap kept,
                                   !.buf = IF @ = "busy" \/ "TI" \in h.ir THEN "lost" ELSE @] :
              kept \in {b \in {{"EI"}, {"EI", "BEI"}} : /\ SjaOnBus(h) /\ h.bus = "passive"
                                                        /\ "BEI" \in b => h.ier = "all"}}
    \cup If(h.bus = "recovering" /\ ~h.rm, [Latch(h, {"EI"}) EXCEPT !.bus = "ok"])
    \cup If(SjaOnBus(h) /\ h.ecc /\ h.ier = "all", [Latch(h, {"BEI"}) EXCEPT !.ecc = FALSE])
    \cup If(h.asleep /\ ~h.rm, [Latch(h, {"WUI"}) EXCEPT !.asleep = FALSE])
SjaReset(h) ==
    If(h.req /\ ~h.rm, [h EXCEPT !.rm = TRUE, !.req = FALSE, !.buf = "free", !.ir = {},
                                 !.asleep = FALSE])
=============================================================================
