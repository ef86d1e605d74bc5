------------------------------- MODULE CanMscan -------------------------------
(***************************************************************************)
(* The MSCAN driver (drivers/can/mscan/rtcan_mscan.c): interrupt handler,  *)
(* mode changes, start of a transmission, and the chip's own steps.  ir is *)
(* canrflg (the flags CSC, OVR and WUP), ier is canrier, tie is cantier.   *)
(* The TX interrupt is pending while tie is set and the TX buffer is       *)
(* empty.  Mode changes poll for the chip's acknowledge with device_lock   *)
(* dropped.  Bus-off is "recovering" once the driver was told to restart.  *)
(***************************************************************************)
EXTENDS CanDev

(* mscan_stat_map *)
StatMap(bus) ==
    CASE bus = "ok" -> "ACTIVE" [] bus = "warning" -> "BUS_WARNING"
      [] bus = "passive" -> "BUS_PASSIVE" [] OTHER -> "BUS_OFF"

(* rtcan_mscan_err_interrupt: an overrun is reported in place of a change  *)
(* of state.                                                               *)
MscanStateChange(d) ==
    LET st == StatMap(d.hw.bus)
    IN  [d EXCEPT !.state = st,
                  !.hw.ier = IF st = "BUS_OFF" THEN "none" ELSE @,
                  !.sem = IF st = "BUS_OFF" THEN SemDestroy(@) ELSE @]
MscanErrorQuiet(d) ==              \* mutant: bus-off does not destroy tx_sem
    IF "OVR" \in d.hw.ir THEN d ELSE [d EXCEPT !.state = StatMap(d.hw.bus)]
MscanError(d) == IF "OVR" \in d.hw.ir THEN d ELSE MscanStateChange(d)

(* rtcan_mscan_interrupt: the transmit part up to the loopback, and what   *)
(* follows it, where all flags are acknowledged; a wake-up is acknowledged *)
(* and nothing else.                                                       *)
MscanPending(h) ==
    \/ h.tie /\ h.buf = "free"
    \/ h.ier = "all" /\ h.ir # {}
    \/ h.ier = "wup" /\ "WUP" \in h.ir
MscanTx(d) == d.hw.tie /\ d.hw.buf = "free"
MscanTxPart(d) == [d EXCEPT !.hw.tie = FALSE, !.sem = SemUp(@)]
MscanRest(d) ==
    LET e == IF d.hw.ir \cap {"CSC", "OVR"} # {} THEN MscanError(d) ELSE d
    IN  [e EXCEPT !.hw.ir = {}]
MscanMissed(d) == {"CSC", "OVR"} \subseteq d.hw.ir /\ d.hw.bus = "off"

(* rtcan_mscan_mode_stop: request, and what follows the acknowledge *)
MscanStopBegin(d) == [d EXCEPT !.hw.req = TRUE]
MscanStopDone(d) == [d EXCEPT !.state = "STOPPED", !.sem = SemDestroy(@)]

(* rtcan_mscan_mode_start: tx_sem is set up before the polls, the state    *)
(* after them.                                                             *)
MscanStartBegin(d) == [d EXCEPT !.sem = SemInit(@)]
MscanStartDone(d) ==
    [d EXCEPT !.state = "ACTIVE", !.hw.ier = "all", !.hw.rm = FALSE, !.hw.req = FALSE,
              !.hw.asleep = FALSE, !.hw.buf = IF @ = "lost" THEN "free" ELSE @]
MscanRecover(d) ==
    [d EXCEPT !.state = "ACTIVE", !.sem = SemInit(@), !.hw.ier = "all",
              !.hw.bus = IF @ = "off" THEN "recovering" ELSE @]

(* CAN_MODE_SLEEP in rtcan_mscan_set_mode: all interrupts off, the polls,  *)
(* then only the wake-up interrupt on.                                     *)
MscanSleepBegin(d) ==
    [d EXCEPT !.before = d.state, !.hw.ier = "none", !.hw.tie = FALSE]
MscanSleepDone(d, acked) ==
    [d EXCEPT !.state = "SLEEPING", !.hw.ier = "wup", !.hw.asleep = acked]

(* rtcan_mscan_start_xmit; -EIO if the TX buffer is not empty.  In         *)
(* initialisation mode the registers are held in reset.                    *)
MscanXmit(d) ==
    IF d.hw.buf = "busy" THEN d
    ELSE IF d.hw.rm THEN [d EXCEPT !.hw.buf = "lost"]
    ELSE [d EXCEPT !.hw.buf = "busy", !.hw.tie = TRUE]

-----------------------------------------------------------------------------
(* The chip (external): a frame is sent; the error level changes; the      *)
(* receive buffers overrun; bus activity ends sleep mode; initialisation   *)
(* mode is entered.                                                        *)
MscanOnBus(h) == ~h.rm /\ ~h.asleep
MscanSent(h) ==
    IF MscanOnBus(h) /\ h.bus \notin {"off", "recovering"} /\ h.buf = "busy"
    THEN {[h EXCEPT !.buf = "free"]} ELSE {}
MscanMoves ==
    {<<"ok", "warning">>, <<"warning", "passive">>, <<"passive", "off">>,
     <<"passive", "warning">>, <<"warning", "ok">>, <<"off", "ok">>, <<"recovering", "ok">>}
MscanBus(h) ==
    {[h EXCEPT !.bus = m[2], !.ir = @ \cup {"CSC"}] :
         m \in {x \in MscanMoves : MscanOnBus(h) /\ x[1] = h.bus}}
    \cup (IF MscanOnBus(h) /\ h.bus \notin {"off", "recovering"}
          THEN {[h EXCEPT !.ir = @ \cup {"OVR"}]} ELSE {})
    \cup (IF h.asleep THEN {[h EXCEPT !.asleep = FALSE, !.ir = @ \cup {"WUP"}]} ELSE {})
MscanReset(h) ==
    IF h.req /\ ~h.rm
    THEN {[h EXCEPT !.rm = TRUE, !.req = FALSE, !.buf = "free", !.tie = FALSE, !.ir = {},
                    !.ier = "none", !.asleep = FALSE, !.bus = "ok"]} ELSE {}
=============================================================================
