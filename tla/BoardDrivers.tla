----------------------------- MODULE BoardDrivers -----------------------------
(***************************************************************************)
(* Loading and unloading the driver modules: the rtcan core, the virtual,  *)
(* ISA, memory-mapped, MSCAN, PEAK dongle, PEAK PCI and IXXAT PCI board    *)
(* drivers, and the 16550A driver.                                         *)
(*                                                                         *)
(* Each sets up a number of devices one after the other; a device is a     *)
(* script of resources taken in order, and for every step that can fail    *)
(* the labels of the error exit say what is given back.  Resource r of     *)
(* device i is <<i, r>>; index 0 is the board as a whole.  "dev" is the    *)
(* device structure, "table" its entry in rtcan_devices, "proc" its /proc  *)
(* directory.  Meanwhile users may start and stop the devices that are     *)
(* already there.                                                          *)
(*                                                                         *)
(* Every step may fail for reasons of its own (no memory, no chip, ...);   *)
(* an I/O region that is still held fails for certain.                     *)
(***************************************************************************)
EXTENDS Integers, Sequences

CONSTANTS
    Drivers,     \* the drivers to check
    MaxDev       \* bound: devices per driver

ASSUME BoardDriversAssumption ==
    /\ Drivers \subseteq {"core", "virt", "isa", "mem", "mscan", "peak_dng", "peak_pci",
                          "ixxat_pci", "serial"}
    /\ MaxDev \in Nat \ {0}

VARIABLES
    drv,      \* the driver
    pc,       \* "out", "loading", "in"; "oops": the kernel stops the loading task;
              \* "spent": loaded although its init function failed and cleaned up;
              \* "twice": its exit function gave back once more what was gone
    total,    \* devices to set up (module parameters, channels of the board);
              \* while "spent", the devices its init function had remembered
    next,     \* the device the init loop is at
    k,        \* [held, wrong]: resources held; history: resources that were
              \* given back or accessed without being held
    running,  \* devices whose controller is in an operating state
    ghosts,   \* history: devices freed although rtcan_dev_unregister said -EBUSY
    pnp       \* pnp_registered

vars == <<drv, pc, total, next, k, running, ghosts, pnp>>

Init ==
    /\ drv \in Drivers /\ pc = "out" /\ total = 0 /\ next = 1
    /\ k = [held |-> {}, wrong |-> {}] /\ running = {} /\ ghosts = {}
    /\ pnp = 0

-----------------------------------------------------------------------------
(* Taking, accessing and giving back *)
Exclusive == {"ports", "memory", "regions"}
Checks == {"config", "id"}               \* steps that take nothing

Get(s, i, rs) == [s EXCEPT !.held = @ \cup ({i} \X (rs \ Checks))]
Access(s, i, rs) == [s EXCEPT !.wrong = @ \cup (({i} \X rs) \ s.held)]
Put(s, i, rs) == [Access(s, i, rs) EXCEPT !.held = @ \ ({i} \X rs)]

(* The outcomes of a script.  undo[r] is what the error exit of step r     *)
(* gives back; a step without an undo cannot fail.                         *)
Taken(script, n) == {script[j] : j \in 1..n}
Free(s, i, script, n) == \A r \in Taken(script, n) \cap Exclusive : <<i, r>> \notin s.held
Attempt(s, i, script, undo) ==
    {[ok |-> FALSE, at |-> script[n],
      k |-> Put(Get(s, i, Taken(script, n - 1)), i, undo[script[n]])] :
         n \in {m \in 1..Len(script) : script[m] \in DOMAIN undo /\ Free(s, i, script, m - 1)}}
    \cup (IF Free(s, i, script, Len(script))
          THEN {[ok |-> TRUE, at |-> "", k |-> Get(s, i, Taken(script, Len(script)))]}
          ELSE {})

-----------------------------------------------------------------------------
(* rtcan_dev_create_proc after rtcan_dev_register: all entries, none, or   *)
(* proc_root left pointing to the entry that error2 and error3 removed.    *)
WithProc(outcomes, i) ==
    {o \in outcomes : ~o.ok}
    \cup {[o EXCEPT !.k = Get(o.k, i, p)] :
              o \in {x \in outcomes : x.ok}, p \in {{"proc"}, {}, {"stale"}}}

(* rtcan_dev_unregister; rtcan_dev_remove_proc works on proc_root if set. *)
Unregister(s, i, busy) ==
    LET a == Access(s, i, {"dev"})
        p == {r \in {"proc", "stale"} : <<i, r>> \in s.held}
        b == [a EXCEPT !.held = @ \ ({i} \X p),
                       !.wrong = @ \cup ({i} \X (p \cap {"stale"}))]
    IN  IF busy THEN a ELSE Put(b, i, {"table"})

(* rtcan_sja1000_register: no chip, a busy interrupt or a failing          *)
(* rtcan_dev_register; it frees the interrupt itself, and its callers give *)
(* `back' what they had.                                                   *)
SjaRegister == <<"irq", "table">>
SjaUndo(undo, back) ==
    [r \in DOMAIN undo \cup Taken(SjaRegister, 2) |->
        CASE r = "irq" -> back [] r = "table" -> {"irq"} \cup back [] OTHER -> undo[r]]

(* rtcan_sja1000_unregister: the registers are still needed for the stop. *)
SjaUnregister(s, i, regs, busy) ==
    Unregister(Put([s EXCEPT !.wrong = @ \cup (regs \ s.held)], i, {"irq"}), i, busy)

-----------------------------------------------------------------------------
(* One definition for the setting up of a device, one for its end. *)
VirtInitOne(s, i) ==
    WithProc(Attempt(s, i, <<"dev", "table">>, [dev |-> {}, table |-> {"dev"}]), i)
VirtExitOneFrees(s, i, busy) == Put(s, i, {"dev"})   \* mutant: no rtcan_dev_unregister
VirtExitOne(s, i, busy) == Put(Unregister(s, i, busy), i, {"dev"})

IsaInitOne(s, i) ==
    WithProc(Attempt(s, i, <<"dev", "ports">> \o SjaRegister,
        SjaUndo([dev |-> {}, ports |-> {"dev"}], {"ports", "dev"})), i)
IsaExitOne(s, i, busy) == Put(SjaUnregister(s, i, {<<i, "ports">>}, busy), i, {"dev"})

MemInitOne(s, i) ==
    WithProc(Attempt(s, i, <<"dev", "memory", "map">> \o SjaRegister,
        SjaUndo([dev |-> {}, memory |-> {"dev"}, map |-> {"memory", "dev"}],
                {"map", "memory", "dev"})), i)
MemExitOne(s, i, busy) ==
    Put(SjaUnregister(s, i, {<<i, "map">>}, busy), i, {"map", "memory", "dev"})

(* "module": MSCAN_CANE, never cleared again by the exit *)
MscanInitOneKeeps(s, i) ==            \* mutant: no rtcan_dev_free when the IRQ is busy
    WithProc(Attempt(s, i, <<"dev", "module", "irq", "table">>,
        [dev |-> {}, irq |-> {"module"}, table |-> {"irq", "module", "dev"}]), i)
MscanInitOne(s, i) ==
    WithProc(Attempt(s, i, <<"dev", "module", "irq", "table">>,
        [dev |-> {}, irq |-> {"module", "dev"}, table |-> {"irq", "module", "dev"}]), i)
MscanExitOne(s, i, busy) ==
    Put(Unregister(Put(s, i, {"irq"}), i, busy), i, {"dev"})

(* "parport": the port's saved contents and its interrupt.  dng->type      *)
(* stays DONGLE_TYPE_SP, so the ECR region of an EPP dongle is never       *)
(* requested.                                                              *)
DngInitOne(s, i) ==
    WithProc(Attempt(s, i, <<"dev", "ports", "parport">> \o SjaRegister,
        SjaUndo([dev |-> {}, ports |-> {"dev"}], {"ports", "dev"})), i)
DngExitOne(s, i, busy) ==
    Put(SjaUnregister(s, i, {<<i, "ports">>}, busy), i, {"parport", "ports", "dev"})

(* rtdm_dev_register returns the major number of a named device, which     *)
(* __16550A_init takes for an error and returns: nothing is ever           *)
(* remembered.                                                             *)
SerialInitOne(s, i) ==
    LET undo == [dev |-> {}, ports |-> {"dev"}, chrdev |-> {"ports", "dev"}]
        all == Attempt(s, i, <<"dev", "ports", "chrdev">>, undo)
    IN  {o \in all : ~o.ok}
        \cup {[ok |-> FALSE, at |-> "major", k |-> Put(o.k, i, undo.chrdev)] :
                  o \in {x \in all : x.ok}}

(* rtcan_init and rtcan_exit: the protocol stays registered when the /proc *)
(* entries cannot be created.                                              *)
CoreInitOne(s, i) ==
    Attempt(s, i, <<"proto", "root", "devices", "version", "sockets">>,
        [proto |-> {}, root |-> {}, devices |-> {"root"}, version |-> {"devices", "root"},
         sockets |-> {"version", "devices", "root"}])
CoreExitOne(s, i) == Put(s, i, {"proto", "devices", "version", "sockets", "root"})

-----------------------------------------------------------------------------
(* PEAK PCI: channel 1 is the master or the single channel, 2 the slave;   *)
(* the slave uses the master's mapping of the configuration space.         *)
(* rtcan_peak_pci_del_chan(c, step) falls through from case step to case 2.*)
PeakSteps == {<<5, "pita">>, <<4, "base">>, <<3, "conf">>, <<2, "dev">>}
PeakPuts(c, step) ==
    {p[2] : p \in {q \in PeakSteps : q[1] <= step /\ ~(c = 2 /\ q[2] = "conf")}}
PeakDelChan(s, c, busy) ==
    Put(Access(SjaUnregister(s, c, {<<c, "base">>}, busy), 1, {"conf"}), c, PeakPuts(c, 5))

PeakBoardInit(s) ==
    Attempt(s, 0, <<"pci", "regions", "config">>,
        [pci |-> {}, regions |-> {}, config |-> {"regions"}])
PeakAddChan(s, c) ==
    LET script == IF c = 2 THEN <<"dev", "base", "pita">> ELSE <<"dev", "conf", "base", "pita">>
    IN  WithProc(Attempt(s, c, script \o SjaRegister,
            SjaUndo([dev |-> {}, conf |-> PeakPuts(c, 2),
                     base |-> PeakPuts(c, IF c = 2 THEN 2 ELSE 3)], PeakPuts(c, 5))), c)
PeakCleanup(s, c, busy) ==
    Put(IF c = 2 THEN PeakDelChan(s, 1, busy) ELSE s, 0, {"regions"})
PeakRemoveMasterFirst(s, busy) ==     \* mutant: the slave is removed after the master
    Put(PeakDelChan(PeakDelChan(s, 1, 1 \in busy), 2, 2 \in busy), 0, {"regions", "pci"})
PeakRemove(s, busy) ==
    Put(PeakDelChan(PeakDelChan(s, 2, 2 \in busy), 1, 1 \in busy), 0, {"regions", "pci"})

(* IXXAT PCI: one mapping <<0, "base">> for both channels, "intcsr" the    *)
(* interrupt bit of a channel.  A device without a slave takes the slave's *)
(* branch.  There the slave writes to <<2, "reset">>, which is never       *)
(* there: its base address has the channel's offset already, and           *)
(* CHANNEL_SLAVE_RESET adds it again, beyond the end of the mapping.       *)
IxxatDelChan(s, c, slave, busy) ==
    LET a == Access(SjaUnregister(s, c, {<<0, "base">>}, busy), 0, {"base"})
    IN  IF slave
        THEN Put(Put(a, c, {"intcsr", "dev"}), 0, {"base"})
        ELSE LET b == [a EXCEPT !.held = @ \ {<<2, "intcsr">>}]
             IN  Put(Access(b, c, IF c = 2 THEN {"reset"} ELSE {}), c, {"dev"})

IxxatBoardInit(s) ==
    Attempt(s, 0, <<"pci", "regions", "config", "id", "base">>,
        [pci |-> {}, regions |-> {}, config |-> {"regions"}, id |-> {}, base |-> {"regions"}])
IxxatAddChan(s, c) ==
    WithProc(Attempt(s, c, <<"dev", "intcsr">> \o SjaRegister,
        SjaUndo([dev |-> {}], {"dev"})), c)
IxxatCleanup(s, c, at, busy) ==       \* slave_dev is set once the slave's memory is there
    Put(IF c = 2 THEN IxxatDelChan(s, 1, at # "dev", busy) ELSE s, 0, {"base", "regions"})
IxxatRemove(s, n, busy) ==
    LET a == IF n = 2 THEN IxxatDelChan(s, 2, FALSE, 2 \in busy) ELSE s
    IN  Put(IxxatDelChan(a, 1, n = 2, 1 \in busy), 0, {"regions", "pci"})

-----------------------------------------------------------------------------
(* What comes before the devices; registering with PnP may fail silently. *)
BoardInit(s) ==
    CASE drv = "peak_pci" -> PeakBoardInit(s)
      [] drv = "ixxat_pci" -> IxxatBoardInit(s)
      [] drv \in {"peak_dng", "serial"} ->
             {[ok |-> TRUE, at |-> "", k |-> x] : x \in {s, Get(s, 0, {"pnp"})}}
      [] OTHER -> {[ok |-> TRUE, at |-> "", k |-> s]}
(* pnp_registered is never reset. *)
PnpExit(s, registered) == IF registered = 1 THEN Put(s, 0, {"pnp"}) ELSE s

DeviceInit(s, i) ==
    CASE drv = "core" -> CoreInitOne(s, i) [] drv = "virt" -> VirtInitOne(s, i)
      [] drv = "isa" -> IsaInitOne(s, i) [] drv = "mem" -> MemInitOne(s, i)
      [] drv = "mscan" -> MscanInitOne(s, i) [] drv = "peak_dng" -> DngInitOne(s, i)
      [] drv = "peak_pci" -> PeakAddChan(s, i) [] drv = "ixxat_pci" -> IxxatAddChan(s, i)
      [] drv = "serial" -> SerialInitOne(s, i)

ExitOne(s, i, busy) ==
    CASE drv = "core" -> CoreExitOne(s, i) [] drv = "virt" -> VirtExitOne(s, i, busy)
      [] drv = "isa" -> IsaExitOne(s, i, busy) [] drv = "mem" -> MemExitOne(s, i, busy)
      [] drv = "mscan" -> MscanExitOne(s, i, busy) [] OTHER -> DngExitOne(s, i, busy)
(* The exits of two devices touch nothing of each other's, so that their   *)
(* order does not matter.                                                  *)
ExitDevices(s, n, busy) ==
    LET after == [i \in 1..n |-> ExitOne(s, i, i \in busy)]
    IN  PnpExit([held |-> {h \in s.held : \A i \in 1..n : h \in after[i].held},
                 wrong |-> s.wrong \cup UNION {after[i].wrong : i \in 1..n}], pnp)

(* After a failure at device i, where 1 .. i-1 are remembered *)
Cleanup(s, i, at, busy) ==
    CASE drv = "peak_pci" -> PeakCleanup(s, i, 1 \in busy)
      [] drv = "ixxat_pci" -> IxxatCleanup(s, i, at, 1 \in busy)
      [] drv = "core" -> s
      [] OTHER -> ExitDevices(s, i - 1, busy)

-----------------------------------------------------------------------------
(* How many devices a load may set up; none is an error for some drivers. *)
Totals ==
    CASE drv = "core" -> {1} [] drv = "peak_dng" -> {0, 1}
      [] drv \in {"peak_pci", "ixxat_pci"} -> {1, 2} [] OTHER -> 0..MaxDev
Load(n) ==
    /\ pc = "out" /\ ghosts = {}
    /\ n \in Totals
    /\ \E o \in BoardInit(k) :
         /\ pnp' = IF <<0, "pnp">> \in o.k.held THEN 1 ELSE 0
         /\ IF ~o.ok THEN k' = o.k /\ UNCHANGED <<pc, total, next>>
            ELSE IF n > 0
            THEN k' = o.k /\ pc' = "loading" /\ total' = n /\ next' = 1
            ELSE /\ IF drv \in {"isa", "mem", "peak_dng"}
                    THEN k' = PnpExit(o.k, pnp') /\ pc' = "out"
                    ELSE k' = o.k /\ pc' = "in"
                 /\ total' = 0 /\ UNCHANGED next
    /\ UNCHANGED <<drv, running, ghosts>>

(* The kernel takes a positive result of an init function for success: the *)
(* 1 that rtcan_mscan_init makes of every error, and the major number.     *)
StaysLoaded(at) == drv = "mscan" \/ (drv = "serial" /\ at = "major")

(* The next turn of the init loop.  The PEAK PCI driver passes a null      *)
(* pointer for the device of a single channel and writes through it.       *)
InitOne ==
    /\ pc = "loading"
    /\ \E o \in DeviceInit(k, next), busy \in SUBSET running :
         IF o.ok
         THEN /\ busy = {} /\ k' = o.k
              /\ pc' = IF drv = "peak_pci" /\ total = 1 THEN "oops"
                       ELSE IF next = total THEN "in" ELSE "loading"
              /\ next' = next + 1
              /\ UNCHANGED <<running, ghosts, total>>
         ELSE /\ k' = Cleanup(o.k, next, o.at, busy)
              /\ pc' = IF StaysLoaded(o.at) THEN "spent" ELSE "out"
              /\ total' = IF StaysLoaded(o.at) THEN next - 1 ELSE 0
              /\ next' = 1 /\ running' = {} /\ ghosts' = busy
    /\ UNCHANGED <<drv, pnp>>

(* Users of the devices, through the mode ioctl *)
StartDevice(i) ==
    /\ pc \in {"loading", "in"} /\ drv \notin {"core", "serial"}
    /\ <<i, "table">> \in k.held /\ i \notin running
    /\ running' = running \cup {i}
    /\ UNCHANGED <<drv, pc, total, next, k, ghosts, pnp>>
StopDevice(i) ==
    /\ i \in running /\ running' = running \ {i}
    /\ UNCHANGED <<drv, pc, total, next, k, ghosts, pnp>>

(* The exit stops the controllers first; one that does not stop, or is     *)
(* started again before rtcan_dev_unregister looks, is busy.               *)
Exit ==
    /\ pc = "in"
    /\ \E busy \in SUBSET running :
         /\ k' = CASE drv = "peak_pci" -> PeakRemove(k, busy)
                   [] drv = "ixxat_pci" -> IxxatRemove(k, total, busy)
                   [] OTHER -> ExitDevices(k, total, busy)
         /\ ghosts' = busy
    /\ pc' = "out" /\ total' = 0 /\ next' = 1 /\ running' = {}
    /\ UNCHANGED <<drv, pnp>>

(* rmmod of a module that had cleaned up: its exit function finds the same *)
(* devices, and pnp_registered, once more.  Whether a freed device looks   *)
(* busy is as may be.  What a kernel does whose memory was freed twice is  *)
(* not followed further.                                                   *)
ExitAgain ==
    /\ pc = "spent"
    /\ \E busy \in SUBSET (1..total) : k' = ExitDevices(k, total, busy)
    /\ pc' = IF k'.wrong = k.wrong THEN "out" ELSE "twice"
    /\ total' = 0
    /\ UNCHANGED <<drv, next, running, ghosts, pnp>>

Next ==
    \/ \E n \in 0..(MaxDev + 1) : Load(n)
    \/ InitOne \/ Exit \/ ExitAgain
    \/ \E i \in 1..(MaxDev + 1) : StartDevice(i) \/ StopDevice(i)

Spec == Init /\ [][Next]_vars

-----------------------------------------------------------------------------
(* What the drivers are known to leave behind: the ISA driver its I/O      *)
(* region on unload, the MSCAN driver the enabled module, the dongle       *)
(* driver the port's interrupt when no chip is found, the PCI drivers the  *)
(* enabled PCI device when a probe fails, the IXXAT driver besides that    *)
(* the regions of a foreign board, the interrupt bit, and the mapping of a *)
(* single-channel board, the core its protocol, and the 16550A driver the  *)
(* character device.                                                       *)
KnownLeaks ==
    CASE drv = "core" -> {"proto"} [] drv = "isa" -> {"ports"} [] drv = "mscan" -> {"module"}
      [] drv = "peak_dng" -> {"parport"} [] drv = "peak_pci" -> {"pci"}
      [] drv = "ixxat_pci" -> {"pci", "regions", "intcsr", "base"}
      [] drv = "serial" -> {"chrdev"} [] OTHER -> {}

(* No device is set up. *)
Down == pc \in {"out", "spent", "twice"}

(* Whichever step of whichever device fails, whether or not the kernel     *)
(* sees the failure, and after every unload, the error exits and exit      *)
(* functions have given back what was taken: nothing is held but the known *)
(* leaks and the entries of devices that were busy.                        *)
NothingElseHeld ==
    Down => \A h \in k.held :
        h[2] \in KnownLeaks \/ (h[1] \in ghosts /\ h[2] \in {"table", "proc", "stale"})

(* What goes wrong in one go: a stale /proc directory, the second          *)
(* unmapping of an IXXAT board whose slave channel failed, and the reset   *)
(* of its slave channel.                                                   *)
KnownWrong(w) ==
    w[2] = "stale" \/ (drv = "ixxat_pci" /\ w \in {<<0, "base">>, <<2, "reset">>})

(* Until the exit function of the MSCAN or the 16550A driver runs a second *)
(* time, nothing is given back twice and no register, mapping or structure *)
(* is accessed after it was given back, by any error exit or exit function *)
(* of any driver, except as just named.                                    *)
GivenBackOnce ==
    \A w \in k.wrong : KnownWrong(w) \/ (pc = "twice" /\ drv \in {"mscan", "serial"})

(* An entry of rtcan_devices points to a structure that exists, also after *)
(* failed loads and unloads, unless the device was busy and its driver     *)
(* freed it in spite of -EBUSY.                                            *)
TableBacked ==
    \A i \in 1..(MaxDev + 1) :
        <<i, "table">> \in k.held => <<i, "dev">> \in k.held \/ i \in ghosts
=============================================================================
