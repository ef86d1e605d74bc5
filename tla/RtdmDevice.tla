------------------------------ MODULE RtdmDevice ------------------------------
(***************************************************************************)
(* The life of an RTDM device: rtdm_dev_register and rtdm_dev_unregister   *)
(* (device.c), _rtdm_open / rtdm_socket_lx and the two release handlers    *)
(* (core.c), which count references in device->reserved.refcount.          *)
(*                                                                         *)
(* The caller of register and unregister is a driver module that owns the  *)
(* memory of the rtdm_device: it is given back when the driver takes the   *)
(* registration for failed (rtdmtest.c: the module is not loaded; 16550A.c: *)
(* kfree) and after unregistration.  The count is followed as if memory    *)
(* that was given back kept its contents.                                  *)
(*                                                                         *)
(* refcount is atomic; open does not take rtdm_dev_lock, so an open can    *)
(* fall between unregister's test of the count and its removal of the      *)
(* device.                                                                 *)
(***************************************************************************)
EXTENDS Integers, FiniteSets

CONSTANTS
    Files,       \* file objects (or sockets) opened on the device
    Driver,      \* the calling driver: "rtdmtest" or "16550A"
    MaxLeaks     \* bound: opens and closes that fail

ASSUME DeviceAssumption ==
    IsFiniteSet(Files) /\ MaxLeaks \in Nat /\ Driver \in {"rtdmtest", "16550A"}

VARIABLES
    registered,  \* the device can be found by open
    refcount,    \* device->reserved.refcount
    file,        \* state of each file object
    drv,         \* what the driver module is doing
    leaks        \* history: references that nobody will drop

deviceVars == <<registered, refcount, file, drv, leaks>>

(* "found": the kernel has looked up the device, _rtdm_open has not run;   *)
(* "opening": referenced, before the driver's open handler; "closing": in  *)
(* the driver's close handler.                                             *)
FileStates == {"none", "found", "opening", "open", "closing"}
(* "failed": the driver took the registration for failed and gave the      *)
(* memory back; "check": in rtdm_dev_unregister, before reading refcount;  *)
(* "remove": it read 0; "poll": in msleep; "gone": unregistered and given  *)
(* back.                                                                   *)
DriverStates == {"new", "up", "failed", "check", "remove", "poll", "gone"}

DeviceTypeOK ==
    /\ registered \in BOOLEAN /\ refcount \in Nat
    /\ file \in [Files -> FileStates] /\ drv \in DriverStates /\ leaks \in 0..MaxLeaks

(* Files that hold a reference. *)
Referenced == {f \in Files : file[f] \in {"opening", "open", "closing"}}

-----------------------------------------------------------------------------
(* The driver has allocated and filled its rtdm_device. *)
DeviceInit ==
    /\ registered = FALSE /\ refcount = 0
    /\ file = [f \in Files |-> "none"] /\ drv = "new" /\ leaks = 0

(* rtdm_dev_register: a named device gets a major number > 0 from          *)
(* register_chrdev, which is also the result; a failure is negative.  Only *)
(* rtdmtest tests for a negative result, 16550A for a result other than 0. *)
RegisterResults == {-1, 1}
TakenForFailure(err) == IF Driver = "16550A" THEN err # 0 ELSE err < 0
Register(err) ==
    /\ drv = "new"
    /\ registered' = (err > 0)
    /\ drv' = IF TakenForFailure(err) THEN "failed" ELSE "up"
    /\ UNCHANGED <<refcount, file, leaks>>

(* The kernel finds the device and is about to call _rtdm_open or          *)
(* rtdm_socket_lx.                                                         *)
Lookup(f) ==
    /\ file[f] = "none" /\ registered
    /\ file' = [file EXCEPT ![f] = "found"]
    /\ UNCHANGED <<registered, refcount, drv, leaks>>

(* rtdm_reference_device: the first thing _rtdm_open does. *)
Reference(f) ==
    /\ file[f] = "found"
    /\ refcount' = refcount + 1
    /\ file' = [file EXCEPT ![f] = "opening"]
    /\ UNCHANGED <<registered, drv, leaks>>

(* The context is allocated and the driver's open handler succeeds. *)
OpenSucceeds(f) ==
    /\ file[f] = "opening"
    /\ file' = [file EXCEPT ![f] = "open"]
    /\ UNCHANGED <<registered, refcount, drv, leaks>>

(* -ENOMEM or an error of the open handler: the file is not opened, and    *)
(* the reference stays.                                                    *)
OpenFails(f) ==
    /\ file[f] = "opening" /\ leaks < MaxLeaks
    /\ file' = [file EXCEPT ![f] = "none"]
    /\ leaks' = leaks + 1
    /\ UNCHANGED <<registered, refcount, drv>>

(* _rtdm_chrdev_release / _rtdm_sock_release *)
Release(f) ==
    /\ file[f] = "open"
    /\ file' = [file EXCEPT ![f] = "closing"]
    /\ UNCHANGED <<registered, refcount, drv, leaks>>
ReleaseEarly(f) ==       \* mutant: dereferences before the close handler as well
    /\ file[f] = "closing" /\ refcount > 0
    /\ refcount' = refcount - 1
    /\ UNCHANGED <<registered, drv, leaks, file>>
ReleaseKeeps(f) ==       \* mutant: no dereference
    /\ file[f] = "closing"
    /\ file' = [file EXCEPT ![f] = "none"]
    /\ UNCHANGED <<registered, refcount, drv, leaks>>
ReleaseDone(f) ==
    /\ file[f] = "closing"
    /\ refcount' = refcount - 1
    /\ file' = [file EXCEPT ![f] = "none"]
    /\ UNCHANGED <<registered, drv, leaks>>

(* The close handler fails: the release returns without dereferencing. *)
ReleaseFails(f) ==
    /\ file[f] = "closing" /\ leaks < MaxLeaks
    /\ file' = [file EXCEPT ![f] = "none"]
    /\ leaks' = leaks + 1
    /\ UNCHANGED <<registered, refcount, drv>>

-----------------------------------------------------------------------------
(* rtdm_dev_unregister, called by the module's exit function. *)
Unregister ==
    /\ drv = "up"
    /\ drv' = "check"
    /\ UNCHANGED <<registered, refcount, file, leaks>>

(* while (refcount > 0) msleep(poll_delay); *)
CheckOnce ==             \* mutant: polls once and goes on
    /\ drv \in {"check", "poll"}
    /\ drv' = IF drv = "check" /\ refcount > 0 THEN "poll" ELSE "remove"
    /\ UNCHANGED <<registered, refcount, file, leaks>>
Check ==
    /\ drv \in {"check", "poll"}
    /\ drv' = IF refcount > 0 THEN "poll" ELSE "remove"
    /\ UNCHANGED <<registered, refcount, file, leaks>>

(* With poll_delay = 0 a device in use stays registered: -EAGAIN. *)
StillInUse ==
    /\ drv = "check" /\ refcount > 0
    /\ drv' = "up"
    /\ UNCHANGED <<registered, refcount, file, leaks>>

(* unregister_chrdev, and the driver gives the device back. *)
Remove ==
    /\ drv = "remove"
    /\ registered' = FALSE /\ drv' = "gone"
    /\ UNCHANGED <<refcount, file, leaks>>

-----------------------------------------------------------------------------
DeviceNext ==
    \/ \E err \in RegisterResults : Register(err)
    \/ \E f \in Files :
          \/ Lookup(f) \/ Reference(f) \/ OpenSucceeds(f) \/ OpenFails(f)
          \/ Release(f) \/ ReleaseDone(f) \/ ReleaseFails(f)
    \/ Unregister \/ Check \/ StillInUse \/ Remove

DeviceSpec == DeviceInit /\ [][DeviceNext]_deviceVars

(* The module's exit function runs on.  Nothing is assumed of the users of *)
(* the device.                                                             *)
DeviceFairness == WF_deviceVars(Check) /\ WF_deviceVars(Remove)

-----------------------------------------------------------------------------
(* refcount counts the files in use and the references that failed opens   *)
(* and closes left behind, no more and no fewer.                           *)
RefExact == refcount = Cardinality(Referenced) + leaks

(* rtdm_dev_unregister decides to remove the device only in a state where  *)
(* no file uses it.                                                        *)
RemovesUnused == [][drv # "remove" /\ drv' = "remove" => Referenced = {}]_deviceVars

(* Without a leaked reference, a polling unregistration ends once the      *)
(* device is not opened any more; a single failed open keeps it polling.   *)
UnregisterEnds ==
    (<>[](leaks = 0 /\ \A f \in Files : file[f] = "none")) =>
        (drv = "poll" ~> drv = "gone")

(* What the message "still in use - waiting for release" promises: a       *)
(* removed device is not in use.                                           *)
UnusedWhenGone == drv = "gone" => Referenced = {}

(* "Data stored by RTDM inside a registered device": a device whose driver *)
(* took the registration for failed, and gave its memory back, is not      *)
(* found by an open and not used.                                          *)
UnusedWhenFailed == drv = "failed" => Referenced = {}
=============================================================================
