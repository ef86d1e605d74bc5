---------------------------- MODULE RtdmServices ----------------------------
(***************************************************************************)
(* The semaphore (RtdmSem) and the registration of devices (RtdmDevice)    *)
(* for model checking.  The two have no variable in common: each is run by *)
(* itself, with the other at rest in its initial state, where none of its  *)
(* fair steps is enabled.                                                  *)
(***************************************************************************)
EXTENDS RtdmSem, RtdmDevice

VARIABLE part    \* which of the two is run
servicesVars == <<part, vars, deviceVars>>

ServicesInit == part \in {"sem", "device"} /\ Init /\ DeviceInit

(* A destroyed semaphore may come to rest with all its decrements lost, and *)
(* so may a device that is gone or was never registered.                    *)
SemOver == destroyed /\ UNCHANGED vars
DeviceOver == drv \in {"gone", "failed"} /\ UNCHANGED deviceVars

ServicesNext ==
    /\ \/ part = "sem" /\ (Next \/ SemOver) /\ UNCHANGED deviceVars
       \/ part = "device" /\ (DeviceNext \/ DeviceOver) /\ UNCHANGED vars
    /\ UNCHANGED part

ServicesSpec ==
    ServicesInit /\ [][ServicesNext]_servicesVars /\ Fairness /\ DeviceFairness
=============================================================================
