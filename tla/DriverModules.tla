---------------------------- MODULE DriverModules ----------------------------
(***************************************************************************)
(* The loading and unloading of the drivers for boards (BoardDrivers) and  *)
(* the rtdmtest driver with the mutex and task services it uses (RtdmTest) *)
(* for model checking.  The two have no variable in common: each is run by *)
(* itself, with the other at rest in an initial state.                     *)
(***************************************************************************)
EXTENDS BoardDrivers, RtdmTest

VARIABLE part    \* which of the two is run
modulesVars == <<part, vars, testVars>>

ModulesInit ==
    /\ part \in {"boards", "rtdmtest"}
    /\ Init /\ TestInit
    /\ part = "rtdmtest" => drv = CHOOSE d \in Drivers : TRUE

(* The modules are not loaded again after a crash, after a driver freed a  *)
(* busy device, or after it cleaned up twice.                              *)
BoardsOver == pc \in {"out", "oops", "twice"} /\ UNCHANGED vars

ModulesNext ==
    /\ \/ part = "boards" /\ (Next \/ BoardsOver) /\ UNCHANGED testVars
       \/ part = "rtdmtest" /\ TestNext /\ UNCHANGED vars
    /\ UNCHANGED part

ModulesSpec == ModulesInit /\ [][ModulesNext]_modulesVars /\ TestFairness
=============================================================================
