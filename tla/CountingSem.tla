----------------------------- MODULE CountingSem -----------------------------
(***************************************************************************)
(* What a semaphore of the driver API promises its callers, without count  *)
(* tricks, wait queue or lock: a number of permits, calls in progress, and *)
(* which result a call may end with.  RtdmSem implements it.               *)
(***************************************************************************)
EXTENDS Integers

CONSTANTS Tasks, InitVal

VARIABLES
    permits,  \* permits available
    dead,     \* the semaphore was destroyed
    call,     \* "none" or the mode of the down in progress
    ret       \* result of the last down

vars == <<permits, dead, call, ret>>

Init ==
    /\ permits = InitVal /\ dead = FALSE
    /\ call = [t \in Tasks |-> "none"]
    /\ ret = [t \in Tasks |-> "none"]

(* A down that has to wait for its answer. *)
Begin(t, m) ==
    /\ call[t] = "none"
    /\ call' = [call EXCEPT ![t] = m]
    /\ ret' = [ret EXCEPT ![t] = "none"]
    /\ UNCHANGED <<permits, dead>>

(* A permit is handed over, to a waiting call or at once to a new one. *)
Grant(t) ==
    /\ permits > 0
    /\ permits' = permits - 1
    /\ call' = [call EXCEPT ![t] = "none"]
    /\ ret' = [ret EXCEPT ![t] = "ok"]
    /\ UNCHANGED dead

(* Which failures a call may report: each needs its reason, a trylock      *)
(* never blocks long enough to be interrupted or to time out, and a dead   *)
(* semaphore has one answer for those that wait.                           *)
MayFail(t, r) ==
    \/ r = "EIDRM" /\ dead
    \/ r = "EINTR" /\ call[t] \in {"wait", "timed"} /\ ~dead
    \/ r = "ETIMEDOUT" /\ call[t] = "timed" /\ ~dead
    \/ r = "EWOULDBLOCK" /\ call[t] = "try"

Fail(t) ==
    /\ call[t] # "none"
    /\ \E r \in {"EIDRM", "EINTR", "ETIMEDOUT", "EWOULDBLOCK"} :
          MayFail(t, r) /\ ret' = [ret EXCEPT ![t] = r]
    /\ call' = [call EXCEPT ![t] = "none"]
    /\ UNCHANGED <<permits, dead>>

Release == permits' = permits + 1 /\ UNCHANGED <<dead, call, ret>>

Kill == dead' = TRUE /\ UNCHANGED <<permits, call, ret>>

Next ==
    \/ \E t \in Tasks : Grant(t) \/ Fail(t)
    \/ \E t \in Tasks, m \in {"wait", "timed", "try"} : Begin(t, m)
    \/ Release \/ Kill

Spec == Init /\ [][Next]_vars
=============================================================================
