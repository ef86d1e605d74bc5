------------------------------ MODULE RtdmEvent ------------------------------
(***************************************************************************)
(* The event of the RTDM driver API: rtdm_event_init/destroy/pulse/wait/   *)
(* timedwait/signal/clear (include/rtdm/rtdm_driver_native.h) and the      *)
(* blocking halves _rtdm_event_wait and _rtdm_event_timedwait (drvlib.c).  *)
(*                                                                         *)
(* No lock protects the event: PENDING and DESTROY are bits changed by     *)
(* atomic instructions, the wait queue has the kernel's own lock.  Each    *)
(* access to a bit is a step, so that signals, wake-ups, timers and        *)
(* destroys fall between any two of them.                                  *)
(*                                                                         *)
(* Waiters are queued by prepare_to_wait, i.e. non-exclusively: wake_up    *)
(* and wake_up_all both wake the whole queue, whose order does not matter. *)
(***************************************************************************)
EXTENDS Naturals

CONSTANTS
    Tasks,          \* tasks that wait on the event
    Kinds,          \* the kinds of wait they make, see Modes
    Sequencers,     \* the tasks that use one toseq over several waits
    InitPending,    \* the `pending' argument of rtdm_event_init
    MaxSignallers   \* bound: contexts inside rtdm_event_signal at once

VARIABLES
    pending,     \* RTDM_EVENT_PENDING in event->state
    destroyed,   \* RTDM_EVENT_DESTROY in event->state
    destroying,  \* rtdm_event_destroy is between set_bit and wake_up_all
    signalling,  \* rtdm_event_signal calls between set_bit and wake_up
    queue,       \* tasks on event->wait
    at,          \* where each task is in its wait
    mode,        \* which wait it called
    blocked,     \* tasks in state TASK_INTERRUPTIBLE
    sig,         \* tasks with signal_pending()
    armed,       \* tasks the timer of whose toseq is running
    gone,        \* tasks whose timer fired: toseq->task = NULL
    ret          \* result a timed wait carries to its hrtimer_cancel

bitVars == <<pending, destroyed, destroying, signalling>>
waitVars == <<at, mode, ret>>
kernelVars == <<queue, blocked, sig, armed, gone>>
eventVars == <<bitVars, waitVars, kernelVars>>

(* "test": before the inline test_and_clear_bit; "prep": before            *)
(* prepare_to_wait; "early": before the DESTROY and signal tests; "claim": *)
(* before the second test_and_clear_bit; "sched": at or in schedule();     *)
(* "again": after schedule(); "clear": before the last clear_bit;          *)
(* "cancel": before hrtimer_cancel and finish_wait.                        *)
WaitPCs == {"idle", "test", "prep", "early", "claim", "sched", "again", "clear", "cancel"}

(* "wait": no timeout; "timed": timeout > 0, no toseq; "seq": timeout > 0  *)
(* with the caller's toseq; "try": timeout < 0.                            *)
Modes == {"wait", "timed", "seq", "try"}
Timed == {"timed", "seq"}

ASSUME EventAssumption ==
    /\ Kinds \subseteq Modes /\ Sequencers \subseteq Tasks
    /\ InitPending \in BOOLEAN /\ MaxSignallers \in Nat

Results == {"none", "ok", "EINTR", "ETIMEDOUT", "EWOULDBLOCK", "EIDRM"}

EventTypeOK ==
    /\ pending \in BOOLEAN /\ destroyed \in BOOLEAN /\ destroying \in BOOLEAN
    /\ signalling \in 0..MaxSignallers
    /\ queue \in SUBSET Tasks
    /\ at \in [Tasks -> WaitPCs] /\ mode \in [Tasks -> Modes] /\ ret \in [Tasks -> Results]
    /\ blocked \in SUBSET Tasks /\ sig \in SUBSET Tasks
    /\ armed \in SUBSET Tasks /\ gone \in SUBSET Tasks

(* A task that committed itself to sleep and that nothing has woken yet. *)
Asleep(t) == at[t] = "sched" /\ t \in blocked /\ t \notin sig

-----------------------------------------------------------------------------
(* Wait-queue, signal and timer services of the kernel, external.          *)

(* wake_up on a queue of autoremove entries: every waiter that is not      *)
(* running becomes runnable and is unlinked.                               *)
WakeOne ==               \* mutant: the waiters treated as exclusive
    \E S \in SUBSET queue :
        /\ \A t, u \in S : t = u
        /\ queue # {} => S # {}
        /\ blocked' = blocked \ S
        /\ queue' = queue \ S
Wake ==
    /\ blocked' = blocked \ queue
    /\ queue' = queue \ blocked

(* A signal for a task in a call: pending from now on, a sleeper wakes.    *)
KernelSignal(t) ==
    /\ at[t] # "idle" /\ t \notin sig
    /\ sig' = sig \cup {t}
    /\ blocked' = blocked \ {t}
    /\ UNCHANGED <<bitVars, waitVars, queue, armed, gone>>

(* hrtimer_wakeup: takes toseq->task away and wakes it.  A toseq whose     *)
(* task was taken by an earlier expiry wakes nobody.                       *)
Expire(t) ==
    /\ t \in armed
    /\ armed' = armed \ {t}
    /\ gone' = gone \cup {t}
    /\ blocked' = IF t \in gone THEN blocked ELSE blocked \ {t}
    /\ UNCHANGED <<bitVars, waitVars, queue, sig>>

-----------------------------------------------------------------------------
(* rtdm_event_init(event, InitPending) *)
EventInit ==
    /\ pending = InitPending /\ destroyed = FALSE /\ destroying = FALSE
    /\ signalling = 0 /\ queue = {}
    /\ at = [t \in Tasks |-> "idle"] /\ mode = [t \in Tasks |-> "wait"]
    /\ ret = [t \in Tasks |-> "none"]
    /\ blocked = {} /\ sig = {}
    /\ armed = {} /\ gone = {}

(* hrtimer_cancel, finish_wait and the return of r to the caller.  Only a  *)
(* successful caller may go on with its toseq (rtdmtest_ioctl,             *)
(* rt_16550_read); otherwise the arguments are forgotten.                  *)
GoesOn(t, r) == mode[t] = "seq" /\ r = "ok"
Return(t, r) ==
    /\ at' = [at EXCEPT ![t] = "idle"]
    /\ ret' = [ret EXCEPT ![t] = "none"]
    /\ queue' = queue \ {t}
    /\ blocked' = blocked \ {t}
    /\ sig' = sig \ {t}
    /\ armed' = armed \ {t}
    /\ gone' = IF GoesOn(t, r) THEN gone ELSE gone \ {t}
    /\ mode' = [mode EXCEPT ![t] = IF GoesOn(t, r) THEN "seq" ELSE "wait"]

(* rtdm_event_wait / rtdm_event_timedwait: the inline DESTROY test.  A     *)
(* toseq is either initialised for this wait or used again (`keep').       *)
Call(t, m, keep) ==
    /\ at[t] = "idle"
    /\ m = "seq" => t \in Sequencers
    /\ keep => m = "seq" /\ mode[t] = "seq"
    /\ \/ destroyed /\ Return(t, "EIDRM")
       \/ /\ ~destroyed
          /\ at' = [at EXCEPT ![t] = "test"]
          /\ mode' = [mode EXCEPT ![t] = m]
          /\ gone' = IF keep THEN gone ELSE gone \ {t}
          /\ UNCHANGED <<ret, queue, blocked, sig, armed>>
    /\ UNCHANGED bitVars

(* The inline test_and_clear_bit; a non-blocking call ends here.           *)
Test(t) ==
    /\ at[t] = "test"
    /\ \/ pending /\ pending' = FALSE /\ Return(t, "ok")
       \/ ~pending /\ mode[t] = "try" /\ Return(t, "EWOULDBLOCK") /\ UNCHANGED pending
       \/ /\ ~pending /\ mode[t] # "try"
          /\ at' = [at EXCEPT ![t] = "prep"]
          /\ UNCHANGED <<pending, mode, ret, kernelVars>>
    /\ UNCHANGED <<destroyed, destroying, signalling>>

(* prepare_to_wait(TASK_INTERRUPTIBLE) *)
PrepareLate(t) ==        \* mutant: the task is queued only when it sleeps
    /\ at[t] = "prep"
    /\ at' = [at EXCEPT ![t] = "early"]
    /\ blocked' = blocked \cup {t}
    /\ UNCHANGED <<bitVars, mode, ret, queue, sig, armed, gone>>
Prepare(t) ==
    /\ at[t] = "prep"
    /\ at' = [at EXCEPT ![t] = "early"]
    /\ queue' = queue \cup {t}
    /\ blocked' = blocked \cup {t}
    /\ UNCHANGED <<bitVars, mode, ret, sig, armed, gone>>

(* The DESTROY and signal tests before sleeping.  _rtdm_event_timedwait    *)
(* has no `else' before its test_and_clear_bit: the result found here is   *)
(* overwritten and the call goes on.                                       *)
EarlySkipped(t) ==       \* mutant: the untimed wait loses the `else' too
    /\ at[t] = "early"
    /\ at' = [at EXCEPT ![t] = "claim"] /\ UNCHANGED <<mode, ret, kernelVars>>
    /\ UNCHANGED bitVars
Early(t) ==
    /\ at[t] = "early"
    /\ \/ mode[t] = "wait" /\ destroyed /\ Return(t, "EIDRM")
       \/ mode[t] = "wait" /\ ~destroyed /\ t \in sig /\ Return(t, "EINTR")
       \/ /\ mode[t] = "wait" => ~destroyed /\ t \notin sig
          /\ at' = [at EXCEPT ![t] = "claim"]
          /\ UNCHANGED <<mode, ret, kernelVars>>
    /\ UNCHANGED bitVars

(* The second test_and_clear_bit; if it fails the timer is started and the *)
(* task goes to sleep.                                                     *)
ClaimUnarmed(t) ==       \* mutant: hrtimer_start left out
    /\ at[t] = "claim"
    /\ \/ pending /\ pending' = FALSE /\ Return(t, "ok")
       \/ /\ ~pending
          /\ at' = [at EXCEPT ![t] = "sched"]
          /\ UNCHANGED <<pending, mode, ret, kernelVars>>
    /\ UNCHANGED <<destroyed, destroying, signalling>>
Claim(t) ==
    /\ at[t] = "claim"
    /\ \/ pending /\ pending' = FALSE /\ Return(t, "ok")
       \/ /\ ~pending
          /\ at' = [at EXCEPT ![t] = "sched"]
          /\ armed' = IF mode[t] \in Timed THEN armed \cup {t} ELSE armed
          /\ UNCHANGED <<pending, mode, ret, queue, blocked, sig, gone>>
    /\ UNCHANGED <<destroyed, destroying, signalling>>

(* schedule() returns once something made the task runnable. *)
Schedule(t) ==
    /\ at[t] = "sched"
    /\ t \in sig \/ t \notin blocked
    /\ at' = [at EXCEPT ![t] = "again"]
    /\ blocked' = blocked \ {t}
    /\ UNCHANGED <<bitVars, mode, ret, queue, sig, armed, gone>>

(* The way out of a sleep: a timed wait still has its timer to cancel. *)
Leave(t, r) ==
    IF mode[t] \in Timed
    THEN /\ at' = [at EXCEPT ![t] = "cancel"]
         /\ ret' = [ret EXCEPT ![t] = r]
         /\ UNCHANGED <<mode, kernelVars>>
    ELSE Return(t, r)

(* "Somebody woke us up, check again" *)
CheckAgain(t) ==
    /\ at[t] = "again"
    /\ LET timeout == mode[t] \in Timed /\ t \in gone IN
       \/ destroyed /\ Leave(t, "EIDRM")
       \/ ~destroyed /\ timeout /\ Leave(t, "ETIMEDOUT")
       \/ ~destroyed /\ ~timeout /\ t \in sig /\ Leave(t, "EINTR")
       \/ /\ ~destroyed /\ ~timeout /\ t \notin sig
          /\ at' = [at EXCEPT ![t] = "clear"]
          /\ UNCHANGED <<mode, ret, kernelVars>>
    /\ UNCHANGED bitVars

(* Whatever woke the task, PENDING is cleared and the wait succeeds. *)
ClearAndLeave(t) ==
    /\ at[t] = "clear"
    /\ pending' = FALSE
    /\ Leave(t, "ok")
    /\ UNCHANGED <<destroyed, destroying, signalling>>

(* hrtimer_cancel; finish_wait.  Until here the timer may still fire. *)
Cancel(t) ==
    /\ at[t] = "cancel"
    /\ Return(t, ret[t])
    /\ UNCHANGED bitVars

-----------------------------------------------------------------------------
(* rtdm_event_signal: set_bit, then wake_up. *)
EventSignal ==
    /\ signalling < MaxSignallers
    /\ pending' = TRUE /\ signalling' = signalling + 1
    /\ UNCHANGED <<destroyed, destroying, waitVars, kernelVars>>
SignalWake ==
    /\ signalling > 0
    /\ signalling' = signalling - 1
    /\ Wake
    /\ UNCHANGED <<pending, destroyed, destroying, waitVars, sig, armed, gone>>

(* rtdm_event_pulse *)
Pulse ==
    /\ Wake
    /\ UNCHANGED <<bitVars, waitVars, sig, armed, gone>>

(* rtdm_event_clear *)
EventClear ==
    /\ pending' = FALSE
    /\ UNCHANGED <<destroyed, destroying, signalling, waitVars, kernelVars>>

(* rtdm_event_destroy: set_bit, then wake_up_all. *)
EventDestroy ==
    /\ ~destroyed
    /\ destroyed' = TRUE /\ destroying' = TRUE
    /\ UNCHANGED <<pending, signalling, waitVars, kernelVars>>
DestroyNoWake ==         \* mutant: wake_up_all left out
    /\ destroying
    /\ destroying' = FALSE
    /\ UNCHANGED <<pending, destroyed, signalling, waitVars, kernelVars>>
DestroyWake ==
    /\ destroying
    /\ destroying' = FALSE
    /\ Wake
    /\ UNCHANGED <<pending, destroyed, signalling, waitVars, sig, armed, gone>>

-----------------------------------------------------------------------------
(* The steps of a wait that has begun. *)
Run(t) ==
    \/ Test(t) \/ Prepare(t) \/ Early(t) \/ Claim(t) \/ Schedule(t)
    \/ CheckAgain(t) \/ ClearAndLeave(t) \/ Cancel(t)

EventNext ==
    \/ \E t \in Tasks :
          \/ \E m \in Kinds, keep \in BOOLEAN : Call(t, m, keep)
          \/ Run(t) \/ KernelSignal(t) \/ Expire(t)
    \/ EventSignal \/ SignalWake \/ Pulse \/ EventClear \/ EventDestroy \/ DestroyWake

EventSpec == EventInit /\ [][EventNext]_eventVars

(* A runnable task runs, a call of signal or destroy is finished, and a    *)
(* started timer fires.                                                    *)
EventFairness ==
    /\ \A t \in Tasks : WF_eventVars(Run(t)) /\ WF_eventVars(Expire(t))
    /\ WF_eventVars(SignalWake) /\ WF_eventVars(DestroyWake)
EventFairSpec == EventSpec /\ EventFairness

-----------------------------------------------------------------------------
(* A signal is never lost: while PENDING is set, a task can be asleep only *)
(* if the wake-up of some rtdm_event_signal is still to come.              *)
NoLostSignal ==
    pending => \A t \in Tasks : Asleep(t) => signalling > 0

(* Once rtdm_event_destroy is done no untimed wait sleeps on the event.    *)
(* (A timed one may: see Early.)                                           *)
DestroyHeard ==
    destroyed /\ ~destroying => \A t \in Tasks : Asleep(t) => mode[t] \in Timed

(* A timed wait sleeps only while its timer runs, unless it uses a toseq   *)
(* whose task was taken away after the ETIMEDOUT test of an earlier wait:  *)
(* that one sleeps without a timeout.                                      *)
TimerGuardsSleep ==
    \A t \in Tasks : Asleep(t) /\ mode[t] \in Timed =>
        \/ t \in armed /\ t \notin gone
        \/ mode[t] = "seq" /\ t \in gone

(* What keeps the three properties: a task that is going to sleep is on    *)
(* the queue, so every wake-up reaches it, and outside a timed wait no     *)
(* timer runs.                                                             *)
Queued ==
    \A t \in Tasks : t \in blocked => t \in queue /\ at[t] \in {"early", "claim", "sched"}
FreshToseq ==
    \A t \in Tasks :
        /\ mode[t] = "try" => at[t] = "test"
        /\ t \in gone \cup armed => mode[t] \in Timed
        /\ t \in armed => at[t] \in {"sched", "again", "clear", "cancel"}
        /\ t \in gone /\ mode[t] = "timed" => at[t] \in {"sched", "again", "clear", "cancel"}
        /\ at[t] = "sched" /\ mode[t] \in Timed =>
              t \in armed \/ (t \in gone /\ (t \in blocked => mode[t] = "seq"))
        /\ at[t] = "sched" /\ mode[t] = "timed" /\ t \in blocked => t \notin gone
DestroyOrder ==
    /\ destroying => destroyed
    /\ destroyed /\ ~destroying =>
          \A t \in Tasks : mode[t] = "wait" /\ at[t] \in {"claim", "sched"} => t \notin blocked

(* rtdm_event_signal releases every task that sleeps when it sets PENDING, *)
(* not only one of them.                                                   *)
SignalReleases ==
    \A t \in Tasks : (at[t] = "sched" /\ signalling > 0) ~> at[t] = "idle"

(* A wait with its own timeout comes back. *)
TimedWaitReturns ==
    \A t \in Tasks : (at[t] # "idle" /\ mode[t] = "timed") ~> at[t] = "idle"

(* rtdm_event_destroy releases every waiter that brings no toseq of its    *)
(* own, the timed ones at the latest when their timer fires.               *)
DestroyReleasesAll ==
    \A t \in Tasks :
        (destroyed /\ at[t] # "idle" /\ mode[t] \in {"wait", "timed"}) ~> at[t] = "idle"
=============================================================================
