------------------------------- MODULE RtdmSem -------------------------------
(***************************************************************************)
(* The semaphore of the RTDM driver API: rtdm_sem_init/destroy/down/       *)
(* timeddown/up (include/rtdm/rtdm_driver_native.h) and their contended    *)
(* halves _rtdm_sem_down and _rtdm_sem_timeddown (drvlib.c).               *)
(*                                                                         *)
(* `count' is an atomic_t changed without the lock; `sleepers' and the     *)
(* wait queue are changed under sem->wait.lock.  A section under that lock *)
(* touches `count' once, by one atomic instruction, so it is one action.   *)
(* Everything outside the lock (the decrement, the DESTROY test, the call  *)
(* of schedule(), the wake-up of an up) is a step of its own.              *)
(*                                                                         *)
(* add_wait_queue_exclusive is called with sem->wait.lock already held     *)
(* (the source marks it "XXX?"); it is modelled by its effect, a tail      *)
(* insertion, which is what a build where the nested lock is a no-op does. *)
(***************************************************************************)
EXTENDS Integers, Sequences, FiniteSets

CONSTANTS
    Tasks,       \* tasks that call down / timeddown
    InitVal,     \* the value given to rtdm_sem_init
    MaxAvail,    \* bound: ups stop once this many permits are available
    MaxUppers,   \* bound: contexts inside rtdm_sem_up at the same time
    MaxLeaked    \* bound: calls that fail on a destroyed semaphore

ASSUME SemAssumption ==
    /\ IsFiniteSet(Tasks)
    /\ InitVal \in Nat /\ MaxAvail \in Nat /\ MaxUppers \in Nat /\ MaxLeaked \in Nat

VARIABLES
    count,       \* sem->count
    sleepers,    \* sem->sleepers
    queue,       \* sem->wait, the tasks in queue order
    destroyed,   \* RTDM_EVENT_DESTROY in sem->state
    destroying,  \* rtdm_sem_destroy is between set_bit and wake_up_all
    waking,      \* rtdm_sem_up calls between atomic_inc_return and wake_up
    pc,          \* where each task is in its down
    mode,        \* "wait" (no timeout), "timed" (timeout > 0), "try" (timeout < 0)
    sig,         \* signal_pending(task)
    expired,     \* the task's timer fired: toseq->task = NULL
    ret,         \* result of the last down of each task
    avail,       \* history: permits put in (init and ups) minus permits taken
    leaked       \* history: decrements never undone (the early -EIDRM return)

semVars == <<count, sleepers, queue, destroyed, destroying, waking, avail, leaked>>
taskVars == <<pc, mode, sig, expired, ret>>
vars == <<semVars, taskVars>>

(* "slow": decremented, before the DESTROY test; "enter": before taking the *)
(* lock; "sched": queued, lock dropped, before schedule(); "asleep": inside *)
(* schedule(); "woken": runnable again, before re-taking the lock.          *)
PCs == {"idle", "slow", "enter", "sched", "asleep", "woken"}
Modes == {"wait", "timed", "try"}
Results == {"none", "ok", "EINTR", "ETIMEDOUT", "EWOULDBLOCK", "EIDRM"}

(* Tasks whose decrement is in count but not yet in sleepers. *)
Pending == {t \in Tasks : pc[t] \in {"slow", "enter"}}
(* Tasks that may sleep: on the wait queue. *)
Waiters == {t \in Tasks : pc[t] \in {"sched", "asleep", "woken"}}

TypeOK ==
    /\ count \in Int /\ sleepers \in Nat
    /\ queue \in Seq(Tasks)
    /\ destroyed \in BOOLEAN /\ destroying \in BOOLEAN
    /\ waking \in Nat
    /\ pc \in [Tasks -> PCs] /\ mode \in [Tasks -> Modes]
    /\ sig \in [Tasks -> BOOLEAN] /\ expired \in [Tasks -> BOOLEAN]
    /\ ret \in [Tasks -> Results]
    /\ avail \in Int /\ leaked \in Nat

-----------------------------------------------------------------------------
(* Wait-queue services of the kernel, external to the repository.          *)

(* wake_up on exclusive waiters: walk the queue from the head; a waiter    *)
(* that has not slept yet is only kept from sleeping, the first one that   *)
(* really sleeps is woken and ends the walk, runnable ones are skipped.    *)
WakeUp(q, p) ==
    [t \in Tasks |->
        IF /\ p[t] \in {"sched", "asleep"}
           /\ \E i \in 1..Len(q) :
                 q[i] = t /\ \A j \in 1..(i - 1) : p[q[j]] # "asleep"
        THEN "woken" ELSE p[t]]

(* wake_up_all: every queued task becomes runnable. *)
WakeUpAll(q, p) ==
    [t \in Tasks |->
        IF p[t] \in {"sched", "asleep"} /\ \E i \in 1..Len(q) : q[i] = t
        THEN "woken" ELSE p[t]]

(* remove_wait_queue: a task is queued at most once. *)
Dequeue(q, t) ==
    LET k == CHOOSE i \in 1..Len(q) : q[i] = t
    IN  SubSeq(q, 1, k - 1) \o SubSeq(q, k + 1, Len(q))

-----------------------------------------------------------------------------
(* rtdm_sem_init(sem, InitVal) *)
Init ==
    /\ count = InitVal /\ sleepers = 0 /\ queue = <<>>
    /\ destroyed = FALSE /\ destroying = FALSE /\ waking = 0
    /\ pc = [t \in Tasks |-> "idle"] /\ mode = [t \in Tasks |-> "wait"]
    /\ sig = [t \in Tasks |-> FALSE] /\ expired = [t \in Tasks |-> FALSE]
    /\ ret = [t \in Tasks |-> "none"]
    /\ avail = InitVal /\ leaked = 0

(* The call returns r; a pending signal is delivered on the way out, the   *)
(* timer is cancelled, the argument is forgotten.                          *)
Return(t, r, p) ==
    /\ pc' = [p EXCEPT ![t] = "idle"]
    /\ ret' = [ret EXCEPT ![t] = r]
    /\ sig' = [sig EXCEPT ![t] = FALSE]
    /\ expired' = [expired EXCEPT ![t] = FALSE]
    /\ mode' = [mode EXCEPT ![t] = "wait"]

(* rtdm_sem_down / rtdm_sem_timeddown: the decrement decides.  A permit is *)
(* taken without looking at DESTROY; below zero the call goes on in the    *)
(* contended half.                                                         *)
DownFastOffByOne(t) ==   \* mutant: count = 0 still admits
    /\ pc[t] = "idle" /\ leaked < MaxLeaked
    /\ count >= 0
    /\ count' = count - 1
    /\ ret' = [ret EXCEPT ![t] = "ok"]
    /\ avail' = avail - 1
    /\ UNCHANGED <<sleepers, queue, destroyed, destroying, waking, leaked,
                   pc, mode, sig, expired>>
DownFast(t) ==
    /\ pc[t] = "idle" /\ leaked < MaxLeaked
    /\ count - 1 >= 0
    /\ count' = count - 1
    /\ ret' = [ret EXCEPT ![t] = "ok"]
    /\ avail' = avail - 1
    /\ UNCHANGED <<sleepers, queue, destroyed, destroying, waking, leaked,
                   pc, mode, sig, expired>>

DownSlow(t, m) ==
    /\ pc[t] = "idle" /\ leaked < MaxLeaked
    /\ count - 1 < 0
    /\ count' = count - 1
    /\ pc' = [pc EXCEPT ![t] = "slow"]
    /\ mode' = [mode EXCEPT ![t] = m]
    /\ ret' = [ret EXCEPT ![t] = "none"]
    /\ UNCHANGED <<sleepers, queue, destroyed, destroying, waking, avail, leaked,
                   sig, expired>>

(* First lines of the contended half: DESTROY returns -EIDRM with the      *)
(* decrement left in count; otherwise a timeout starts its timer.          *)
CheckDestroy(t) ==
    /\ pc[t] = "slow"
    /\ \/ /\ destroyed
          /\ Return(t, "EIDRM", pc)
          /\ leaked' = leaked + 1
       \/ /\ ~destroyed
          /\ pc' = [pc EXCEPT ![t] = "enter"]
          /\ UNCHANGED <<mode, sig, expired, ret, leaked>>
    /\ UNCHANGED <<count, sleepers, queue, destroyed, destroying, waking, avail>>

(* timeout < 0: give back the own decrement and those of the sleepers. *)
TryFailDecrement(t) ==   \* mutant: sleepers is counted down, not reset
    /\ pc[t] = "enter" /\ mode[t] = "try"
    /\ sleepers' = sleepers - 1
    /\ count' = count + sleepers + 1
    /\ Return(t, "EWOULDBLOCK", pc)
    /\ UNCHANGED <<queue, destroyed, destroying, waking, avail, leaked>>
TryFail(t) ==
    /\ pc[t] = "enter" /\ mode[t] = "try"
    /\ sleepers' = 0
    /\ count' = count + sleepers + 1
    /\ Return(t, "EWOULDBLOCK",
              IF count + sleepers + 1 >= 0 THEN WakeUp(queue, pc) ELSE pc)
    /\ UNCHANGED <<queue, destroyed, destroying, waking, avail, leaked>>

(* Leaving the loop: off the queue, pass a wake-up on, unlock. *)
LeaveSilently(t, r, q) ==   \* mutant: the wake-up is not passed on
    queue' = Dequeue(q, t) /\ Return(t, r, pc)
LeaveLinked(t, r, q) ==     \* mutant: the queue entry is left behind
    queue' = q /\ Return(t, r, WakeUp(q, pc))
Leave(t, r, q) ==
    LET rest == Dequeue(q, t)
    IN  queue' = rest /\ Return(t, r, WakeUp(rest, pc))

(* One turn of the loop under the lock, s being the value of sleepers and  *)
(* q the queue with the caller on it: destroyed, given up, permit taken or *)
(* back to sleep, tested in this order.                                    *)
GaveUpOnSignal(t) == sig[t]   \* mutant: the expired timer is not looked at
GaveUp(t) == sig[t] \/ (mode[t] = "timed" /\ expired[t])

TurnRemoved(t, s, q) ==
    /\ destroyed
    /\ sleepers' = s
    /\ Leave(t, "EIDRM", q)
    /\ UNCHANGED <<count, avail>>

TurnGiveUpUncorrected(t, s, q) ==   \* mutant: count is not corrected
    /\ ~destroyed /\ GaveUp(t)
    /\ sleepers' = 0
    /\ Leave(t, IF sig[t] THEN "EINTR" ELSE "ETIMEDOUT", q)
    /\ UNCHANGED <<count, avail>>
TurnGiveUp(t, s, q) ==
    /\ ~destroyed /\ GaveUp(t)
    /\ sleepers' = 0
    /\ count' = count + s
    /\ Leave(t, IF sig[t] THEN "EINTR" ELSE "ETIMEDOUT", q)
    /\ UNCHANGED avail

TurnTakeOffByOne(t, s, q) ==   \* mutant: the "-1" for the caller is missing
    /\ ~destroyed /\ ~GaveUp(t)
    /\ count + s >= 0
    /\ count' = count + s
    /\ sleepers' = 0
    /\ avail' = avail - 1
    /\ Leave(t, "ok", q)
TurnTake(t, s, q) ==
    /\ ~destroyed /\ ~GaveUp(t)
    /\ count + s - 1 >= 0
    /\ count' = count + s - 1
    /\ sleepers' = 0
    /\ avail' = avail - 1
    /\ Leave(t, "ok", q)

TurnSleep(t, s, q) ==
    /\ ~destroyed /\ ~GaveUp(t)
    /\ count + s - 1 < 0
    /\ count' = count + s - 1
    /\ sleepers' = 1
    /\ queue' = q
    /\ pc' = [pc EXCEPT ![t] = "sched"]
    /\ UNCHANGED <<avail, mode, sig, expired, ret>>

Turn(t, s, q) ==
    \/ TurnRemoved(t, s, q)
    \/ TurnGiveUp(t, s, q)
    \/ TurnTake(t, s, q)
    \/ TurnSleep(t, s, q)

(* Lock, queue up, sleepers++, first turn of the loop. *)
Enter(t) ==
    /\ pc[t] = "enter" /\ mode[t] # "try"
    /\ Turn(t, sleepers + 1, Append(queue, t))
    /\ UNCHANGED <<destroyed, destroying, waking, leaked>>

(* Back from schedule(): lock again, next turn of the loop. *)
Retry(t) ==
    /\ pc[t] = "woken"
    /\ Turn(t, sleepers, queue)
    /\ UNCHANGED <<destroyed, destroying, waking, leaked>>

(* schedule() in TASK_INTERRUPTIBLE: a pending signal returns at once. *)
Schedule(t) ==
    /\ pc[t] = "sched"
    /\ pc' = [pc EXCEPT ![t] = IF sig[t] THEN "woken" ELSE "asleep"]
    /\ UNCHANGED <<semVars, mode, sig, expired, ret>>

(* rtdm_sem_up from a task or an interrupt handler: increment, then, in a  *)
(* second step, wake_up if there were waiters.                             *)
Up ==
    /\ avail < MaxAvail /\ waking < MaxUppers
    /\ count' = count + 1
    /\ avail' = avail + 1
    /\ waking' = IF count + 1 <= 0 THEN waking + 1 ELSE waking
    /\ UNCHANGED <<sleepers, queue, destroyed, destroying, leaked, taskVars>>

UpWake ==
    /\ waking > 0
    /\ waking' = waking - 1
    /\ pc' = WakeUp(queue, pc)
    /\ UNCHANGED <<count, sleepers, queue, destroyed, destroying, avail, leaked,
                   mode, sig, expired, ret>>

(* rtdm_sem_destroy: set the bit, then wake_up_all. *)
Destroy ==
    /\ ~destroyed
    /\ destroyed' = TRUE /\ destroying' = TRUE
    /\ UNCHANGED <<count, sleepers, queue, waking, avail, leaked, taskVars>>

DestroyNoWake ==   \* mutant: nobody is woken
    /\ destroying
    /\ destroying' = FALSE
    /\ UNCHANGED <<count, sleepers, queue, destroyed, waking, avail, leaked, taskVars>>
DestroyWake ==
    /\ destroying
    /\ destroying' = FALSE
    /\ pc' = WakeUpAll(queue, pc)
    /\ UNCHANGED <<count, sleepers, queue, destroyed, waking, avail, leaked,
                   mode, sig, expired, ret>>

(* A signal sent to a task in the call, external; it ends an interruptible *)
(* sleep.                                                                  *)
Signal(t) ==
    /\ pc[t] # "idle" /\ ~sig[t]
    /\ sig' = [sig EXCEPT ![t] = TRUE]
    /\ pc' = [pc EXCEPT ![t] = IF @ \in {"sched", "asleep"} THEN "woken" ELSE @]
    /\ UNCHANGED <<semVars, mode, expired, ret>>

(* The timer started by a timed call fires: toseq->task = NULL and wake.   *)
Expire(t) ==
    /\ mode[t] = "timed" /\ ~expired[t]
    /\ pc[t] \in {"enter", "sched", "asleep", "woken"}
    /\ expired' = [expired EXCEPT ![t] = TRUE]
    /\ pc' = [pc EXCEPT ![t] = IF @ \in {"sched", "asleep"} THEN "woken" ELSE @]
    /\ UNCHANGED <<semVars, mode, sig, ret>>

(* The steps a task takes by itself once it called down. *)
Run(t) == CheckDestroy(t) \/ TryFail(t) \/ Enter(t) \/ Retry(t) \/ Schedule(t)

Next ==
    \/ \E t \in Tasks, m \in Modes : DownSlow(t, m)
    \/ \E t \in Tasks : DownFast(t) \/ Run(t) \/ Signal(t) \/ Expire(t)
    \/ Up \/ UpWake \/ Destroy \/ DestroyWake

Spec == Init /\ [][Next]_vars

(* A runnable task runs, a started wake-up is finished, a timer fires.  No *)
(* fairness for calls, ups, signals and destroy: nobody has to issue them. *)
Fairness ==
    /\ \A t \in Tasks : WF_vars(Run(t)) /\ WF_vars(Expire(t))
    /\ WF_vars(UpWake) /\ WF_vars(DestroyWake)

-----------------------------------------------------------------------------
(* Every permit is accounted for: what count shows, plus the decrements    *)
(* parked in sleepers, plus those of tasks on their way to the lock, plus  *)
(* those lost to -EIDRM, is exactly what was put in minus what was taken.  *)
(* -EINTR, -ETIMEDOUT and -EWOULDBLOCK thus neither lose nor make permits. *)
Conservation == count + sleepers + Cardinality(Pending) + leaked = avail

(* down never succeeds more often than permits were put in, whatever the   *)
(* interleaving of fast path, slow path, trylock, timeout and signals.     *)
NoOverAdmission == avail >= 0

(* The wait queue holds exactly the tasks inside the loop of the slow      *)
(* path, each once: no exit leaves its stack-allocated entry linked.       *)
QueueExact ==
    /\ \A t \in Tasks : t \in Waiters <=> \E i \in 1..Len(queue) : queue[i] = t
    /\ \A i, j \in 1..Len(queue) : queue[i] = queue[j] => i = j

(* No lost wake-up: while permits are available and a task sleeps on the   *)
(* live semaphore, somebody is still on the way who will look at the count *)
(* again under the lock or finish a wake_up.                               *)
NoLostWakeup ==
    (avail > 0 /\ ~destroyed /\ \E t \in Tasks : pc[t] = "asleep")
        => waking > 0 \/ Pending # {} \/ \E t \in Tasks : pc[t] = "woken"

(* What makes the three invariants above inductive: a call on the queue is *)
(* no trylock, and while the semaphore lives sleepers stands for at most   *)
(* one task, no decrement is lost, and resting waiters that nobody is      *)
(* about to wake keep count negative, so the next up sees them.            *)
Resting == {t \in Tasks : pc[t] \in {"sched", "asleep"}}
Woken == {t \in Tasks : pc[t] = "woken"}
LiveInv ==
    /\ \A t \in Waiters : mode[t] # "try"
    /\ ~destroyed =>
          /\ sleepers <= 1 /\ leaked = 0
          /\ (Resting # {} /\ Woken = {} /\ waking = 0) => count < 0

(* After rtdm_sem_destroy the wait queue drains and stays empty. *)
DestroyReleasesAll == destroyed ~> [](queue = <<>>)

(* A down with a timeout returns, whatever the other tasks do. *)
TimedDownReturns ==
    \A t \in Tasks : (pc[t] # "idle" /\ mode[t] = "timed") ~> (pc[t] = "idle")

(* A permit does not stay available for ever beside a waiting task, as     *)
(* long as the entry window of down is now and then empty.  (Without that  *)
(* proviso it may: an endless stream of callers that each time out keeps   *)
(* one uncorrected decrement in count, which hides the permit.)            *)
PermitReachesWaiter ==
    []<>(Pending = {}) =>
        ((avail > 0 /\ Waiters # {}) ~> (avail = 0 \/ Waiters = {}))
(* The code implements the abstract semaphore: a call is in progress from  *)
(* the decrement that went below zero to the return.                       *)
Abstract == INSTANCE CountingSem WITH
    permits <- avail, dead <- destroyed,
    call <- [t \in Tasks |-> IF pc[t] = "idle" THEN "none" ELSE mode[t]]

(* RtdmSem implements CountingSem: permits are only handed out while there *)
(* are some, and each failure code is only returned for its reason.        *)
ImplementsCountingSem == Abstract!Spec
=============================================================================
