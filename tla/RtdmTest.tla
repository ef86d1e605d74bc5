------------------------------- MODULE RtdmTest -------------------------------
(***************************************************************************)
(* The rtdmtest driver (drivers/testing/rtdmtest.c) as a user of the RTDM  *)
(* mutex and task services (rtdm_driver_native.h, drvlib.c): its MUTEX and *)
(* TASK ioctls, open, close and module exit.  Its SEM and EVENT ioctls are *)
(* the callers of modules RtdmSem and RtdmEvent.                           *)
(*                                                                         *)
(* The kernel's rt_mutex is external: it has an owner or none, a waiter    *)
(* gets it when it is free, and rt_mutex_unlock frees it whoever calls.    *)
(*                                                                         *)
(* Every open file has a context with a mutex of its own; rtdm_lock_count  *)
(* and the task structure are static, and the device is not exclusive.     *)
(* Nothing pins the module while a file is open: the exit function runs,   *)
(* joins the task, and then waits in rtdm_dev_unregister for the files,    *)
(* which may be used and opened until it is done.                          *)
(*                                                                         *)
(* There is one task structure for the whole module.  Task ioctls that     *)
(* overlap a running TASK_CREATE, and a create with a thread still alive,  *)
(* overwrite it under its users; `clash' marks the first of these, and     *)
(* nothing is followed past it.                                            *)
(***************************************************************************)
EXTENDS Integers

CONSTANTS
    Contexts,    \* contexts of open files, each given as the set of its callers
    Threads,     \* bound: kernel threads created, as a set of identities
    Wrap         \* rtdm_lock_count counts modulo Wrap

None == "none"
Callers == UNION Contexts
(* The context that ioctls of c work on. *)
Context(c) == CHOOSE x \in Contexts : c \in x

ASSUME RtdmTestAssumption ==
    /\ Wrap \in Nat \ {0}
    /\ \A x, y \in Contexts : x # y => x \cap y = {}
    /\ Callers \cap {None, "exit"} = {} /\ None \notin Threads

VARIABLES
    open,     \* contexts whose file is open
    sole,     \* history: the open context, if no other was open since it was opened
    mutex,    \* [gone, owner] per context: RTDM_MUTEX_DESTROY and the rt_mutex's owner
    loc,      \* where each caller is, and the module's exit ("exit")
    how,      \* the lock call: "lock" (rtdm_mutex_lock), or rtdm_mutex_timedlock: "try"
              \* (timeout < 0) or "timed" (limited or not); "lock" again when it is over
    tmp,      \* a caller's copy of rtdm_lock_count while it increments it
    lockCount,    \* rtdm_lock_count
    passes,   \* history: completed passes since the last open, modulo Wrap
    task,     \* [magic, stopped, thread, done]: the task structure; done is the
              \* completion `start'
    thread,   \* life of each kernel thread
    woken,    \* threads that were woken; with a signal pending: `signalled'
    signalled,
    loaded,   \* the module is loaded
    late,     \* history: threads created after the exit function was called
    clash     \* history: see above

mutexVars == <<mutex, how, tmp, lockCount, passes>>
threadVars == <<task, thread, woken, signalled, late, clash>>
testVars == <<open, sole, loc, loaded, mutexVars, threadVars>>

Actors == Callers \cup {"exit"}
TaskPCs == {"spawned", "wait", "wake", "join"}
CallPCs == TaskPCs \cup {"idle", "try", "blocked", "got", "in", "inc", "destroy", "release",
                     "leave", "gone"}
Alive == {t \in Threads : thread[t] \in {"new", "parked", "running"}}

TestTypeOK ==
    /\ open \in SUBSET Contexts /\ sole \in SUBSET Contexts
    /\ loaded \in BOOLEAN /\ clash \in BOOLEAN
    /\ mutex \in [Contexts -> [gone : BOOLEAN, owner : Callers \cup {None}]]
    /\ loc \in [Actors -> CallPCs]
    /\ tmp \in [Callers -> Int] /\ lockCount \in Int /\ passes \in Int
    /\ task \in [magic : BOOLEAN, stopped : BOOLEAN, thread : Threads \cup {None}, done : Nat]
    /\ thread \in [Threads -> {"unused", "new", "parked", "running", "ended"}]

TestInit ==
    /\ open = {} /\ sole = {} /\ loaded = TRUE /\ clash = FALSE
    /\ mutex = [x \in Contexts |-> [gone |-> TRUE, owner |-> None]]
    /\ loc = [a \in Actors |-> "idle"]
    /\ how = [c \in Callers |-> "lock"] /\ tmp = [c \in Callers |-> 0]
    /\ lockCount = 0 /\ passes = 0
    /\ task = [magic |-> FALSE, stopped |-> FALSE, thread |-> None, done |-> 0]
    /\ thread = [t \in Threads |-> "unused"] /\ woken = {} /\ signalled = {}
    /\ late = {}

Goto(a, l) == loc' = [loc EXCEPT ![a] = l]

-----------------------------------------------------------------------------
(* rtdmtest_open: every open resets rtdm_lock_count. *)
Open(x) ==
    /\ x \notin open
    /\ open' = open \cup {x} /\ sole' = IF open = {} THEN {x} ELSE {}
    /\ lockCount' = 0 /\ passes' = 0
    /\ mutex' = [mutex EXCEPT ![x] = [gone |-> FALSE, owner |-> None]]
    /\ UNCHANGED <<loc, how, tmp, loaded, threadVars>>

(* rtdmtest_close: the kernel calls it when no ioctl is in progress on the *)
(* file.                                                                   *)
Close(x) ==
    /\ x \in open /\ \A c \in x : loc[c] = "idle"
    /\ open' = open \ {x} /\ sole' = sole \ {x}
    /\ mutex' = [mutex EXCEPT ![x] = [gone |-> TRUE, owner |-> None]]
    /\ UNCHANGED <<loc, how, tmp, lockCount, passes, loaded, threadVars>>

-----------------------------------------------------------------------------
(* MUTEX_TEST and MUTEX_TIMEDTEST: rtdm_mutex_lock and rtdm_mutex_timedlock *)
(* test DESTROY, get the lock, and test again, except for a trylock.       *)
Lock(c, h) ==
    /\ Context(c) \in open /\ loc[c] = "idle" /\ ~mutex[Context(c)].gone
    /\ Goto(c, "try") /\ how' = [how EXCEPT ![c] = h]
    /\ UNCHANGED <<open, sole, mutex, tmp, lockCount, passes, loaded, threadVars>>

AcquireAnyway(c) ==             \* mutant: rt_mutex_trylock's result is not tested
    /\ loc[c] \in {"try", "blocked"}
    /\ IF mutex[Context(c)].owner = None
       THEN /\ mutex' = [mutex EXCEPT ![Context(c)].owner = c]
            /\ Goto(c, IF how[c] = "try" THEN "in" ELSE "got")
       ELSE /\ loc[c] = "try" /\ UNCHANGED mutex
            /\ Goto(c, IF how[c] = "try" THEN "in" ELSE "blocked")
    /\ how' = IF loc'[c] = "blocked" THEN how ELSE [how EXCEPT ![c] = "lock"]
    /\ UNCHANGED <<open, sole, tmp, lockCount, passes, loaded, threadVars>>
Acquire(c) ==
    /\ loc[c] \in {"try", "blocked"}
    /\ IF mutex[Context(c)].owner = None
       THEN /\ mutex' = [mutex EXCEPT ![Context(c)].owner = c]
            /\ Goto(c, IF how[c] = "try" THEN "in" ELSE "got")
       ELSE /\ loc[c] = "try" /\ UNCHANGED mutex
            /\ Goto(c, IF how[c] = "try" THEN "idle" ELSE "blocked")
    /\ how' = IF loc'[c] = "blocked" THEN how ELSE [how EXCEPT ![c] = "lock"]
    /\ UNCHANGED <<open, sole, tmp, lockCount, passes, loaded, threadVars>>

(* A timeout or a signal: an error, whatever the second test says. *)
GiveUpEnters(c) ==              \* mutant: the error is not passed on
    /\ loc[c] = "blocked" /\ how[c] = "timed"
    /\ Goto(c, "in") /\ how' = [how EXCEPT ![c] = "lock"]
    /\ UNCHANGED <<open, sole, mutex, tmp, lockCount, passes, loaded, threadVars>>
GiveUp(c) ==
    /\ loc[c] = "blocked" /\ how[c] = "timed"
    /\ Goto(c, "idle") /\ how' = [how EXCEPT ![c] = "lock"]
    /\ UNCHANGED <<open, sole, mutex, tmp, lockCount, passes, loaded, threadVars>>

(* The second test; -EIDRM leaves the rt_mutex locked. *)
Retest(c) ==
    /\ loc[c] = "got"
    /\ Goto(c, IF mutex[Context(c)].gone THEN "idle" ELSE "in")
    /\ UNCHANGED <<open, sole, mutexVars, loaded, threadVars>>

(* rtdm_lock_count++ in two steps, and rtdm_mutex_unlock *)
Count(c) ==
    /\ loc[c] = "in"
    /\ Goto(c, "inc") /\ tmp' = [tmp EXCEPT ![c] = lockCount]
    /\ UNCHANGED <<open, sole, mutex, how, lockCount, passes, loaded, threadVars>>
Unlock(c) ==
    /\ loc[c] = "inc"
    /\ Goto(c, "idle") /\ tmp' = [tmp EXCEPT ![c] = 0]
    /\ lockCount' = (tmp[c] + 1) % Wrap /\ passes' = (passes + 1) % Wrap
    /\ mutex' = [mutex EXCEPT ![Context(c)].owner = None]
    /\ UNCHANGED <<open, sole, how, loaded, threadVars>>

(* rtdm_mutex_destroy: the bit, the test of the lock, and its release *)
MutexDestroy(c) ==
    /\ Context(c) \in open /\ loc[c] = "idle"
    /\ mutex' = [mutex EXCEPT ![Context(c)].gone = TRUE] /\ Goto(c, "destroy")
    /\ UNCHANGED <<open, sole, how, tmp, lockCount, passes, loaded, threadVars>>
DestroyTest(c) ==
    /\ loc[c] = "destroy"
    /\ Goto(c, IF mutex[Context(c)].owner = None THEN "idle" ELSE "release")
    /\ UNCHANGED <<open, sole, mutexVars, loaded, threadVars>>
DestroyRelease(c) ==
    /\ loc[c] = "release" /\ Goto(c, "idle")
    /\ mutex' = [mutex EXCEPT ![Context(c)].owner = None]
    /\ UNCHANGED <<open, sole, how, tmp, lockCount, passes, loaded, threadVars>>

-----------------------------------------------------------------------------
(* TASK_CREATE: rtdm_task_init.  It fails for a bad priority, with nothing *)
(* changed, or in kernel_thread.                                           *)
Overlaps(pcs) == \E a \in Actors : loc[a] \in pcs
Create(c) ==
    /\ Context(c) \in open /\ loc[c] = "idle"
    /\ clash' = (Overlaps(TaskPCs) \/ Alive # {})
    /\ \/ /\ task' = [task EXCEPT !.done = 0, !.stopped = TRUE]
          /\ UNCHANGED <<loc, thread, late>>
       \/ \E t \in Threads :
            /\ thread[t] = "unused" /\ thread' = [thread EXCEPT ![t] = "new"]
            /\ task' = [task EXCEPT !.done = 0] /\ Goto(c, "spawned")
            /\ late' = IF loc["exit"] = "idle" THEN late ELSE late \cup {t}
    /\ UNCHANGED <<open, sole, mutexVars, loaded, woken, signalled>>
ClearStopped(c) ==
    /\ loc[c] = "spawned" /\ Goto(c, "wait")
    /\ task' = [task EXCEPT !.stopped = FALSE]
    /\ UNCHANGED <<open, sole, mutexVars, loaded, thread, woken, signalled, late, clash>>
WaitStart(c) ==
    /\ loc[c] = "wait" /\ task.done > 0 /\ Goto(c, "wake")
    /\ task' = [task EXCEPT !.done = @ - 1]
    /\ UNCHANGED <<open, sole, mutexVars, loaded, thread, woken, signalled, late, clash>>
WakeThread(c) ==
    /\ loc[c] = "wake" /\ Goto(c, "idle")
    /\ woken' = woken \cup {task.thread}
    /\ UNCHANGED <<open, sole, mutexVars, loaded, task, thread, signalled, late, clash>>

(* rtdm_task_destroy and rtdm_task_join_nrt, in TASK_DESTROY and in the    *)
(* module's exit.  Both do nothing before the first thread has run.        *)
SendSignalOnly(a) ==            \* mutant: the join does not poll
    /\ IF task.magic /\ ~task.stopped
       THEN woken' = woken \cup {task.thread} /\ signalled' = signalled \cup {task.thread}
       ELSE UNCHANGED <<woken, signalled>>
    /\ Goto(a, IF a = "exit" THEN "leave" ELSE "idle")
SendSignal(a) ==
    /\ IF task.magic /\ ~task.stopped
       THEN woken' = woken \cup {task.thread} /\ signalled' = signalled \cup {task.thread}
       ELSE UNCHANGED <<woken, signalled>>
    /\ Goto(a, IF task.magic THEN "join" ELSE IF a = "exit" THEN "leave" ELSE "idle")
DestroyTask(c) ==
    /\ Context(c) \in open /\ loc[c] = "idle"
    /\ clash' = Overlaps(TaskPCs \ {"join"})
    /\ SendSignal(c)
    /\ UNCHANGED <<open, sole, mutexVars, loaded, task, thread, late>>
Join(a) ==
    /\ loc[a] = "join" /\ task.stopped
    /\ Goto(a, IF a = "exit" THEN "leave" ELSE "idle")
    /\ UNCHANGED <<open, sole, mutexVars, loaded, threadVars>>

(* __rtdmtest_exit: the task is destroyed and joined first ... *)
RtdmtestExit ==
    /\ loc["exit"] = "idle"
    /\ clash' = Overlaps(TaskPCs \ {"join"})
    /\ SendSignal("exit")
    /\ UNCHANGED <<open, sole, mutexVars, loaded, task, thread, late>>

(* ... and then rtdm_dev_unregister waits until no file is open. *)
Unload ==
    /\ loc["exit"] = "leave" /\ open = {}
    /\ Goto("exit", "gone") /\ loaded' = FALSE
    /\ UNCHANGED <<open, sole, mutexVars, threadVars>>

(* rtdm_task: announce itself, sleep until woken, run proc until a signal  *)
(* ends its sleep, set stopped.                                            *)
ThreadStarts(t) ==
    /\ thread[t] = "new" /\ thread' = [thread EXCEPT ![t] = "parked"]
    /\ task' = [task EXCEPT !.magic = TRUE, !.thread = t, !.done = @ + 1]
    /\ UNCHANGED <<open, sole, loc, mutexVars, loaded, woken, signalled, late, clash>>
ThreadRuns(t) ==
    /\ thread[t] = "parked" /\ t \in woken
    /\ thread' = [thread EXCEPT ![t] = "running"] /\ woken' = woken \ {t}
    /\ UNCHANGED <<open, sole, loc, mutexVars, loaded, task, signalled, late, clash>>
ThreadEndsSilently(t) ==        \* mutant: stopped is not set
    /\ thread[t] = "running" /\ t \in signalled
    /\ thread' = [thread EXCEPT ![t] = "ended"] /\ woken' = woken \ {t}
    /\ UNCHANGED <<open, sole, loc, mutexVars, loaded, task, signalled, late, clash>>
ThreadEnds(t) ==
    /\ thread[t] = "running" /\ t \in signalled
    /\ thread' = [thread EXCEPT ![t] = "ended"] /\ woken' = woken \ {t}
    /\ task' = [task EXCEPT !.stopped = TRUE]
    /\ UNCHANGED <<open, sole, loc, mutexVars, loaded, signalled, late, clash>>

-----------------------------------------------------------------------------
(* After a clash the driver's data are undefined, and after the unload its *)
(* code is gone.                                                           *)
Live == ~clash /\ loaded
Over == ~Live /\ UNCHANGED testVars

Serve(c) ==
    \/ Acquire(c) \/ Retest(c) \/ Count(c) \/ Unlock(c)
    \/ DestroyTest(c) \/ DestroyRelease(c)
    \/ ClearStopped(c) \/ WaitStart(c) \/ WakeThread(c) \/ Join(c)
Thread(t) == ThreadStarts(t) \/ ThreadRuns(t) \/ ThreadEnds(t)
Request(c) ==
    \/ \E h \in {"lock", "timed", "try"} : Lock(c, h)
    \/ GiveUp(c) \/ MutexDestroy(c) \/ Create(c) \/ DestroyTask(c)

TestNext ==
    \/ Live /\ \E x \in Contexts : Open(x) \/ Close(x)
    \/ Live /\ (RtdmtestExit \/ Unload \/ Join("exit"))
    \/ Live /\ \E c \in Callers : Request(c) \/ Serve(c)
    \/ Live /\ \E t \in Threads : Thread(t)
    \/ Over

(* A thread that can run is scheduled, and so is a caller inside the       *)
(* kernel; nobody has to call, and a signal need not come.                 *)
TestFairness ==
    /\ \A t \in Threads : WF_testVars(Live /\ Thread(t))
    /\ \A c \in Callers : WF_testVars(Live /\ Serve(c))
    /\ WF_testVars(Live /\ Join("exit"))
TestSpec == TestInit /\ [][TestNext]_testVars /\ TestFairness

-----------------------------------------------------------------------------
(* rtdm_mutex_lock and rtdm_mutex_timedlock let one caller in: two callers *)
(* of a file whose mutex is not destroyed are never both between the load  *)
(* and the store of rtdm_lock_count++, whatever mix of lock, timedlock and *)
(* trylock they use, with timeouts and signals.                            *)
OneAtATime ==
    \A c, d \in Callers :
        loc[c] = "inc" /\ loc[d] = "inc" /\ Context(c) = Context(d)
            => c = d \/ mutex[Context(c)].gone

(* TASK_DESTROY and the module's exit come back: the thread is woken       *)
(* wherever it is, in particular before it has run its procedure, its last *)
(* act sets stopped, and no create clears that again.  Only task ioctls    *)
(* that overlap a create, or a second create, can prevent it.              *)
JoinReturns == \A a \in Actors : loc[a] = "join" ~> (loc[a] # "join" \/ clash)

(* Once __rtdmtest_exit has got past the join, every thread that was       *)
(* created before it was called is gone, also one whose creator closed the *)
(* file without destroying it; threads created later need not be.  An exit *)
(* that overlaps a running TASK_CREATE is a clash.                         *)
ExitJoinsEarlier == ~clash /\ loc["exit"] \in {"leave", "gone"} => Alive \subseteq late

(* rtdm_lock_count is the number of completed passes, which the test       *)
(* program prints beside it, for a file that was opened alone and as long  *)
(* as its mutex is not destroyed and no other file is opened: then another *)
(* mutex guards increments of the same count, and every open resets it.    *)
LockCountExact == \A x \in sole : ~mutex[x].gone => lockCount = passes
=============================================================================
