---------------------------- MODULE RtdmCoreProofs ----------------------------
(***************************************************************************)
(* Proofs about the mutex and the tasks (RtdmTest), the event (RtdmEvent)  *)
(* and the registration of devices (RtdmDevice), for any sets of callers,  *)
(* threads, tasks and files.  The three have no name in common.            *)
(***************************************************************************)
EXTENDS RtdmTest, RtdmEvent, RtdmDevice, FiniteSetTheorems, TLAPS

-----------------------------------------------------------------------------
(* The parts of the inductive invariant.  A closed file has no caller      *)
(* inside.                                                                 *)
ClosedIsIdle == \A c \in Callers : loc[c] # "idle" => Context(c) \in open

(* Until it is destroyed a mutex has the one owner that is past it. *)
Excludes ==
    /\ \A c \in Callers : loc[c] \in {"destroy", "release"} => mutex[Context(c)].gone
    /\ \A c \in Callers : loc[c] \in {"got", "in", "inc"} =>
          mutex[Context(c)].gone \/ mutex[Context(c)].owner = c

(* A context opened alone is the only one open, and until its mutex is     *)
(* destroyed the copy of the count that a caller has loaded is current.    *)
Sole == sole \subseteq open /\ \A x \in sole : open = {x}
Current ==
    \A c \in Callers : loc[c] = "inc" /\ Context(c) \in sole =>
        mutex[Context(c)].gone \/ tmp[c] = lockCount
CountInv == Sole /\ Current /\ LockCountExact

(* While no task ioctls have clashed there is one thread at most; before   *)
(* it runs its creator waits for it, afterwards the structure is marked,   *)
(* and `stopped' is clear except just after its creation.                  *)
OneThread == \A t, u \in Threads : t \in Alive /\ u \in Alive => t = u
Awaited ==
    \A t \in Threads : thread[t] = "new" =>
        task.done = 0 /\ \E c \in Callers : loc[c] \in {"spawned", "wait"}
Marked == \A t \in Threads : thread[t] \in {"parked", "running"} => task.magic
NotStopped ==
    \A t \in Threads : t \in Alive => ~task.stopped \/ \E c \in Callers : loc[c] = "spawned"
ThreadKnown == ~clash => OneThread /\ Awaited /\ Marked /\ NotStopped

(* While the exit joins, no create is under way. *)
ExitAlone ==
    ~clash /\ loc["exit"] = "join" =>
        \A c \in Callers : loc[c] \notin {"spawned", "wait", "wake"}

MutexInv == TestTypeOK /\ ClosedIsIdle /\ Excludes
TaskInv == ThreadKnown /\ ExitAlone /\ ExitJoinsEarlier
IInv == MutexInv /\ CountInv /\ TaskInv

-----------------------------------------------------------------------------
(* The context of a caller is one of its own. *)
LEMMA ContextOf ==
    ASSUME NEW c \in Callers
    PROVE  Context(c) \in Contexts /\ c \in Context(c)
  BY DEF Callers, Context

(* At the start all files are closed and there is no thread. *)
LEMMA InitInv == TestInit => IInv
<1> SUFFICES ASSUME TestInit PROVE IInv
  OBVIOUS
<1> USE RtdmTestAssumption DEF TestInit, None
<1>1. TestTypeOK
  <2>1. mutex \in [Contexts -> [gone : BOOLEAN, owner : Callers \cup {None}]]
    OBVIOUS
  <2>2. task \in [magic : BOOLEAN, stopped : BOOLEAN, thread : Threads \cup {None}, done : Nat]
    OBVIOUS
  <2>3. loc \in [Actors -> CallPCs] /\ tmp \in [Callers -> Int]
    BY DEF CallPCs
  <2>4. open \in SUBSET Contexts /\ sole \in SUBSET Contexts /\ loaded \in BOOLEAN /\ clash \in BOOLEAN
    OBVIOUS
  <2>5. /\ lockCount \in Int /\ passes \in Int
        /\ thread \in [Threads -> {"unused", "new", "parked", "running", "ended"}]
    OBVIOUS
  <2> HIDE DEF TestInit
  <2> QED
    BY <2>1, <2>2, <2>3, <2>4, <2>5, Zenon DEF TestTypeOK
<1>2. ClosedIsIdle /\ Excludes
  BY DEF ClosedIsIdle, Excludes, Actors
<1>3. Alive = {}
  BY DEF Alive
<1>4. ThreadKnown /\ ExitAlone /\ ExitJoinsEarlier
  BY <1>3 DEF ThreadKnown, OneThread, Awaited, Marked, NotStopped, ExitAlone,
              ExitJoinsEarlier, Alive, Actors
<1>5. CountInv
  BY DEF CountInv, Sole, Current, LockCountExact
<1> QED
  BY <1>1, <1>2, <1>4, <1>5 DEF IInv, MutexInv, TaskInv

(* Every step keeps the part of the invariant that is about the mutex.     *)
(* Destroy is the only step that breaks the ownership of the mutex, and    *)
(* from then on `gone' stays set until all callers have left.              *)
LEMMA MutexStep ==
    ASSUME MutexInv, TestNext
    PROVE  MutexInv'
<1> USE RtdmTestAssumption, ContextOf DEF MutexInv, TestTypeOK, ClosedIsIdle,
    Excludes, Goto, Actors, CallPCs, TaskPCs, None, mutexVars, threadVars
<1>1. ASSUME NEW x \in Contexts, Live, Open(x)
      PROVE  MutexInv'
  BY <1>1 DEF Open
<1>2. ASSUME NEW x \in Contexts, Live, Close(x)
      PROVE  MutexInv'
  BY <1>2 DEF Close
<1>3. CASE Live /\ RtdmtestExit
  BY <1>3 DEF RtdmtestExit, SendSignal, Overlaps
<1>4. CASE Live /\ Unload
  BY <1>4 DEF Unload
<1>5. CASE Live /\ Join("exit")
  BY <1>5 DEF Join
<1>6. ASSUME NEW c \in Callers, NEW h \in {"lock", "timed", "try"},
             Live, Lock(c, h)
      PROVE  MutexInv'
  BY <1>6 DEF Lock
<1>7. ASSUME NEW c \in Callers, Live, GiveUp(c)
      PROVE  MutexInv'
  BY <1>7 DEF GiveUp
<1>8. ASSUME NEW c \in Callers, Live, MutexDestroy(c)
      PROVE  MutexInv'
  <2>1. /\ Context(c) \in open /\ loc[c] = "idle" /\ loc' = [loc EXCEPT ![c] = "destroy"]
        /\ mutex' = [mutex EXCEPT ![Context(c)].gone = TRUE]
        /\ UNCHANGED <<open, sole, tmp, lockCount, passes, loaded, task, thread, clash>>
    BY <1>8 DEF MutexDestroy
  <2>2. mutex' \in [Contexts -> [gone : BOOLEAN, owner : Callers \cup {None}]]
    <3>1. [mutex[Context(c)] EXCEPT !.gone = TRUE] \in
            [gone : BOOLEAN, owner : Callers \cup {None}]
      <4>1. Context(c) \in Contexts
        BY ContextOf
      <4>2. mutex[Context(c)] \in [gone : BOOLEAN, owner : Callers \cup {None}]
        BY <4>1
      <4> HIDE DEF MutexInv
      <4> QED
        BY <4>2
    <3>2. mutex' = [mutex EXCEPT ![Context(c)] = [mutex[Context(c)] EXCEPT !.gone = TRUE]]
      BY <2>1
    <3> QED
      BY <3>1, <3>2
  <2>3. \A d \in Callers : /\ mutex[Context(d)].gone => mutex'[Context(d)].gone
                          /\ mutex'[Context(d)].owner = mutex[Context(d)].owner
    BY <2>1
  <2>4. mutex'[Context(c)].gone
    BY <2>1
  <2>5. TestTypeOK' /\ ClosedIsIdle'
    BY <2>1, <2>2
  <2>6. Excludes'
    BY <2>1, <2>3, <2>4
  <2> QED
    BY <2>5, <2>6
<1>9. ASSUME NEW c \in Callers, Live, Create(c)
      PROVE  MutexInv'
  <2>1. task' \in [magic : BOOLEAN, stopped : BOOLEAN, thread : Threads \cup {None}, done : Nat]
    <3>1. CASE task' = [task EXCEPT !.done = 0, !.stopped = TRUE]
      BY <3>1
    <3>2. CASE task' = [task EXCEPT !.done = 0]
      BY <3>2
    <3> QED
      BY <1>9, <3>1, <3>2 DEF Create
  <2>2. /\ clash' \in BOOLEAN
        /\ thread' \in [Threads -> {"unused", "new", "parked", "running", "ended"}]
    BY <1>9 DEF Create, Overlaps
  <2>3. UNCHANGED <<open, sole, loaded, mutexVars>>
    BY <1>9 DEF Create
  <2>4. loc' = loc \/ loc' = [loc EXCEPT ![c] = "spawned"]
    BY <1>9 DEF Create
  <2>5. Context(c) \in open /\ loc[c] = "idle"
    BY <1>9 DEF Create
  <2> QED
    BY <2>1, <2>2, <2>3, <2>4, <2>5
<1>10. ASSUME NEW c \in Callers, Live, DestroyTask(c)
      PROVE  MutexInv'
  BY <1>10 DEF DestroyTask, SendSignal, Overlaps
<1>11. ASSUME NEW c \in Callers, Live, Acquire(c)
      PROVE  MutexInv'
  BY <1>11 DEF Acquire
<1>12. ASSUME NEW c \in Callers, Live, Retest(c)
      PROVE  MutexInv'
  BY <1>12 DEF Retest
<1>13. ASSUME NEW c \in Callers, Live, Count(c)
      PROVE  MutexInv'
  BY <1>13 DEF Count
<1>14. ASSUME NEW c \in Callers, Live, Unlock(c)
      PROVE  MutexInv'
  BY <1>14 DEF Unlock
<1>15. ASSUME NEW c \in Callers, Live, DestroyTest(c)
      PROVE  MutexInv'
  BY <1>15 DEF DestroyTest
<1>16. ASSUME NEW c \in Callers, Live, DestroyRelease(c)
      PROVE  MutexInv'
  BY <1>16 DEF DestroyRelease
<1>17. ASSUME NEW c \in Callers, Live, ClearStopped(c)
      PROVE  MutexInv'
  BY <1>17 DEF ClearStopped
<1>18. ASSUME NEW c \in Callers, Live, WaitStart(c)
      PROVE  MutexInv'
  <2>1. task' \in [magic : BOOLEAN, stopped : BOOLEAN, thread : Threads \cup {None}, done : Nat]
    BY <1>18, task.done - 1 \in Nat DEF WaitStart
  <2> QED
    BY <1>18, <2>1 DEF WaitStart
<1>19. ASSUME NEW c \in Callers, Live, WakeThread(c)
      PROVE  MutexInv'
  BY <1>19 DEF WakeThread
<1>20. ASSUME NEW c \in Callers, Live, Join(c)
      PROVE  MutexInv'
  BY <1>20 DEF Join
<1>21. ASSUME NEW t \in Threads, Live, ThreadStarts(t)
      PROVE  MutexInv'
  <2>1. task' \in [magic : BOOLEAN, stopped : BOOLEAN, thread : Threads \cup {None}, done : Nat]
    BY <1>21, task.done + 1 \in Nat DEF ThreadStarts
  <2> QED
    BY <1>21, <2>1 DEF ThreadStarts
<1>22. ASSUME NEW t \in Threads, Live, ThreadRuns(t)
      PROVE  MutexInv'
  BY <1>22 DEF ThreadRuns
<1>23. ASSUME NEW t \in Threads, Live, ThreadEnds(t)
      PROVE  MutexInv'
  BY <1>23 DEF ThreadEnds
<1>24. CASE Over
  BY <1>24 DEF Over, testVars
<1> QED
  BY <1>1, <1>2, <1>3, <1>4, <1>5, <1>6, <1>7, <1>8, <1>9, <1>10, <1>11,
      <1>12, <1>13, <1>14, <1>15, <1>16, <1>17, <1>18, <1>19, <1>20, <1>21,
      <1>22, <1>23, <1>24 DEF TestNext, Request, Serve, Thread

(* Every step keeps the count that of the passes, for a context opened     *)
(* alone.  Only Unlock stores it, for the owner of the mutex, whose copy   *)
(* is current; no other caller is inside, and none of another context.     *)
LEMMA CountStep ==
    ASSUME MutexInv, CountInv, TestNext
    PROVE  CountInv'
<1> USE RtdmTestAssumption, ContextOf DEF MutexInv, TestTypeOK, ClosedIsIdle,
    Excludes, CountInv, Sole, Current, LockCountExact, Goto, Actors, None,
    mutexVars, threadVars
<1>1. ASSUME NEW x \in Contexts, Live, Open(x)
      PROVE  CountInv'
  <2>1. CASE open = {}
    BY <1>1, <2>1 DEF Open
  <2>2. CASE open # {}
    BY <1>1, <2>2 DEF Open
  <2> QED
    BY <2>1, <2>2
<1>2. ASSUME NEW x \in Contexts, Live, Close(x)
      PROVE  CountInv'
  BY <1>2 DEF Close
<1>3. CASE Live /\ (RtdmtestExit \/ Unload \/ Join("exit"))
  BY <1>3 DEF RtdmtestExit, SendSignal, Unload, Join
<1>4. ASSUME NEW c \in Callers, NEW h \in {"lock", "timed", "try"},
             Live, Lock(c, h)
      PROVE  CountInv'
  BY <1>4 DEF Lock
<1>5. ASSUME NEW c \in Callers, Live, GiveUp(c)
      PROVE  CountInv'
  BY <1>5 DEF GiveUp
<1>6. ASSUME NEW c \in Callers, Live, MutexDestroy(c)
      PROVE  CountInv'
  BY <1>6 DEF MutexDestroy
<1>7. ASSUME NEW c \in Callers, Live, Create(c)
      PROVE  CountInv'
  BY <1>7 DEF Create
<1>8. ASSUME NEW c \in Callers, Live, DestroyTask(c)
      PROVE  CountInv'
  BY <1>8 DEF DestroyTask, SendSignal
<1>9. ASSUME NEW c \in Callers, Live, Acquire(c)
      PROVE  CountInv'
  BY <1>9 DEF Acquire
<1>10. ASSUME NEW c \in Callers, Live, Retest(c)
      PROVE  CountInv'
  BY <1>10 DEF Retest
<1>11. ASSUME NEW c \in Callers, Live, Count(c)
      PROVE  CountInv'
  BY <1>11 DEF Count
<1>12. ASSUME NEW c \in Callers, Live, Unlock(c)
      PROVE  CountInv'
  BY <1>12 DEF Unlock
<1>13. ASSUME NEW c \in Callers, Live, DestroyTest(c)
      PROVE  CountInv'
  BY <1>13 DEF DestroyTest
<1>14. ASSUME NEW c \in Callers, Live, DestroyRelease(c)
      PROVE  CountInv'
  BY <1>14 DEF DestroyRelease
<1>15. ASSUME NEW c \in Callers, Live, ClearStopped(c)
      PROVE  CountInv'
  BY <1>15 DEF ClearStopped
<1>16. ASSUME NEW c \in Callers, Live, WaitStart(c)
      PROVE  CountInv'
  BY <1>16 DEF WaitStart
<1>17. ASSUME NEW c \in Callers, Live, WakeThread(c)
      PROVE  CountInv'
  BY <1>17 DEF WakeThread
<1>18. ASSUME NEW c \in Callers, Live, Join(c)
      PROVE  CountInv'
  BY <1>18 DEF Join
<1>19. ASSUME NEW t \in Threads, Live, Thread(t)
      PROVE  CountInv'
  BY <1>19 DEF Thread, ThreadStarts, ThreadRuns, ThreadEnds
<1>20. CASE Over
  BY <1>20 DEF Over, testVars
<1> QED
  BY <1>1, <1>2, <1>3, <1>4, <1>5, <1>6, <1>7, <1>8, <1>9, <1>10, <1>11,
      <1>12, <1>13, <1>14, <1>15, <1>16, <1>17, <1>18, <1>19, <1>20 DEF
      TestNext, Request, Serve

(* Every step keeps the part about the thread.  The exit passes the join   *)
(* with all callers idle, so a clear `stopped' means a thread and a set    *)
(* one means none; unmarked means that no thread was ever started.         *)
LEMMA TaskStep ==
    ASSUME MutexInv, TaskInv, TestNext
    PROVE  TaskInv'
<1> USE RtdmTestAssumption DEF MutexInv, TestTypeOK, TaskInv, ThreadKnown,
    OneThread, Awaited, Marked, NotStopped, ExitAlone, ExitJoinsEarlier, Alive,
    Goto, Actors, TaskPCs, None, Live, mutexVars, threadVars
<1>1. ASSUME NEW x \in Contexts, Live, Open(x)
      PROVE  TaskInv'
  BY <1>1 DEF Open
<1>2. ASSUME NEW x \in Contexts, Live, Close(x)
      PROVE  TaskInv'
  BY <1>2 DEF Close
<1>3. CASE Live /\ RtdmtestExit
  BY <1>3 DEF RtdmtestExit, SendSignal, Overlaps
<1>4. CASE Live /\ Unload
  BY <1>4 DEF Unload
<1>5. CASE Live /\ Join("exit")
  BY <1>5 DEF Join
<1>6. ASSUME NEW c \in Callers, NEW h \in {"lock", "timed", "try"},
             Live, Lock(c, h)
      PROVE  TaskInv'
  BY <1>6 DEF Lock
<1>7. ASSUME NEW c \in Callers, Live, GiveUp(c)
      PROVE  TaskInv'
  BY <1>7 DEF GiveUp
<1>8. ASSUME NEW c \in Callers, Live, MutexDestroy(c)
      PROVE  TaskInv'
  BY <1>8 DEF MutexDestroy
<1>9. ASSUME NEW c \in Callers, Live, Create(c)
      PROVE  TaskInv'
  <2> SUFFICES ASSUME ~clash' PROVE TaskInv'
    OBVIOUS
  <2>1. Alive = {} /\ \A a \in Actors : loc[a] \notin TaskPCs
    BY <1>9 DEF Create, Overlaps
  <2>2. CASE loc' = loc /\ thread' = thread /\ late' = late
    BY <1>9, <2>1, <2>2
  <2>3. ASSUME NEW t \in Threads, thread' = [thread EXCEPT ![t] = "new"],
               task' = [task EXCEPT !.done = 0], loc' = [loc EXCEPT ![c] = "spawned"],
               late' = IF loc["exit"] = "idle" THEN late ELSE late \cup {t}
        PROVE  TaskInv'
    <3>1. Alive' = {t}
      BY <2>1, <2>3
    <3>2. loc'["exit"] = loc["exit"] /\ loc["exit"] # "join" /\ loc'[c] = "spawned"
      BY <2>1, <2>3
    <3>3. task'.done = 0
      BY <2>3
    <3> QED
      BY <2>1, <2>3, <3>1, <3>2, <3>3
  <2> QED
    BY <1>9, <2>2, <2>3 DEF Create
<1>10. ASSUME NEW c \in Callers, Live, DestroyTask(c)
      PROVE  TaskInv'
  BY <1>10 DEF DestroyTask, SendSignal, Overlaps
<1>11. ASSUME NEW c \in Callers, Live, Acquire(c)
      PROVE  TaskInv'
  BY <1>11 DEF Acquire
<1>12. ASSUME NEW c \in Callers, Live, Retest(c)
      PROVE  TaskInv'
  BY <1>12 DEF Retest
<1>13. ASSUME NEW c \in Callers, Live, Count(c)
      PROVE  TaskInv'
  BY <1>13 DEF Count
<1>14. ASSUME NEW c \in Callers, Live, Unlock(c)
      PROVE  TaskInv'
  BY <1>14 DEF Unlock
<1>15. ASSUME NEW c \in Callers, Live, DestroyTest(c)
      PROVE  TaskInv'
  BY <1>15 DEF DestroyTest
<1>16. ASSUME NEW c \in Callers, Live, DestroyRelease(c)
      PROVE  TaskInv'
  BY <1>16 DEF DestroyRelease
<1>17. ASSUME NEW c \in Callers, Live, ClearStopped(c)
      PROVE  TaskInv'
  BY <1>17 DEF ClearStopped
<1>18. ASSUME NEW c \in Callers, Live, WaitStart(c)
      PROVE  TaskInv'
  BY <1>18 DEF WaitStart
<1>19. ASSUME NEW c \in Callers, Live, WakeThread(c)
      PROVE  TaskInv'
  BY <1>19 DEF WakeThread
<1>20. ASSUME NEW c \in Callers, Live, Join(c)
      PROVE  TaskInv'
  BY <1>20 DEF Join
<1>21. ASSUME NEW t \in Threads, Live, ThreadStarts(t)
      PROVE  TaskInv'
  BY <1>21 DEF ThreadStarts
<1>22. ASSUME NEW t \in Threads, Live, ThreadRuns(t)
      PROVE  TaskInv'
  BY <1>22 DEF ThreadRuns
<1>23. ASSUME NEW t \in Threads, Live, ThreadEnds(t)
      PROVE  TaskInv'
  BY <1>23 DEF ThreadEnds
<1>24. CASE Over
  BY <1>24 DEF Over, testVars
<1> QED
  BY <1>1, <1>2, <1>3, <1>4, <1>5, <1>6, <1>7, <1>8, <1>9, <1>10, <1>11,
      <1>12, <1>13, <1>14, <1>15, <1>16, <1>17, <1>18, <1>19, <1>20, <1>21,
      <1>22, <1>23, <1>24 DEF TestNext, Request, Serve, Thread

(* The inductive invariant holds in every behaviour. *)
THEOREM Invariance == TestSpec => []IInv
<1>1. IInv /\ [TestNext]_testVars => IInv'
  <2>1. IInv /\ TestNext => IInv'
    BY MutexStep, CountStep, TaskStep DEF IInv
  <2>2. IInv /\ UNCHANGED testVars => IInv'
    BY DEF IInv, CountInv, Sole, Current, LockCountExact, TaskInv,
        ThreadKnown, OneThread, Awaited, Marked,
        NotStopped, ExitAlone, ExitJoinsEarlier, Alive, testVars, MutexInv,
        TestTypeOK, ClosedIsIdle, Excludes, mutexVars, threadVars
  <2> QED
    BY <2>1, <2>2
<1> QED
  BY InitInv, <1>1, PTL DEF TestSpec

-----------------------------------------------------------------------------
(* The types of all variables of the rtdmtest model. *)
THEOREM TypeCorrect == TestSpec => []TestTypeOK
<1>1. IInv => TestTypeOK
  BY DEF IInv, MutexInv
<1> QED
  BY Invariance, <1>1, PTL

(* A mutex that is not destroyed lets one caller into its section: for any *)
(* number of files and callers of rtdm_mutex_lock and rtdm_mutex_timedlock. *)
THEOREM MutexExcludes == TestSpec => []OneAtATime
<1>1. IInv => OneAtATime
  BY DEF IInv, MutexInv, Excludes, OneAtATime
<1> QED
  BY Invariance, <1>1, PTL

(* The lock count is the number of completed passes, for any number of     *)
(* callers of a file that was opened alone, until its mutex is destroyed   *)
(* or another file is opened.                                              *)
THEOREM CountExact == TestSpec => []LockCountExact
<1>1. IInv => LockCountExact
  BY DEF IInv, CountInv
<1> QED
  BY Invariance, <1>1, PTL

(* __rtdmtest_exit returns from rtdm_task_join_nrt only when every thread  *)
(* that was created before its call is gone, unless task ioctls clashed.   *)
THEOREM ExitJoins == TestSpec => []ExitJoinsEarlier
<1>1. IInv => ExitJoinsEarlier
  BY DEF IInv, TaskInv
<1> QED
  BY Invariance, <1>1, PTL

-----------------------------------------------------------------------------
(* The event.                                                              *)

(* Sleepers are on the queue, timers are those of timed waits, and a       *)
(* finished destroy has left no untimed sleeper.                           *)
EventInv ==
    /\ EventTypeOK /\ NoLostSignal /\ Queued
    /\ FreshToseq /\ DestroyOrder

(* rtdm_event_init establishes the invariant. *)
LEMMA EventStart == EventInit => EventInv
  <1> SUFFICES ASSUME EventInit PROVE EventInv
    OBVIOUS
  <1>1. pending \in BOOLEAN /\ signalling \in 0..MaxSignallers
    BY EventAssumption DEF EventInit
  <1>2. EventTypeOK
    BY <1>1, Zenon DEF EventInit, EventTypeOK, WaitPCs, Modes, Results
  <1>3. NoLostSignal /\ Queued /\ FreshToseq /\ DestroyOrder
    BY SMT DEF EventInit, NoLostSignal, Asleep, Queued, FreshToseq,
               DestroyOrder, Timed
  <1> QED BY <1>2, <1>3 DEF EventInv

(* Leaving a wait keeps every part of the invariant, whether PENDING was   *)
(* consumed on the way or not.                                             *)
LEMMA ReturnKeeps ==
    ASSUME EventInv, NEW t \in Tasks, NEW r \in Results, Return(t, r),
           pending' \in BOOLEAN, pending' => pending,
           UNCHANGED <<destroyed, destroying, signalling>>
    PROVE  EventInv'
  BY SMT DEF Return, GoesOn, EventInv, EventTypeOK, NoLostSignal,
             Asleep, Queued, FreshToseq, DestroyOrder, WaitPCs,
             Modes, Timed, Results

(* wake_up and wake_up_all leave no task asleep: everybody who sleeps is   *)
(* on the queue.                                                           *)
LEMMA WakeKeeps ==
    ASSUME EventInv, Wake, signalling' \in 0..MaxSignallers, destroying' \in BOOLEAN,
           destroying' => destroying,
           UNCHANGED <<pending, destroyed, waitVars, sig, armed, gone>>
    PROVE  EventInv'
  BY SMT DEF Wake, EventInv, EventTypeOK, NoLostSignal, Asleep, Queued,
             FreshToseq, DestroyOrder, WaitPCs, Modes, Timed,
             Results, waitVars

(* The way out of a sleep, through hrtimer_cancel or directly. *)
LEMMA LeaveKeeps ==
    ASSUME EventInv, NEW t \in Tasks, NEW r \in Results, Leave(t, r),
           at[t] \in {"again", "clear"},
           pending' \in BOOLEAN, pending' => pending,
           UNCHANGED <<destroyed, destroying, signalling>>
    PROVE  EventInv'
  <1>1. CASE mode[t] \in Timed
    BY <1>1, SMT DEF Leave, kernelVars, EventInv, EventTypeOK, NoLostSignal,
                     Asleep, Queued, FreshToseq, DestroyOrder,
                     WaitPCs, Modes, Timed, Results
  <1>2. CASE mode[t] \notin Timed
    <2>1. Return(t, r)
      BY <1>2 DEF Leave
    <2> QED BY <2>1, ReturnKeeps
  <1> QED BY <1>1, <1>2

(* Every step of RtdmEvent keeps the invariant. *)
LEMMA EventStep == EventInv /\ [EventNext]_eventVars => EventInv'
  <1> SUFFICES ASSUME EventInv, [EventNext]_eventVars PROVE EventInv'
    OBVIOUS
  <1> USE DEF bitVars, waitVars, kernelVars
  <1>0. pending \in BOOLEAN
    BY DEF EventInv, EventTypeOK
  <1>1. ASSUME NEW t \in Tasks, NEW m \in Kinds, NEW keep \in BOOLEAN,
               Call(t, m, keep)
        PROVE  EventInv'
    <2>1. CASE destroyed /\ Return(t, "EIDRM")
      BY <1>1, <2>1, <1>0, ReturnKeeps DEF Call, Results
    <2>2. CASE ~destroyed
      <3>1. m \in Modes
        BY EventAssumption
      <3> QED
        BY <1>1, <2>2, <3>1, SMT DEF Call, EventInv, EventTypeOK, NoLostSignal,
                                     Asleep, Queued, FreshToseq,
                                     DestroyOrder, WaitPCs, Modes, Timed,
                                     Results
    <2> QED BY <1>1, <2>1, <2>2 DEF Call
  <1>2. ASSUME NEW t \in Tasks, Test(t) PROVE EventInv'
    <2>1. CASE Return(t, "ok") /\ pending' = FALSE
      BY <1>2, <2>1, <1>0, ReturnKeeps DEF Test, Results
    <2>2. CASE Return(t, "EWOULDBLOCK") /\ UNCHANGED pending
      BY <1>2, <2>2, <1>0, ReturnKeeps DEF Test, Results
    <2>3. CASE ~pending /\ mode[t] # "try" /\ at' = [at EXCEPT ![t] = "prep"]
               /\ UNCHANGED <<pending, mode, ret, kernelVars>>
      BY <1>2, <2>3, SMT DEF Test, EventInv, EventTypeOK, NoLostSignal,
                             Asleep, Queued, FreshToseq, DestroyOrder,
                             WaitPCs, Modes, Timed, Results
    <2> QED BY <1>2, <2>1, <2>2, <2>3 DEF Test
  <1>3. ASSUME NEW t \in Tasks, Prepare(t) PROVE EventInv'
    BY <1>3, SMT DEF Prepare, EventInv, EventTypeOK, NoLostSignal, Asleep,
                     Queued, FreshToseq, DestroyOrder, WaitPCs, Modes,
                     Timed, Results
  <1>4. ASSUME NEW t \in Tasks, Early(t) PROVE EventInv'
    <2>1. CASE Return(t, "EIDRM")
      BY <1>4, <2>1, <1>0, ReturnKeeps DEF Early, Results
    <2>2. CASE Return(t, "EINTR")
      BY <1>4, <2>2, <1>0, ReturnKeeps DEF Early, Results
    <2>3. CASE (mode[t] = "wait" => ~destroyed /\ t \notin sig)
               /\ at' = [at EXCEPT ![t] = "claim"] /\ UNCHANGED <<mode, ret, kernelVars>>
      BY <1>4, <2>3, SMT DEF Early, EventInv, EventTypeOK, NoLostSignal,
                             Asleep, Queued, FreshToseq, DestroyOrder,
                             WaitPCs, Modes, Timed, Results
    <2> QED BY <1>4, <2>1, <2>2, <2>3 DEF Early
  <1>5. ASSUME NEW t \in Tasks, Claim(t) PROVE EventInv'
    <2>1. CASE pending /\ pending' = FALSE /\ Return(t, "ok")
      BY <1>5, <2>1, <1>0, ReturnKeeps DEF Claim, Results
    <2>2. CASE ~pending
      BY <1>5, <2>2, SMT DEF Claim, EventInv, EventTypeOK, NoLostSignal,
                             Asleep, Queued, FreshToseq, DestroyOrder,
                             WaitPCs, Modes, Timed, Results
    <2> QED BY <1>5, <2>1, <2>2 DEF Claim
  <1>6. ASSUME NEW t \in Tasks, Schedule(t) PROVE EventInv'
    BY <1>6, SMT DEF Schedule, EventInv, EventTypeOK, NoLostSignal, Asleep,
                     Queued, FreshToseq, DestroyOrder, WaitPCs, Modes,
                     Timed, Results
  <1>7. ASSUME NEW t \in Tasks, CheckAgain(t) PROVE EventInv'
    <2>1. CASE \E r \in Results : Leave(t, r)
      BY <1>7, <2>1, <1>0, LeaveKeeps DEF CheckAgain
    <2>2. CASE at' = [at EXCEPT ![t] = "clear"] /\ UNCHANGED <<mode, ret, kernelVars>>
      BY <1>7, <2>2, SMT DEF CheckAgain, EventInv, EventTypeOK, NoLostSignal,
                             Asleep, Queued, FreshToseq, DestroyOrder,
                             WaitPCs, Modes, Timed, Results
    <2> QED BY <1>7, <2>1, <2>2 DEF CheckAgain, Results
  <1>8. ASSUME NEW t \in Tasks, ClearAndLeave(t) PROVE EventInv'
    BY <1>8, <1>0, LeaveKeeps DEF ClearAndLeave, Results
  <1>9. ASSUME NEW t \in Tasks, Cancel(t) PROVE EventInv'
    <2>1. ret[t] \in Results
      BY DEF EventInv, EventTypeOK
    <2> QED BY <1>9, <2>1, <1>0, ReturnKeeps DEF Cancel
  <1>10. ASSUME NEW t \in Tasks, KernelSignal(t) PROVE EventInv'
    BY <1>10, SMT DEF KernelSignal, EventInv, EventTypeOK, NoLostSignal,
                      Asleep, Queued, FreshToseq, DestroyOrder,
                      WaitPCs, Modes, Timed, Results
  <1>11. ASSUME NEW t \in Tasks, Expire(t) PROVE EventInv'
    <2>1. EventTypeOK' /\ Queued' /\ DestroyOrder'
      BY <1>11, SMT DEF Expire, EventInv, EventTypeOK, Queued, DestroyOrder
    <2>2. NoLostSignal'
      BY <1>11, SMT DEF Expire, EventInv, NoLostSignal, Asleep
    <2>3. FreshToseq'
      BY <1>11, SMT DEF Expire, EventInv, EventTypeOK, FreshToseq, Timed
    <2> QED BY <2>1, <2>2, <2>3 DEF EventInv
  <1>12. CASE EventSignal
    BY <1>12, EventAssumption, SMT DEF EventSignal, EventInv, EventTypeOK,
                      NoLostSignal, Asleep, Queued, FreshToseq,
                      DestroyOrder, WaitPCs, Modes, Timed, Results
  <1>13. CASE SignalWake
    <2>1. signalling' \in 0..MaxSignallers
      BY <1>13, EventAssumption DEF SignalWake, EventInv, EventTypeOK
    <2>2. destroying' \in BOOLEAN /\ (destroying' => destroying)
      BY <1>13 DEF SignalWake, EventInv, EventTypeOK
    <2> QED BY <1>13, <2>1, <2>2, WakeKeeps DEF SignalWake
  <1>14. CASE Pulse
    BY <1>14, WakeKeeps DEF Pulse, EventInv, EventTypeOK
  <1>15. CASE EventClear
    <2>1. EventTypeOK'
      BY <1>15 DEF EventClear, EventInv, EventTypeOK
    <2>2. NoLostSignal' /\ Queued' /\ FreshToseq' /\ DestroyOrder'
      BY <1>15, SMT DEF EventClear, EventInv, NoLostSignal, Asleep,
                        Queued, FreshToseq, DestroyOrder
    <2> QED BY <2>1, <2>2 DEF EventInv
  <1>16. CASE EventDestroy
    BY <1>16, SMT DEF EventDestroy, EventInv, EventTypeOK, NoLostSignal, Asleep,
                      Queued, FreshToseq, DestroyOrder, WaitPCs,
                      Modes, Timed, Results
  <1>17. CASE DestroyWake
    BY <1>17, WakeKeeps DEF DestroyWake, EventInv, EventTypeOK
  <1>18. CASE UNCHANGED eventVars
    BY <1>18, SMT DEF eventVars, EventInv, EventTypeOK, NoLostSignal, Asleep,
                      Queued, FreshToseq, DestroyOrder, WaitPCs,
                      Modes, Timed, Results
  <1> QED
    BY <1>1, <1>2, <1>3, <1>4, <1>5, <1>6, <1>7, <1>8, <1>9, <1>10, <1>11, <1>12,
       <1>13, <1>14, <1>15, <1>16, <1>17, <1>18 DEF EventNext, Run

(* The inductive invariant holds throughout. *)
THEOREM EventInvariance == EventSpec => []EventInv
  BY EventStart, EventStep, PTL DEF EventSpec

(* A set PENDING bit never leaves a sleeper behind without a wake-up on    *)
(* its way, however many tasks wait and however many contexts signal.      *)
THEOREM SignalsNotLost == EventSpec => []NoLostSignal
  <1>1. EventInv => NoLostSignal
    BY DEF EventInv
  <1> QED BY <1>1, EventInvariance, PTL

(* After rtdm_event_destroy only timed waits can be asleep. *)
THEOREM DestroyIsHeard == EventSpec => []DestroyHeard
  <1>1. EventInv => DestroyHeard
    BY SMT DEF EventInv, DestroyHeard, DestroyOrder, FreshToseq, EventTypeOK,
               Asleep, Modes, Timed
  <1> QED BY <1>1, EventInvariance, PTL

(* A timed sleeper has a live timer unless its toseq fired in an earlier   *)
(* wait of the sequence.                                                   *)
THEOREM SleepIsGuarded == EventSpec => []TimerGuardsSleep
  <1>1. EventInv => TimerGuardsSleep
    BY SMT DEF EventInv, TimerGuardsSleep, FreshToseq, EventTypeOK, Asleep,
               Modes, Timed
  <1> QED BY <1>1, EventInvariance, PTL

-----------------------------------------------------------------------------
(* A device and its files.                                                 *)

(* The count is exact. *)
DeviceInv == DeviceTypeOK /\ RefExact

(* The set of referencing files is finite. *)
LEMMA ReferencedFinite == IsFiniteSet(Referenced)
  BY FS_Subset, DeviceAssumption DEF Referenced

(* The same in the next state *)
LEMMA ReferencedFinitePrime == IsFiniteSet(Referenced')
  BY FS_Subset, DeviceAssumption DEF Referenced

(* A file that gets its reference makes the set one larger ... *)
LEMMA ReferencedGains ==
    ASSUME DeviceTypeOK, NEW f \in Files,
           f \notin Referenced,
           file' = [file EXCEPT ![f] = "opening"]
    PROVE  Cardinality(Referenced') = Cardinality(Referenced) + 1
  <1>1. Referenced' = Referenced \cup {f}
    BY DEF Referenced, DeviceTypeOK
  <1> QED BY <1>1, ReferencedFinite, FS_AddElement

(* ... and one that gives it up, or leaks it, makes it one smaller. *)
LEMMA ReferencedLoses ==
    ASSUME DeviceTypeOK, NEW f \in Files,
           f \in Referenced,
           file' = [file EXCEPT ![f] = "none"]
    PROVE  /\ Cardinality(Referenced') = Cardinality(Referenced) - 1
           /\ Cardinality(Referenced) \in Nat /\ Cardinality(Referenced) > 0
  <1>1. Referenced' = Referenced \ {f}
    BY DEF Referenced, DeviceTypeOK
  <1>2. Cardinality(Referenced) \in Nat
    BY ReferencedFinite, FS_CardinalityType
  <1>3. Cardinality(Referenced') = Cardinality(Referenced) - 1
    BY <1>1, ReferencedFinite, FS_RemoveElement
  <1>4. Cardinality(Referenced') \in Nat
    BY ReferencedFinitePrime, FS_CardinalityType
  <1> QED BY <1>2, <1>3, <1>4

(* A change between two referencing states leaves the set alone. *)
LEMMA ReferencedStays ==
    ASSUME DeviceTypeOK, NEW f \in Files,
           f \in Referenced, NEW s,
           s \in {"open", "closing"}, file' = [file EXCEPT ![f] = s]
    PROVE  Referenced' = Referenced
  BY DEF Referenced, DeviceTypeOK

(* The driver has a device and no file. *)
LEMMA DeviceStart == DeviceInit => DeviceInv
  <1> SUFFICES ASSUME DeviceInit PROVE DeviceInv
    OBVIOUS
  <1>0. leaks \in 0..MaxLeaks /\ refcount \in Nat
    BY DeviceAssumption DEF DeviceInit
  <1>1. DeviceTypeOK
    BY <1>0, Zenon DEF DeviceInit, DeviceTypeOK, FileStates, DriverStates
  <1>2. Referenced = {}
    BY DEF DeviceInit, Referenced
  <1>3. RefExact
    BY <1>2, FS_EmptySet DEF RefExact, DeviceInit
  <1> QED BY <1>1, <1>3 DEF DeviceInv

(* Every step keeps the count exact. *)
LEMMA DeviceStep == DeviceInv /\ [DeviceNext]_deviceVars => DeviceInv'
  <1> SUFFICES ASSUME DeviceInv, [DeviceNext]_deviceVars PROVE DeviceInv'
    OBVIOUS
  <1> USE DEF FileStates, DriverStates
  <1>c. Cardinality(Referenced) \in Nat
    BY ReferencedFinite, FS_CardinalityType
  <1>1. ASSUME NEW f \in Files, Lookup(f) PROVE DeviceInv'
    <2>1. Referenced' = Referenced
      BY <1>1 DEF Lookup, Referenced, DeviceInv, DeviceTypeOK
    <2> QED
      BY <1>1, <2>1 DEF Lookup, DeviceInv, DeviceTypeOK, RefExact
  <1>2. ASSUME NEW f \in Files, Reference(f) PROVE DeviceInv'
    <2>1. Cardinality(Referenced') = Cardinality(Referenced) + 1
      BY <1>2, ReferencedGains DEF Reference, Referenced, DeviceInv
    <2>2. RefExact'
      BY <1>2, <2>1, <1>c DEF RefExact, Reference, DeviceInv,
                                                           DeviceTypeOK
    <2>3. DeviceTypeOK'
      BY <1>2 DEF Reference, DeviceInv, DeviceTypeOK
    <2> QED BY <2>2, <2>3 DEF DeviceInv
  <1>3. ASSUME NEW f \in Files, OpenSucceeds(f) \/ Release(f) PROVE DeviceInv'
    <2>1. Referenced' = Referenced
      BY <1>3, ReferencedStays DEF OpenSucceeds, Release, Referenced,
                                   DeviceInv
    <2> QED
      BY <1>3, <2>1 DEF OpenSucceeds, Release, DeviceInv, DeviceTypeOK,
                        RefExact
  <1>4. ASSUME NEW f \in Files, OpenFails(f) \/ ReleaseFails(f) PROVE DeviceInv'
    <2>1. /\ Cardinality(Referenced') = Cardinality(Referenced) - 1
          /\ Cardinality(Referenced) > 0
      BY <1>4, ReferencedLoses DEF OpenFails, ReleaseFails, Referenced,
                                   DeviceInv
    <2>2. leaks' = leaks + 1 /\ refcount' = refcount /\ leaks \in Nat /\ leaks' \in 0..MaxLeaks
      BY <1>4, DeviceAssumption DEF OpenFails, ReleaseFails, DeviceInv, DeviceTypeOK
    <2>3. RefExact'
      BY <2>1, <2>2, <1>c DEF RefExact, DeviceInv
    <2>4. DeviceTypeOK'
      BY <1>4, <2>2 DEF OpenFails, ReleaseFails, DeviceInv, DeviceTypeOK
    <2> QED BY <2>3, <2>4 DEF DeviceInv
  <1>5. ASSUME NEW f \in Files, ReleaseDone(f) PROVE DeviceInv'
    <2>1. /\ Cardinality(Referenced') = Cardinality(Referenced) - 1
          /\ Cardinality(Referenced) > 0
      BY <1>5, ReferencedLoses DEF ReleaseDone, Referenced, DeviceInv
    <2>2. leaks \in Nat
      BY DEF DeviceInv, DeviceTypeOK
    <2>3. RefExact' /\ refcount' \in Nat
      BY <1>5, <2>1, <2>2, <1>c
         DEF RefExact, ReleaseDone, DeviceInv, DeviceTypeOK
    <2>4. DeviceTypeOK'
      BY <1>5, <2>3 DEF ReleaseDone, DeviceInv, DeviceTypeOK
    <2> QED BY <2>3, <2>4 DEF DeviceInv
  <1>6. ASSUME \/ \E err \in RegisterResults : Register(err)
               \/ Unregister \/ Check \/ StillInUse \/ Remove
               \/ UNCHANGED deviceVars
        PROVE  DeviceInv'
    <2>1. refcount' = refcount /\ file' = file /\ leaks' = leaks
      BY <1>6 DEF Register, Unregister, Check, StillInUse, Remove,
                  deviceVars
    <2>2. Referenced' = Referenced /\ RefExact'
      BY <2>1 DEF Referenced, DeviceInv, RefExact
    <2>3. drv' \in DriverStates /\ registered' \in BOOLEAN
      <3>1. CASE \E err \in RegisterResults : Register(err)
        BY <3>1 DEF Register
      <3> QED
        BY <1>6, <3>1, Zenon DEF Unregister, Check, StillInUse,
                                 Remove, deviceVars, DeviceInv, DeviceTypeOK
    <2> QED BY <2>1, <2>2, <2>3 DEF DeviceInv, DeviceTypeOK
  <1> QED BY <1>1, <1>2, <1>3, <1>4, <1>5, <1>6 DEF DeviceNext

(* The inductive invariant. *)
THEOREM DeviceInvariance == DeviceSpec => []DeviceInv
  BY DeviceStart, DeviceStep, PTL DEF DeviceSpec

(* refcount is the number of files in use plus the leaked references, so   *)
(* no release can drop a reference that is not its own.                    *)
THEOREM ReferencesExact == DeviceSpec => []RefExact
  <1>1. DeviceInv => RefExact
    BY DEF DeviceInv
  <1> QED BY <1>1, DeviceInvariance, PTL

(* rtdm_dev_unregister never decides to remove a device that a file uses.  *)
THEOREM RemovesOnlyUnused == DeviceSpec => RemovesUnused
  <1>1. DeviceInv /\ [DeviceNext]_deviceVars =>
           [drv # "remove" /\ drv' = "remove" => Referenced = {}]_deviceVars
    <2> SUFFICES ASSUME DeviceInv, DeviceNext, drv # "remove", drv' = "remove"
                 PROVE  Referenced = {}
      BY DEF deviceVars
    <2>1. Check
      BY DEF DeviceNext, Register, Lookup, Reference, OpenSucceeds,
             OpenFails, Release, ReleaseDone, ReleaseFails,
             Unregister, StillInUse, Remove
    <2>2. ~(refcount > 0)
      BY <2>1 DEF Check
    <2>3. Cardinality(Referenced) \in Nat
      BY ReferencedFinite, FS_CardinalityType
    <2>4. Cardinality(Referenced) = 0
      BY <2>2, <2>3 DEF RefExact, DeviceInv, DeviceTypeOK
    <2> QED BY <2>4, ReferencedFinite, FS_EmptySet
  <1> QED BY <1>1, DeviceInvariance, PTL DEF DeviceSpec, RemovesUnused
=============================================================================
