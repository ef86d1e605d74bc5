# A TLA+ model of RTDM-native

RTDM-native is a port of the Real-Time Driver Model to PREEMPT_RT Linux: a
driver API (semaphores, events, mutexes, tasks, device registration), and
drivers on top of it (RT-Socket-CAN, the 16550A serial driver, test drivers).
This directory models the parts of it that are concurrent, checks them with TLC
on small instances and proves their safety properties with TLAPS. `PROJECT.json` holds
the exact correspondence of definitions and source lines, the runs, the mutants
that show each property can fail, the hazards and the theorems.

## The system

| Component | Source | State | Operations | Hard because |
|---|---|---|---|---|
| semaphore | `rtdm_driver_native.h`, `drvlib.c` | `count`, `sleepers`, wait queue, DESTROY bit | init, down, timeddown, up, destroy | fast path without a lock, slow path under one; trylock, timeouts and signals hand decrements back |
| event | same | PENDING and DESTROY bits, wait queue | init, wait, timedwait, signal, pulse, clear, destroy | no lock at all, only atomic bits and the queue's own lock |
| timeout sequence | same | a timer and the task it wakes | init, used by several timed calls | an expiry between two calls leaves the task pointer NULL |
| mutex, task services | same | an rt_mutex and a bit; kthreads | lock, timedlock, destroy; init, destroy, join | destroyed while held; a thread that starts, is woken, signalled and joined by others |
| device core | `core.c`, `device.c` | registration, `refcount`, open files | register, unregister, open, socket, release | open races unregistration |
| serial driver | `16550A.c` | two rings, counters, error and event words, the interrupt enable register | interrupt, read, write, ioctl | copies outside the lock, sleepers counted by the interrupt handler |
| CAN reception lists | `rtcan_raw.c`, `rtcan_raw_filter.c`, `rtcan_dev.c` | per-device lists of filter entries, per-socket binding | bind, setsockopt, close, (un)register | several sockets and devices, space check before change |
| CAN receive ring | `rtcan_raw.c`, `rtcan_socket.c` | a byte ring and a semaphore per socket | deliver, recvmsg | frames of varying length, peeking, concurrent readers |
| CAN transmission | `rtcan_raw.c`, `rtcan_virt.c` | `tx_sem`, the frame to loop back | sendmsg, set_mode, start_xmit, loopback | the semaphore is re-initialised under its users |
| CAN controllers | `sja1000/`, `mscan/`, `rtcan_raw_dev.c` | controller state, registers | interrupt, set_mode, start_xmit, settings | error states driven by interrupts; mode changes poll the chip with the lock dropped |
| driver modules | `sja1000/`, `mscan/`, `rtcan_virt.c`, `rtcan_module.c`, `16550A.c` | memory, regions, mappings, interrupts, table entries | load, unload | every step may fail, the error exit has to know how far it got |
| test drivers | `testing/` | per-device contexts | ioctls | callers of all of the above |

The drivers interact with the core by calls and callbacks (open, close, read,
write, ioctl handlers in a table), interrupt handlers share state with tasks
under a spinlock and wake them through events and semaphores.

What makes each part correct: a semaphore never admits more than it has permits
and forgets no permit and no sleeper; an event does not lose a signal; a ring
delivers the stream that was put in; a sleeping reader, writer or event waiter
always has somebody who will wake it; a device is removed only when nobody uses
it; a socket hears exactly the devices it is bound to; one sender at a time
reaches a controller, and none waits for a controller that was stopped; a
driver gives back what it took, once. Which code endangers
them is listed under "hazards" in `PROJECT.json`, with the properties that
would notice.

## Modules

| Module | Models | Checked by | Proved in |
|---|---|---|---|
| `RtdmSem` | the semaphore | `RtdmServices.cfg` | `RtdmSemProofs` |
| `CountingSem` | what a counting semaphore promises | (refined by `RtdmSem`) | `RtdmSemProofs` |
| `RtdmEvent` | the event and its timeout sequence | `RtdmEvent.cfg` | `RtdmCoreProofs` |
| `RtdmDevice` | registration, open, release, unregistration | `RtdmServices.cfg`, `RtdmDeviceRace.cfg`, `RtdmDeviceSerial.cfg` | `RtdmCoreProofs` |
| `RtdmTest` | mutex and task services, used by the rtdmtest driver | `DriverModules.cfg` | `RtdmCoreProofs` |
| `Rt16550Rx` | receive side of the serial driver | `Rt16550Rx.cfg` | `Rt16550RxProofs` |
| `Rt16550Tx` | transmit side of the serial driver | `Rt16550Tx.cfg` | `Rt16550TxProofs` |
| `CanRecvList` | CAN reception lists | `CanRecvList.cfg` | `CanRecvListProofs` |
| `CanRing` | a CAN socket's receive ring | `CanRing.cfg` | `CanRingProofs` |
| `CanDev` | a CAN device, its `tx_sem`, the virtual controller | (by `CanTx`) | `CanTxProofs` |
| `CanSja1000`, `CanMscan` | the two controller drivers and their chips | (by `CanTx`) | `CanTxProofs` |
| `CanTx` | sendmsg and device control, composed with the three controllers | `CanTx.cfg`, `CanTxSkb.cfg`, `CanTxOverrun.cfg` | `CanTxProofs` |
| `BoardDrivers` | loading and unloading of nine driver modules | `DriverModules.cfg` | `BoardDriversProofs` |
| `RtdmServices` | `RtdmSem` or `RtdmDevice`, for TLC | `RtdmServices.cfg` | |
| `DriverModules` | `BoardDrivers` or `RtdmTest`, for TLC | `DriverModules.cfg` | |

`RtdmServices` and `DriverModules` put two specifications that share no variable
into one run: the initial state chooses the one that is run, and the other stays in
its initial state.

Variables carry the names of the fields they stand for. Atomicity follows the
code: a section under a spinlock is one action, each atomic instruction outside
one is an action of its own. Operators marked `mutant` are not part of the
specifications; they are faulty variants used to test the properties.

### RtdmSem

`DownFast` and `DownSlow` are the atomic decrement of `rtdm_sem_down` and
`rtdm_sem_timeddown`; below zero the task goes through `CheckDestroy` (the test
of DESTROY, the start of the timer), then `TryFail` (timeout < 0) or `Enter`,
the locked section that queues it and takes the first `Turn` of the loop.
`Turn` is the body of the loop: destroyed, given up, permit taken, or back to
sleep. `Schedule` and `Retry` are the sleep and the next turn. `Up`/`UpWake`
and `Destroy`/`DestroyWake` are two steps each, as in the code.

`_rtdm_sem_down` is `_rtdm_sem_timeddown` without timer; one model serves both.
`WakeUp` is the kernel's wake-up of exclusive waiters: it stops at the first
task that really slept. `add_wait_queue_exclusive` is called with the queue's
lock held, which the source itself marks "XXX?"; it is modelled as the tail
insertion it is meant to be. A `hrtimer_start` with the remaining time as an
absolute expiry (also "XXX?") fires at once; the model lets a started timer
fire at any moment, which covers this.

Three behaviours of the code are kept although they may surprise: a
non-blocking down can fail while another call is on its way through the slow
path, even if a permit is there; a down on a destroyed semaphore succeeds while
permits last; the early -EIDRM keeps its decrement (`leaked`).

### RtdmEvent

Each access to the bits is a step, so signals, timers, kernel signals and
destroy fall between any two. Waiters are non-exclusive: `rtdm_event_signal`
wakes all of them, and each clears PENDING and succeeds. `Early` keeps the
missing `else` of `_rtdm_event_timedwait` (`drvlib.c:161`): a timed wait that
found DESTROY or a signal before sleeping forgets it; it therefore comes back
only when its timer fires. A caller's timeout sequence is used again only
after a success, as `rtdmtest` and the serial driver do; if its timer fired after the test
of `toseq->task`, the next wait sleeps without a timeout, which
`TimerGuardsSleep` states as the exception. `Sequencers` are the tasks that
call with such a sequence.

### RtdmDevice

One device and its files. `Lookup` is the kernel finding the device, `Reference`
the increment at the start of `_rtdm_open`; the window between is where
unregistration may fall. Opens and closes that fail keep their reference
(`leaks`), as the code does. What the driver makes of the result of
registration depends on which one it is (`Driver`): `rtdmtest.c` takes a negative
result for a failure, `16550A.c` every result but zero, and a named device
returns its major number. The serial driver therefore frees a device that stays
registered; the run `device_serial` follows an open into it. `refcount` lies in
that memory; the model goes on as if its contents stayed.

### Rt16550Rx, Rt16550Tx

The halves share only the interrupt enable register and the event mask; what
one half sees of the other is an interrupt at any time. Bytes are numbered, so
"the ring holds the stream" can be said. The locks `in_lock`, `ioc_event_lock`
(a second caller gets -EBUSY) and `out_lock` (an rt_mutex), and the events, are
used by their contract. `in_npend` is unsigned; a negative value stands for one
that wrapped after a purge during a copy. Modem events cannot happen: no code
enables their interrupt. The -EBADF paths for a device closed under a sleeper
cannot be taken either, since the kernel releases a file only after its last
call has returned; for the same reason `Close` needs all callers idle. The
timestamp history is a second ring beside `in_buf`: switching it on swaps in
memory that says nothing of the characters already received, and WAIT_EVENT
reports that memory for them (`16550A.c:726`). Not modelled: the divisor and
modem control registers, the values read and write return. One transfer is
assumed to ask for no more than the user buffer holds. `RingHoldsInput` also
says that what a read copies is what it removes, and that a timestamp belongs to
its character.

### CanRecvList

`recv_list` and `empty_list` of each device are sequences of entry numbers;
a filter list is represented by its length, since contents do not matter to the
lists. `Fits` is the space check, `Linked` and `Unlinked` the loops of
`rtcan_raw_add_filter` and `rtcan_raw_remove_filter` over the devices. A list walk
without an end test that leaves the list sets `fault` and stops the system.
setsockopt is two actions, because it reads the socket's interface before the
lock. `overtaken` records that a device was registered under a binding that
covers it, or that setsockopt used an old interface; from then on only
`ListsPartition` is promised (a search for entries that are not there runs off
the list). Registration is atomic, although it does not take
the list lock. Memory of filter lists that the code loses (close of an unbound
socket, replacement by an empty list) is not tracked.

### CanRing

A byte of `recv_buf` is written as "byte i of stored frame f"; a reader finds
the next frame only from the header bytes it sees, so a frame whose stored
length is not the length recvmsg computes displaces every later read. Two cases
of this are in the code and marked by `astray`: a timestamp stored in the ring and read by
a caller without a control buffer, and a frame from sendmsg with a DLC above 8,
which is copied unclamped. The ring may receive several copies of one frame,
one per matching entry: `Rcv` starts the walk over the reception list and each
`Deliver` stores one copy. The walk holds `rtcan_socket_lock`, so a read that
has its permit, or a close, waits for its end; taking a permit of `recv_sem`
and switching timestamps on or off need no lock and may fall between two
copies. `recv_sem` is used by the contract of `CountingSem`.
Several counters (`rx_buf_full`, match counts) are left out.

### CanTx, CanDev, CanSja1000, CanMscan

`CanDev` defines the device record and `tx_sem` on it; the chip modules are
operators from device records to device records, one per section the driver runs
under `device_lock`, and the chip's own steps; `CanTx` is the state machine that
interleaves them with senders and two control tasks. `tx_sem` is modelled as in
`RtdmSem`, one step per section, because here it is destroyed and
re-initialised under its users: `Unlink` lets a waiter left behind by
`rtdm_sem_init` write its stale neighbours into the new queue head.

What the hardware is assumed to do, from how the drivers use it: an SJA1000
interrupt bit latches when its source is enabled and is cleared by reading the register or by reset mode; bus-off
puts the chip in reset mode and gives up the frame, with its error interrupt
pending and perhaps the bus error that led there; a reset request is obeyed
at any time or, within the 50 reads of the driver, not at all. The MSCAN keeps
its flags (a change of state, an overrun, a wake-up) until they are
acknowledged, its TX interrupt is pending while enabled and the buffer empty, and
it acknowledges mode requests with any delay.

Nothing but `device_lock` serialises device ioctls, and a mode change drops it while it
polls. `Overlap` lets a second control task in at such a point and hands the
turn back and forth: `ctl` is the task that has its turn, `parked` the other one.

`upset` marks the points where `tx_sem` and the permits in use come apart in
this code: a start that re-initialises `tx_sem` with senders inside or a frame
under way; an SJA1000 bus-off dropped together with an unwanted bus error; an
SJA1000 stop that fails; an SJA1000 frame sent while its interrupts are off; an MSCAN sleep with a frame
pending; an MSCAN send between the initialisation of `tx_sem` and the new
state; an MSCAN state stored by the interrupt handler across a mode change; an
MSCAN bus-off acknowledged together with an overrun; a second ioctl while one
polls. The passing run does not look
behind such a point (constraint `Settled`). Each point
stands for a case in which TLC found `OnePermit` or `StopWakesAll` violated,
and is listed among the hazards in `PROJECT.json`. `can_tx_skb` goes on past
them; `can_tx_overrun` shows one in which a bus-off is lost, with a property
(`BusOffWakesAll`) that makes no exception for it.

`StopWakesAll` speaks of the state of the device and of the chip, not of the
semaphore: whoever sleeps is woken while the device is stopped or bus-off,
and whenever the chip is bus-off with nothing left to report (`OffTold`). A
handler that overlooks a bus-off therefore violates it.

One permit is shared by one device's senders, so one device with two senders is
enough; the delivery of frames to sockets is `CanRing`. Left out: the address checks of sendmsg,
`tx_wait` (a list of senders to be told when their socket closes, which the
kernel does not do under them), the bit-time arithmetic of
`rtcan_calc_bit_time`, and the results of ioctls. A rate that cannot be had is
not refused: the code goes on with an uninitialised bit time.

### BoardDrivers

Each driver's init function is a script of resources with, for every step that
may fail, what its error exit gives back; `Attempt` enumerates the outcomes.
`k.wrong` collects what was given back or accessed without being held. Users
start and stop devices meanwhile, also those that an init loop has registered
before it fails. The exit functions go through the devices one by one;
`ExitDevices` takes them side by side, since no device's exit touches anything of
another's. `KnownLeaks` names what the code leaves behind; the property
is that nothing else is: the ISA driver never releases its I/O region (and so
cannot be loaded twice), the 16550A driver takes the major number returned by
`rtdm_dev_register` for an error and frees a registered device, and so on.
`KnownWrong` names what goes wrong within one load or unload: a `/proc` directory
removed twice, the double unmapping in the IXXAT driver's error exit, and the
reset of its slave channel, whose address gets the channel's offset twice and
lies outside the mapping. The kernel takes a positive result of an init function
for success: the 1 that `rtcan_mscan_init` makes of every error, and the major
number from `__16550A_init`. Such a module is loaded with everything cleaned up
(`pc = "spent"`); `ExitAgain` is its rmmod, where the exit function finds
the same device pointers, or `pnp_registered`, a second time. `GivenBackOnce`
excepts what this second exit does wrong (`pc = "twice"`), for these two drivers
only. The PEAK PCI
driver writes through a null pointer for a single-channel board (`pc = "oops"`).
`ghosts` are devices freed although `rtcan_dev_unregister` answered -EBUSY; the
model does not load again after that. Not modelled: register access functions,
the contents of `/proc` files, GPIO configuration.

### RtdmTest

The rt_mutex is external. `Retest` keeps it locked when it finds DESTROY, as
the code does; a second task blocked in `rtdm_mutex_lock` then never comes
back, so nothing is promised to waiters of a destroyed mutex.

Several files may be open at a time. Each has a context with a mutex of its own;
`rtdm_lock_count` and the task structure are static. A context is given by the
set of its callers. `rtdm_lock_count` is incremented in two steps. A mutex keeps
the callers of its file apart (`OneAtATime`), but not those of two files, and every
open resets the count. That the count is the number of passes (`LockCountExact`)
is therefore said of a file that was opened while no other was open, until
another one is (`sole`).

`RtdmtestExit` is the first half of `__rtdmtest_exit`, the destroy and join of the task;
`Unload` is `rtdm_dev_unregister`, which waits until no file is open. Nothing pins
the module: files are used and opened all the while, and a thread created after
the join (`late`) may outlive the module. What the join does achieve is
`ExitJoinsEarlier`. `clash` marks task ioctls that overlap a create, or a create
with a thread alive, after which the model stops. An overlapping
destroy and join, a close without a destroy, and an exit at any
moment are all in the model.

## Runs

| Run | Instance | Shows |
|---|---|---|
| `services` | semaphore: 2 tasks, initial value 1, at most 2 permits available, 2 concurrent ups, 1 lost decrement; device: 3 files, 2 failures | type, conservation of permits, admission, queue, wake-ups; destroy and timeouts end a down; a permit reaches a waiter; refinement of `CountingSem`; exact reference count, removal only when unused, polling ends |
| `event` | 2 tasks, all four kinds of wait, one of the tasks with a timeout sequence, 1 signaller | no signal is slept through, destroy is heard, timers guard timed sleeps; signal, timer and destroy end a wait |
| `serial_tx` | 2 writers, ring of 2, writes of up to 3 bytes, 4 bytes and one more write, 1 mask change | stream in the ring, transmitter armed, blocked writer released |
| `serial_rx` | ring of 2, bursts of up to 2, 3 characters per open, reads of up to 3, one purge, masks with and without RXPEND | input and timestamps in order, copy equals removal, reader and event waiter not stranded |
| `can_lists` | 2 devices, 3 entries each, 2 sockets, lists of up to 2 filters, one setsockopt under way | lists partition the entries, bindings exact, walks end, failures change nothing |
| `can_ring` | 2 readers, a ring of 7 bytes, headers of 2, a payload of at most 1, DLCs 1 and 2, timestamps of 1, up to 2 copies of a frame | whole frames in order, one permit per frame |
| `can_tx` | 2 senders, one with loopback, three controllers, all ioctls, 2 control tasks | one permit, no sender sleeps on through a stop or a bus-off, settings keep a controller running |
| `modules` | nine drivers, up to 2 devices each; rtdmtest: a file with 2 callers, another file that is opened and closed, 2 threads | error exits and unloads give back everything else, once; a mutex lets one caller in, the lock count is exact, joins return, the exit waits for earlier threads |
| `device_race` | 1 file | violation: an open between the test of the count and the removal |
| `device_serial` | 1 file, the 16550A driver | violation: a freed device that stays registered is opened |
| `can_tx_skb` | as `can_tx` | violation: the TX skb is still in use |
| `can_tx_overrun` | as `can_tx`, MSCAN | violation: a bus-off lost with an overrun leaves a sender asleep |

The runs that end in a violation each document a disagreement between the code
and what it says of itself, quoted under "findings". Other disagreements were
met while modelling; the modules follow the code, and no run is kept for them:

- `16550A.c:402` clears the transmitter interrupt where its comment says modem
  status; `TransmitterArmed` and `WriterReleased` exclude writes stranded by it.
- `16550A.c:826` overwrites `saved_errors`, which `rtserial.h:384` says are kept
  until GET_STATUS.
- `rtcan_raw_filter.c:227` searches for an entry that need not be there, after a
  device was registered under a binding to all interfaces.
- `rtcan_raw.c:360` frees the marker of an empty filter list.
- `rtcan_raw.c:630` leaves an unread timestamp in the ring, which `rtcan.h:150`
  says is discarded.
- `rtcan_raw_dev.c:172` drops the -EDOM that `rtcan.h:710` documents.
- `rtcan_sja1000.c:300` drops a bus-off that comes with an unwanted bus error:
  senders sleep on, where `rtcan.h:198` says that they are woken. `StopWakesAll`
  ends there (`upset`); `BusOffWakesAll` is violated for this chip, too.
- `rtcan_mscan.c:858` makes 1 of every error, so the module stays loaded, and rmmod
  unregisters and frees its devices again, where `rtcan_dev.c:267` asserts that a
  device is registered. `GivenBackOnce` excepts this second exit.
- `rtdmtest.c:88` resets a count that other open files increment under mutexes
  of their own, and the example program `rtdmtest.c:459` prints it next to the
  number of passes it is to equal. `LockCountExact` excepts this (`sole`).
- `rtdmtest.c:316` joins the task before it waits for open files: one of these may
  create a thread that outlives the module. `ExitJoinsEarlier` excepts it (`late`).
- `drvlib.c:106` returns with the rt_mutex locked when it finds the mutex
  destroyed, so that a second caller blocked on it does not come back.

**Bounds.** Every bound is a named constant that appears in a guard. Two tasks
suffice for a wake-up absorbed by the wrong one, a trylock beside a sleeper and a
destroy beside both; `MaxLeaked` and `MaxDebt` only limit calls on a destroyed semaphore, and
the theorems hold for any number of tasks. Rings of two slots wrap, fill up, and
see a write or read larger than the ring. Three entries for two
sockets with up to two filters make the space check fail for one socket while
the other could still grow. `GoOn = FALSE` ends a behaviour of `CanRecvList`
once a binding was overtaken. The CAN ring of 7 bytes holds two frames
with payload or three without, so that frames wrap at every position and one just fits or just does
not; a DLC of 2 with a payload limit of 1 stands for the DLCs 9 to 15 of the
bus; soft frames with such a DLC lead astray at once and are not enumerated. Frame numbers
(`Seqs`) and pass counts (`Wrap`) are kept modulo a small number: two
neighbouring frames, or two passes, are told apart. The second file in the rtdmtest
part of `modules` has no callers: its open is what resets the count, and callers of
two files never meet in a mutex; the theorems hold for callers of any number of
files. The second thread is one that is created after another one ended, or
after the exit began.
Three things stop the search: `InStep` and `Settled` (see above), and in `RtdmTest` a clash
or the unload. Two devices per driver let the second one fail after the first has been set up,
which the double exit of the MSCAN driver needs.

**Deadlock** is checked, except where the system comes to rest by
design: a destroyed semaphore with all decrements lost, a device that is gone,
a crashed kernel, a driver that cannot be loaded any more. `RtdmServices` and
`DriverModules` have steps that change nothing for these cases (`SemOver`,
`DeviceOver`, `BoardsOver`), so a deadlock anywhere else is reported.

**Fairness** is weak, for steps the kernel takes by itself: a runnable task
runs, a call that has set a bit or incremented a counter gets to its wake-up, a
started timer fires, an unmasked empty transmitter interrupts, the module's
exit function goes on. None is assumed for callers: nobody has to signal, up,
close or destroy. `PermitReachesWaiter` needs one more proviso: that now and
then no task is between decrement and lock. Without it an endless stream of
callers that time out hides a permit behind their decrements.

Type invariants are defined in every module with state of some complexity; the
one of `RtdmSem` is also a property of its run, because that `sleepers` never
falls below zero is not obvious there, and the ones of the other modules with
proofs are parts of their inductive invariants.

## Proofs

`RtdmSemProofs` proves, for every set of tasks, initial value and bound, the type
invariant, conservation, admission, the exactness of the queue and the absence
of lost wake-ups, and that `RtdmSem` implements `CountingSem`. The inductive
invariant is `TypeOK`, `Conservation`, `QueueExact` and `LiveInv`. Conservation
alone does not give admission: a task takes a permit if `count + sleepers - 1`
is not negative, and that this is paid for follows from the accounting of all
decrements in flight. `LiveInv` says that, while the semaphore lives, `sleepers`
stands for at most one task and that waiters nobody is about to wake keep
`count` negative, so that the next up takes the waking branch. The lemmas say
what `WakeUp` and `Dequeue` do to the queue and how the set of tasks on their
way to the lock changes in size by each action. The only assumption is
`SemAssumption`: a finite set of tasks and natural bounds.

`RtdmCoreProofs` has three parts, one for each of the modules it extends, which
have no name in common (`TestSpec`, `EventSpec`, `DeviceSpec`); a
theorem about one says nothing of the variables of the others.

- The mutex and the tasks: `OneAtATime`, `LockCountExact` and `ExitJoinsEarlier` for any
  number of files, callers and threads, from `RtdmTestAssumption` (no caller uses two
  files, the names of callers, threads and the exit do not overlap). None is
  inductive. The first needs that, until the mutex of a file is destroyed, every caller
  past its lock is its owner (`Excludes`), and that a closed file has no caller inside (`ClosedIsIdle`),
  because opening re-initialises the mutex. The second needs besides that a
  context opened alone stays the only one open (`Sole`), and that the copy of
  the count in the hands of the mutex's owner is current (`Current`), because the
  increment is a load and a store. The third needs that, unless task ioctls
  clashed, there is at most one thread, it is either awaited by its creator or
  marked in the task structure, and `stopped` is clear from its first step on,
  so that the join in the exit cannot pass it by (`ThreadKnown`); and that no
  create is under way while the exit joins (`ExitAlone`).
- The event: `NoLostSignal`, `DestroyHeard` and `TimerGuardsSleep` from the
  invariant made of the type and `Queued` (a task in the sleeping state is on the
  queue, so a wake-up reaches it), `FreshToseq` and `DestroyOrder`. It rests on
  `EventAssumption`.
- The device: `RefExact` and the action property `RemovesUnused`, from
  `DeviceAssumption`, for either driver. `UnusedWhenGone` and `UnusedWhenFailed`
  are not provable: their runs show why.

`Rt16550TxProofs` proves `RingHoldsStream` and `TransmitterArmed` for any number
of writers and any size of ring, FIFO and write, from `TxAssumption`. A write
chooses a block under the lock, copies it without, and commits it under the lock
again; what makes this right is what the invariant adds. `Locked`: the holder of
`out_lock` is the one writer past it, so nobody else moves `out_tail`;
`BlockFits`: the block still fits, because the interrupt handler only makes
room (`RoomStays` states it as a result), and it still belongs at `out_tail`
unless a purge came between; `CopiedFollows`: the bytes copied so far continue
the stream. `ClosedIsIdle` is for reopening. Arithmetic modulo the ring's size
is in a few lemmas, so that the steps need none.

`Rt16550RxProofs` proves `RingHoldsInput`, `ReaderNotStranded` and
`EventNotMissed` for any size of ring, from `RxAssumption`. `BlockTaken` is the
reader's counterpart of `BlockFits`: until an overrun or a purge during the copy
the block lies at `in_head` and has been received; it also shows that `in_npend`
cannot wrap but by the commit of a read, and `TypeCorrect` that it then wraps by no
more than the size of the ring. `WaitBounded` bounds `in_nwait` by the bytes still
asked for.

`CanRecvListProofs` proves `ListsPartition`, `BindingExact`, `WalksEnd` and the
action property `EntriesFollowBinding` for any number of devices, entries,
sockets and filters, from `RecvListAssumption`. They are consequences of one
invariant: the lists of every device, registered or not, are well formed
(`AllWellFormed`: they have as many links as there are entries and hold every
entry, so each once), and, until a binding is overtaken, a bound socket has its
entries in one run of each `recv_list` it covers, and no other entries
(`Bindings`). The code relies on the run when it searches the first entry and
unlinks as many as the socket has filters. `Linked` and `Unlinked` are shown to keep lists
well formed, to add or remove exactly one run and to leave other sockets' runs
in one piece. Well-formedness survives an overtaken binding. `NoCrashInWalk` is
the consequence: `fault = "runaway"` needs an overtaken binding. `EntriesKept`
follows a socket's entries, in order, through the shifts that other sockets'
calls cause, and through its own bind to what it is already bound to, where the
entries go back to the head of `empty_list` and are taken from there again.

`CanRingProofs` proves `RingHoldsFrames` and `PermitPerFrame` for any number of
readers, any frames, any size of ring and any number of copies, from
`CanRingAssumption`. The layout of the ring is the function `Offsets`, recursive
in the frame's number. The library's induction theorems cannot be used; a
least element of the set of counterexamples takes their place (`LeastElement`),
first to show that a layout exists and is unique, then for what appending and
removing a frame do to it. `StoredHeld` and `ReadHeld` are the two
halves of the argument: a frame stored behind the others overwrites none of
them, across the wrap too, and a reader that finds the frame's header at
`recv_head` computes the length that was stored. The second needs `Measured`,
which relates the DLC and RTR bits of every frame in the ring to its payload;
it holds for what the controllers deliver because they clamp the DLC, and
excepts the long frames of sendmsg. `PermitPerFrame` holds even after a read
went astray; with it no reader past `recv_sem` finds the ring empty
(`NoEmptyRead`).

`CanTxProofs` proves `OnePermit`, `StopWakesAll` and the action property
`SettingsKeepRunning` for any finite set of senders and any of the three
controllers, from `CanTxAssumption`. The first two hold up to the points marked
`upset`, the third up to the first overlap of two ioctls. `StopWakesAll` takes two
arguments. One is about the semaphore: a sleeper is in the queue of `tx_sem`
(`AsleepQueued`), and once the semaphore is destroyed every task in the queue has been woken,
one that was entering it meanwhile too (`GoneWakes`). The other is that the
semaphore is destroyed whenever the device is stopped or bus-off (`GoneExact`) and
whenever the chip has no bus-off left to report (`SjaBusOff` and `SjaExact`, `MscanOff`): no pass of an
interrupt handler takes the report off the chip without acting on it, unless
`upset` says so. `OnePermit` speaks of an operating
controller; to carry it through stops, sleeps and bus-off the invariant says when
the semaphore exists at all (`GoneExact`: while the controller is neither stopped
nor bus-off, save that the MSCAN driver initialises it early), that the free,
held and travelling permits together are one and that a task on its way to the
lock never makes the semaphore owe one (`Permits`), and, chip by chip, that a
frame in the controller still has the interrupt to come that gives its permit
back (`SjaExact`, `MscanExact`). `SjaExact` is where the drivers' order of
register accesses matters: in reset mode nothing but the bus-off interrupt may be
pending, otherwise a late TX interrupt would release a permit twice.
`SettingsKeepRunning` needs only `CtlOfChip` and `SjaBusOff`: the restart after a
setting finds the controller stopped, and a stop that fails leaves a
controller that cannot have gone bus-off, because bus-off sets the very reset bit
the stop polls. `ParkedOfChip` says of the second task what `CtlOfChip` says of
the first; `FullInv` is all of it.

`BoardDriversProofs` proves `NothingElseHeld`, `GivenBackOnce` and `TableBacked`
for any subset of the nine drivers and any number of devices, from
`BoardDriversAssumption`. While a driver loads, the invariant knows exactly what
is held: everything of the devices already set up (`HeldAll`), and nothing but
that, the board, the known leaks and the entries of busy devices (`HeldOnly`).
Neither half does alone: error exits give back by name, so "nothing else is held"
afterwards needs an upper bound before, and "nothing is given back twice" a lower
one. The argument goes in three steps. Every script is `Sound`, driver by driver:
the error exit of each step gives back only what the steps before it took, and
all of that but the known leaks. From this `DeviceOutcome` derives, once for
all drivers, the two results of setting up a device: complete, or none of it left
but known leaks. Then the exits are followed, which start from a loaded state (`Loaded`) and
end in a clean one (`Clean`): the common loop over the devices, and the
board exits of the PEAK and IXXAT PCI drivers. A module that stayed loaded after
cleaning up is clean too; its second exit starts from there, and what it does
wrong is nothing but what `pc = "twice"` admits (`ExitDevicesAgain`).

TLC checked each of these invariants on the instance of its module's run before it was
proved.

Checked by TLC only:

- the liveness properties: reasoning about fairness and ENABLED is out of the
  prover's reach;
- the properties of the runs that end in a violation, which the code does not have.

## Plan

All modules listed above are checked, and every invariant and every action
property of the passing runs is proved but for the ones named under "Checked by
TLC only". Worth adding:

1. The bit-time calculation as a function, checked against its definition.
2. The list of waiting senders and the timeouts of sendmsg in `CanTx`.

## Not modelled

`/proc` output and register access (pure I/O), the PnP tables, the bit-time
arithmetic, the configuration registers of the 16550A, the nrtsig service, the
irqbench driver (a benchmark between two machines), `timerbench` and
`switchtest` (not built by the native port), example programs, build scripts.
