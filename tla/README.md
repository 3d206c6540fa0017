# Verification of the mini8510 board support package

The repository is a Windows CE 6 board support package for the TI OMAP3530 "mini8510" board:
device drivers, a power manager, the OEM adaptation layer (OAL) of the kernel and boot loaders.
This directory holds TLA+ models of the parts whose correctness depends on the order in which
threads, interrupts and callbacks run, the TLC configurations that check them on small instances,
and TLAPS proofs of their main safety properties for every size. Paths below are relative to
`src/SRC/DRIVERS/` unless they start with `src/`.

- [1. Inventory](#1-inventory): parts, state, operations, hard behaviours, correctness
- [2. The modules and the code](#2-the-modules-and-the-code)
- [3. Runs](#3-runs): questions, bounds, results
- [4. Fairness](#4-fairness)
- [5. Proofs](#5-proofs)
- [6. Where code and comments disagree](#6-where-code-and-comments-disagree)
- [7. Not modelled](#7-not-modelled)
- [8. Plan](#8-plan)

## 1. Inventory

### SD bus driver (`SDBUS/`)

Sits between client drivers of SD cards (memory, I/O functions) and host controller drivers. A host
(`CSDHost`) has slots (`CSDSlot`), a slot has function devices (`CSDDevice`), a device has requests
(`CSDBusRequest`).

| Part | State | Operations | Hard behaviour | Correct when |
|---|---|---|---|---|
| Request queue of a slot, `sdslot.cpp`, `sdbusreq.cpp` | linked list of requests, `m_fAttached`, the request the controller owns (`m_curHCOwned`) and its lock count; per request: status, completed flag, callback, retry count | queue, submit to the controller, complete, retry, cancel, remove all, detach, attach | completion, cancellation, detach and new requests in any order; `CompleteRequest` calls itself and runs callbacks under its lock; tests made without the lock | no request is lost or completed twice, the controller works on the head only, the queue never stalls, the client hears the truth, in order |
| Event channel of a slot, `sdworki.cpp` | ring, two indices, semaphore, wake-up event, terminate flag | post, handle, terminate | reader takes no lock; one auto-reset event for many posts; full ring | no event lost, reordered or read while written; no lost wake-up |
| Synchronous requests, `sddevice.cpp` 2205-2294 and 2430-2506 | one event per device, the slot's request lock | reset, queue, test, wait, copy the result | the completed flag and the event are set at different times; the request lock is held during the wait | the result that is copied is final |
| Request trees and handles, `sdbusreq.cpp`, `sddevice.cpp` | child list, soft-block sizes, handle table with random index | build, complete the parent after its last child, free | partial failure of a child, stale handles | parent reports the first failure, once |
| Slot states, `sdslot.cpp` 300-590, 700-1009 | `m_SlotState`, function devices, power | insert, remove, select, deselect, reset | removal while clients are loading | no request reaches a slot that is being reset |
| Hosts and containers, `sdbus.cpp`; clients, `sdclient.cpp`, `sddevinf.cpp`, `sdiofeat.cpp` | tables of hosts, reference counts, client callbacks | register, attach, detach, IOCTLs | references over detach | balanced references |

A client thread calls `SDBusRequest`, which queues the request and, if the queue was empty, calls the
controller driver's handler directly. The controller answers on the spot or later from its interrupt
thread; the answer completes the head and submits the next request from the same thread. Card events
go from the interrupt thread through the event channel to the slot's thread, which loads and removes
devices and detaches the queue.

### Power manager (`PM/`)

| Part | State | Operations | Hard behaviour | Correct when |
|---|---|---|---|---|
| Power state of a device, `pmdevice.cpp`, `pmrequire.cpp` | wish of the driver, setting of the user, requirements, system state; recorded and mapped state, pending state and count | notify, set, require, release, end of a process, system state, add, remove; `UpdateDeviceState`, `SetDevicePower` | the lock is dropped while the driver handles the request; several threads are inside one driver; a thread is told to retry | the device ends up in the state the rules ask for and the power manager knows it |
| Lists of devices and classes, `pmutils.cpp`, `pmpnp.cpp`, `pmrelation.cpp` | class lists, parents and children, reference counts | add, remove, walk | lists change while they are walked without the lock | nobody is skipped, used after release or visited for ever |
| Activity timers, `pmtimer.cpp` | time left, active and inactive events, array of waited events | reset, expire, resume | a reset races the timeout; an active timer's event leaves the array; resume restarts all timers | never inactive too early, never forgotten, never both |
| Notifications, resume, start, `pmnotify.cpp`, `pmresume.cpp`, `pminit.cpp`, `pmsysstate.cpp` | queues of subscribers, registry cache | subscribe, broadcast, resume thread | message queues full or closed | each subscriber hears of each transition |
| Extensions and proxies, `PMEXT/`, `PMXPROXY/`, `pmdisplay.cpp`, `pmstream.cpp` | adapters | forward | none of their own | |

Threads of applications and drivers enter through the system's API set; the update lock serialises
all interfaces except `DevicePowerNotify`, arrival and removal.

### OEM adaptation layer (`src/SRC/OAL/OALLIB/`)

| Part | State | Operations | Hard behaviour | Correct when |
|---|---|---|---|---|
| Operating points and SmartReflex, `opp_map.c`, ioctls in `oem_pm.c` | operating point, supply and frequency of two voltage domains; sensor, voltage processor, clocks and flag of each SmartReflex channel | `SetOpp`, retention voltages, monitor on and off | order of voltage and frequency; a flag shared by the iterations of a loop; a suspend between any two steps | the voltage always suffices for the frequency; the monitor regulates for the current operating point |
| Wake-up latency, `oem_latency.c` | counts of enabled devices, domain states, constraints | device and domain notifications, find a state by delay, push and pop | unbalanced notifications | the chosen state is never deeper than devices and constraints allow |
| Idle and suspend, `oem_pm.c`, `power.c` | saved contexts and registers, which monitors to switch on again | idle, power off, resume | the system is suspended in the middle of an ioctl | what was saved is restored; nothing in use is put to sleep |

### Other parts

Audio (`TPS659XX_WAVE/`), SD memory (`SDMEMORY/`), OMAP and T2 buses (`BUS/`), DMA proxy
(`SDMAPROXY/`), power key, headset, RTC, battery, backlight, touch, motion controller, converters and
FRAM, Ethernet, camera, Bluetooth, boot loaders, configuration tables and applications. They are
listed one by one in `PROJECT.json`, with the reason why each is left out or when it is due.

## 2. The modules and the code

| Module | Models | Kind |
|---|---|---|
| `SDBusQueue` | the request queue of a slot and the hand-over to the controller driver | detailed specification |
| `SDRequestService` | what that queue promises its clients | abstract specification |
| `SDBusQueue_proofs` | safety of the queue; the queue implements the service | proofs |
| `SDSyncRequest` | synchronous requests, composed with the queue | composition |
| `SDSyncRequest_proofs` | no wake-up lost, no false success | proofs |
| `SDWorkItem` | the event channel of a slot | detailed specification |
| `SDEventChannel` | a bounded channel | abstract specification |
| `SDWorkItem_proofs` | safety of the channel; the ring implements the channel | proofs |
| `PMDevicePower` | the power state of one device | detailed specification |
| `PMDevicePower_proofs` | pending counts, blame, races that are noticed, what the books show at rest | proofs |
| `PMDeviceList` | class lists, parents, children, walks and reference counts | detailed specification |
| `PMDeviceList_proofs` | exact reference counts, walks that miss nobody, nothing held is freed | proofs |
| `PMDeviceList_pointers` | valid pointers, no orphans, unique names while changes do not overlap | proofs |
| `PMActivityTimer` | the thread of the activity timers | detailed specification |
| `PMActivityTimer_proofs` | no timer forgotten, none early | proofs |
| `OALLatency` | the wake-up latency framework: operators for its state and functions | part of the next |
| `OALVoltage` | operating points, SmartReflex, the ioctls, idle and suspend, composed with `OALLatency` | composition |
| `OALVoltage_proofs` | voltages, monitors and flags; a safe sleep that ends in time | proofs |
| `MC...` | values and symmetries for TLC | instances |

Every specification also holds a few *slips*: operators that repeat an action with a plausible
mistake. The specification does not use them. Put in the place of the action they are named after,
each breaks a property; this is how we know that the property says something about the code.

### SDBusQueue

`queue` is the list from `m_pQueueListHead` to `m_pQueueListLast`; `curHCOwned`, `lockCount`,
`fAttached`, `hostAttached` and `ready` are the members of the slot and the queue with these names
(`ready` is the result of `CheckSlotReady`). `status`, `callback`, `retry` and `kind` are fields of a
request; `stage`, `ret` and `cancelling` say where a client's thread stands with it. A request is a
block of the free list, so it can be used again after `Release`.

The queue's critical section makes an operation atomic, with one exception. `CompleteRequest` can be
observed between its assignments: `IsComplete` is tested by other threads without the lock, callbacks
enter the section again, and the function calls itself for a request that the controller answers on
the spot. Its activation record is the variable `call`, and its steps are the actions `EnterComplete`,
`RetryRequest`, `CallClient`, `PopHead` and `SubmitNext`. One record is enough for the recursion since
the function does nothing after its inner call. `CancelCheck` and `RemoveRequest` are separate because
the test is made before the lock is taken; `StartDetach`, `RemoveAllRequest` and `CompleteRest` are
separate because `Detach` releases the lock between them.

Statuses are merged: `TIMEOUT` stands for the three errors that are retried, `FAILED` for the other
errors, `FASTPATH` for `SD_API_STATUS_FAST_PATH_SUCCESS`. The controller driver is external;
`HandlerStatus` and `IndicatedStatus` are what it may answer. `confirmed` and `abandoned` are history
variables. A cancel handler that completes the request from inside its call is modelled as the start
of that completion in the same step.

The refinement: a request leaves the abstract line when its client is called (`Pending`), one step
before the list forgets it; its outcome is what the client was told, or the status if there is no
callback (`OutcomeOf`).

### SDSyncRequest

Extends `SDBusQueue` by the callers of `SDSynchronousBusRequest_I` and `SDReadWriteRegistersDirect_I`.
`requestLock` is the slot's `m_RequestLock`, `hSyncEvent` the auto-reset event of the device, `mine` the
request in hand, `registers` how many registers of a series are left (0 for a single request): `NextRegister`
makes the next request under the same lock, while the last completion may still be running.
`SDBusRequest_I` takes the same lock until its request is in the queue (`RequestLockFree`), but may take it again
in a callback that its own thread runs (`InSubmittersCallback`). `SDBusQueue` by itself lets several
clients submit at a time, which adds behaviours and leaves none out. Resetting
the event, queueing, the test of `IsComplete` without a lock, the wait and the return are steps of
their own; every step of the queue that calls back a synchronous request sets the event in the
same step (`Signal`), as `SDSyncRequestCallback` does.

### SDWorkItem

`ring`, `readIndex`, `writeIndex`, `sem` (the semaphore of free places), `wakeup` (the auto-reset
event) and `terminated` are the members of `CSDWorkItem`; `poster` and `worker` are program counters,
one value for each point between two accesses to shared memory, because the worker takes no lock. The
ring as a sequence (`Events`) implements `SDEventChannel` with the capacity `Size - 1`.

### PMDevicePower

One device, and any number of threads. The first four variables are what the device ought to be:
`lastReqDx`, `setDx`, `required` (the part of `gpFloorDx` that matches the device) and `systemState`.
`curDx`, `actualDx`, `pendingDx` and `dwNumPending` are the members of `DEVICE_STATE`; `hardware` is
the state the device is really in, which the program cannot see. `thread` holds an activation record
for each thread: the interface it came through and the locals of `UpdateDeviceState` and
`SetDevicePower`. One action is what a thread does between two points where it holds no lock:

| Action | Code |
|---|---|
| `PmDevicePowerNotify` ... `AddDevice` | the interfaces, up to the call of `UpdateDeviceState` |
| `ComputeState` | `UpdateDeviceState` under the lock: `GetNewDeviceStateInfo`, `GetNewDeviceDx`, the forced set |
| `EnterDriver` | `SetDevicePower` up to the call of the driver |
| `Driver` | the driver, external: it obeys, sets and returns another state, fails, or cannot be opened |
| `RecordSuccess`, `RestoreState`, `LeaveDriver` | the three critical sections after the call |
| `CheckRequest` | the test for a new wish in `UpdateDeviceState` |
| `FinishCall` | the rest of the interface: `PmSetDevicePower` forgets a state it could not set, `DeleteProcessRequirements` goes on with the next requirement |

The static counter `dwStaticRefCount` is only ever compared with a remembered value; the field
`moved` of a record says whether it differs. (After exactly 2^32 steps it would be equal again; this
is not modelled.) The counter is shared by all devices, so `OtherDevice` may move it at any time.
`RemoveDevice` clears the list pointer; a thread that computes after that dereferences it, which is
the program counter `fault`. A requirement is a state, the set of system states it is about and the
force flag. How requirements are matched with the name and the class of a device is not modelled:
`Requirement` holds those that match.

### PMDeviceList

`list` is the chain of each class in `gpDeviceLists`; `ref`, `alive`, `name` and `parent` describe the
blocks of memory (`dwRefCount`, `pszName`, `pParent`), which are used again after they are freed. A
thread is a stack of frames, since `RemoveDevice` calls itself for children and the last
`DeviceStateDecRef` destroys a block, which drops its parent. A frame changes between two points where
the PM lock is free: `FindDuplicate`, `DeviceStateAddList` and `ProbeDevice` are `AddDevice`;
`FindDevice`, `Unlink`, `LeaveParent`, `NextClass`, `VisitDevice`, `CheckChild` are `RemoveDevice` with its walk for
children; `FindParent`, `FindChild`, `ReleaseDevice` are the relationships; `StartClass`, `EnterUpdate`,
`NextDevice` are the walk of `UpdateClassDeviceStates`. What drivers answer, and which block the heap
hands out, is chosen freely. `overlap` is a history variable: it is set when two threads change the
lists at a time.

### PMActivityTimer

The variables are those of the thread and of each timer: `timeLeft` is `dwTimeLeft`, `watched` says
whether the array of waited events holds the timer's reset event or the dummy, `reset`, `active` and `inactive` are the
three events of a timer. `StartWait` is `GetNextInactivityTimeout` with the start of the wait; the wait
ends in one of four ways, each an action, and `HandleResume`, `HandleTimeout`, `HandleReset` are the
branches that follow it. Time is counted in ticks (`Tick`); the thread measures its waits only
(`elapsed`) and may be `Late`. A DWORD holds `Modulus` values and `INFINITE` is the last of them. `idle`
is a history variable.

### OALLatency and OALVoltage

`OALLatency` has the tables and counts of `oem_latency.c` as variables and its functions as operators.
It has no behaviour of its own: the actions are those of `OALVoltage`, which extends it. `oppVdd`,
`bEnabled` and `resumeSR` are the statics of `opp_map.c` and `power.c`; `volt`, `initVdd`, `freq`, `vp`,
`sensor`, `target` and `autoControl` are registers. A voltage or a frequency is represented by the
operating point it belongs to, the retention voltage by 0.

A caller of `OALIoCtlOppRequest`, `OALIoCtlSmartReflexControl` or the update of the retention
voltages keeps its place in `call[t]`. `NextDomain`, `TestMonitor`, `SwitchMonitor`, `FlagMonitor`,
`ChangeVoltage`, `ChangeFrequency`, `NoteOpp`, `ChangeRetention` and `Drop` are the steps of `SetOpp`,
`SmartReflex_EnableMonitor` and the loops around them; the remembered flag (`restore`) is not cleared
between two domains, as in the code. `BSPPowerOff`, `OEMPowerOff`, `BSPPowerOn`, `OEMIdle` and
`WakeFromIdle` may come between any two of them where the kernel lets them.

The clock and power library, the kernel and the boot settings are external: enabled clocks are counted and only the first and
the last are reported to the framework, a new target of a power domain is reported to it, a suspend runs
`BSPPowerOff`, `PushState`, `PopState`, `BSPPowerOn` in this order, the processor does not idle while an
ioctl runs, and operating points are numbered from 1.

## 3. Runs

With two workers a run takes from a few seconds to about two minutes.

| Run | Question | Bounds | Distinct states |
|---|---|---|---|
| `queue_safety` | do the invariants of the queue hold in every interleaving, and is every step one of `SDRequestService`? | 2 requests, with and without the fast path, one of a client that handles retries itself; 1 retry; 1 lock; cancel, detach, host detach, slot not ready | 871,000 |
| `sync` | does every synchronous call return, and is its success a success? | 1 caller, single requests and series of 2 registers; 2 requests, one of them possibly another client's; no retry; host detach | 116,000 |
| `channel` | does the ring implement a bounded channel, and is every event handled? | 2 posting threads, 2 events, 3 places, shutdown at any time | 61,000 |
| `power_wishes` | with racing notifications, do the books end at the last wish, are races noticed, does every call return? | 2 threads, 5 calls, wishes D0, D1 and D4, of which D1 is not supported | 200,000 |
| `power_serial` | under the update lock, does the last word win? | 2 threads, 8 calls, 3 system states, 2 requirements | 4,700 |
| `power_faulty` | with drivers that fail, arrival and removal, are the counts right and honest drivers not blamed? | 2 threads, 3 calls, all answers | 1,330,000 |
| `devlist` | are references exact, pointers valid, and does a walk reach everybody? | a bus and two devices in 2 classes, 3 blocks, 3 threads, 4 calls | 370,000 |
| `timer` | is no timer early or forgotten, do all expire and revive? | 3 timers, one without a timeout; 1 tick late; 1 resume | 367,000 |
| `opp` | is the supply sufficient, the monitor right, the sleep safe and short enough? | 3 and 2 operating points, 1 caller, a device of each kind, all sleep states, one constraint | 1,470,000 |
| three violation runs | see section 6 | as above, smaller | |

Why the bounds are enough. The queue treats its head, the request behind it and the rest; with two
requests there is a head and one behind it, and blocks are used again, so that histories of any
length are explored (the state space is finite without a bound on steps). The order behind the
second request matters only for the refinement, which is proved for any number. One retry
reaches both outcomes of the test of the retry count. `sync` has no retry: a retry
stays inside the queue, where `HeadAtHC` says that the request goes on, and the proof of its invariants covers any count. A series of two
has a first, a next and a last register. The request lock admits one synchronous
caller at a time; a second one only adds the order in which they get it, and the proof covers any number.
The ring of three places is full, empty and wrapped with two posts pending. For the power
manager, every race is between two threads inside the driver; calls are
bounded by `MaxCalls`, and the shortest disagreement needs two. In the lists, four calls are enough to announce a bus, to
register a child, to walk and to remove the bus under the walk. The timers differ in their timeouts,
so that one ends the waits of the other. Two voltage domains are what the chip has; three operating points have an upper, a
lower and one in between, and the table of latencies has the shape of the code's.

Symmetry is used in `devlist` for blocks and in the power runs without liveness for threads.

Deadlock is checked for the queue, synchronous requests, timers and voltages. It is switched off for the
channel, whose thread ends, and for the power manager and the lists, whose number of calls is bounded.

What the properties say:

- Queue. `OwnedIsHead` and `HeadAtHC`: the controller owns the head and nothing else, and if nobody is
  inside the queue it does own it, so that its answer moves the queue. `NoLostRequest`: an accepted
  request is queued and not yet called back, or complete and called back. `AcceptedHonest`,
  `AcceptedRetried`: a client whose request was accepted hears of success only after the controller
  said so, and of a transient error only after the last retry. `CompletionHitsOwner`: a late answer
  never completes a later use of the same block. `ServiceSpec`: outcomes come in queue order, once, and
  only a cancellation jumps the line.
- Synchronous requests. `NoLostSignal`: who waits although the request has been called back finds the
  event set. `SuccessIsConfirmed`: a success that is returned is one. `EverySyncCallReturns` and
  `EveryRequestCompletes`: also when the host goes away.
- Channel. `PlacesAccounted`: every place but one is counted by the semaphore, promised, filled or
  about to be given back. `ReadIsStable`: the reader, without a lock, never reads what is being
  written. `NoLostWakeup`: it never sleeps on a non-empty ring unless it is about to be woken.
  `EveryPostReturns`, `EveryEventHandled`: until the channel is shut down.
- Power. `PendingCounted`: the count of pending updates is the number of threads inside the driver.
  `NeverBlamed`: the assertion about wrong return values is not reached by a driver that leaves the
  request as it is. `RacesNoticed`: at rest, the recorded state differs from the device's only if some
  thread was told to retry. `BooksFollowWishes`: at rest, the recorded state is the mapped last wish.
  `LastWordWins`: at rest, the device is in the state asked for last, and recorded in it; this needs
  the update lock. `EveryCallReturns`: the retries come to an end.
- Lists. `RefsExact`: the count of a block is one for its list, for each child and for each frame that holds it.
  `PointersValid`, `NothingLeft`: unless two threads change the lists at a time, nothing freed is used and nothing
  is left behind. `WalkMissesNobody`: a walk reaches every device that stays, whatever comes and goes.
- Timers. `NeverEarly`: no timer is told inactive before it was idle for its whole time.
  `NobodyForgotten`: a timer that is active or whose event left the array has a deadline. `UnusedExpires`,
  `ResetRevives`: a timer that nobody resets expires, and one that expired comes back with a reset, unless a
  timer earlier in the array that has no timeout keeps the thread busy.
- Voltages. `VoltageSuffices`; `MonitorMatchesOpp`: a running monitor refers to the current operating
  point. `FlagTellsHardware`, `ControlKept`: the flags are true, and between ioctls monitors are as the last
  request wanted. `NoAutoUnderMonitor`, `SuspendedQuietly`: nothing else touches a voltage that is monitored,
  and nothing is monitored in suspend. `SleepSparesUsed`, `WakesInTime`, `NotesMatchRegisters`: the chosen
  sleep spares devices in use, ends in time, and leaves no trace in the registers.

## 4. Fairness

- Queue and synchronous requests. Weak fairness of the thread inside `CompleteRequest`; of the
  controller's answer, because its hardware has time-outs; of the detach that follows the removal of
  a host; of callers once they are inside. Strong fairness for those who wait for the critical section, which the kernel
  hands to its waiters by priority and then in turn. A cancel, a new card or a locked request are never
  required.
- Channel. Weak fairness of the slot's thread and of posters that run; strong fairness for waiters of
  the semaphore and the lock. Nobody is obliged to post.
- Power. Weak fairness of each thread once it has called the power manager, which includes the return
  of the driver from `IOCTL_POWER_SET`. Nothing is assumed of the order in which threads run.
- Timers. Weak fairness of the timer thread. Strong fairness of the passing of time outside of the
  thread's computations: the thread measures its waits only, and if all time passed between them
  no timer would ever expire.
- Lists and voltages. Their runs check safety only. (`EveryCallReturns` of `PMDeviceList` holds under weak
  fairness of each thread with three calls; with four the graph is too large for a run.)

## 5. Proofs

Each proof module follows one argument: an inductive invariant `IInv`, checked by TLC first, then `Init`
implies it, every step preserves it (one step per action), and the properties follow.

**Queue** (`SDBusQueue_proofs`): for any set of requests, any retry count, any lock depth and any mix of
disturbances, `IInv == TypeOK /\ Line /\ Content` is inductive. The safety properties by themselves
are not: `HeadAtHC` after a callback, for example, depends on `call.req` being the head during the
callback, which depends on the list having no duplicates. So `Line` relates the list, the running
`CompleteRequest` and the controller (no duplicates, the request of a running completion is the head,
nothing but an abandoned request is owned meanwhile), and is proved first (`LineInvariant`), needing
nothing about the fields of requests. `Content` then says what the fields hold at each point: requests
behind the head are untouched, the head's fields fit the step of `call`, and a request off the queue is
complete. `OwnedIsHead`, `HeadAtHC`, `AcceptedHonest` and `AcceptedRetried` are conjuncts;
`NoLostRequest` and `CompletionHitsOwner` follow from `Content`.

**Queue, refinement** (`SDBusQueue_proofs`): `Spec => ServiceSpec`, for any number of requests. Each action maps to an ending
of the abstract line's head, a cancellation, an arrival, a new use of a block, or a stutter. Beyond `IInv` it needs
`RefusedSame`: what a refused request shows before its caller reports the failure is what the caller
reports afterwards.

**Synchronous requests** (`SDSyncRequest_proofs`): `SyncIInv` adds to the queue's `IInv` who holds the
request lock (`Holding`), what the holder can rely on (`InHand`), the event (`NoLostSignal`), that a request in the queue has
no failure of its submission (`Accepted`) and that a recorded success is one (`StatusHonest`). The steps of the queue are taken over from `SDBusQueue_proofs`; what is new
is proved for any number of callers. `NoLostSignal` and `SuccessIsConfirmed` follow.

**Channel** (`SDWorkItem_proofs`): for any finite set of posters, any events and any size, the invariant counts places with the
cardinality of the set of posters that stand between semaphore and write. `PlacesAccounted`, `ReadIsStable`,
`NoLostWakeup` and the unreachable assertion for a full ring follow, and `Spec => ChannelSpec`.

**Device power** (`PMDevicePower_proofs`): for any threads, supported states, system states and requirements, and
any behaviour of drivers, `TypeOK /\ PendingCounted /\ NeverBlamed /\ LocalsOK /\ LastOrMoved` is
inductive. `NeverBlamed` needs `LastOrMoved`: a thread inside the driver whose request is unchanged
either is the last that asked, so that `pendingDx` equals its request, or can see that the counter has
moved. This in turn needs `LocalsOK` (what the locals hold where) and, when a thread leaves and clears
`pendingDx`, `PendingCounted` (there is nobody else inside). `MapSupported` is the lemma that the mapping of
device states ends in a state the device supports; it uses only that D0 is supported.

What the books show when all calls have returned needs a hypothesis each, which the runs satisfy and without which
the property is false. `RacesNoticed` (`Obedient`: drivers do as they are told): a disagreement between books and device
comes with a retry. Its invariant is `AskedLast`: until a race was noticed, the device is in the pending state, or the thread
that asked for it has yet to call the driver, or somebody inside asked for another state and will see that. `BooksFollowWishes`
(`OnlyWishes`: nothing but the driver's wishes changes, no ceiling): if the books do not show the last wish, there is a thread that
is going to set it or to notice that it set another (`Busy`). `LastWordWins` (`UnderLock`: every change is made under the update lock,
the device stays): there is one thread at a time, and `Holder` says what it knows at each place.

**Device lists** (`PMDeviceList_proofs`): for any blocks, names, classes and threads, and whether or not changes overlap,
`IInv` of `PMDeviceList` is inductive: `Core` (types, exact counts, lists without duplicates, what each frame of a stack
may hold) and `WalkOK` (what a walk has visited). Counting the claims on a block looks like a sum over stacks; but a step moves the
frames of one thread only, so the difference it makes is that of this thread, of the children and of the lists. Most
steps take a reference or give one back, and two lemmas (`Take`, `Give`) say once that such steps keep the invariant.
`RefsExact` and `WalkMissesNobody` are conjuncts. `NothingHeldIsFreed` is a consequence of exact counts: what a list, a
child or a frame refers to is allocated.

The walk of `RemoveDevice` holds no reference to its next device, so that exact counts do not make it safe.
`PMDeviceList_pointers` proves `PointersValid`, `NothingLeft` and `NamesUnique` for changes that do not overlap (`overlap` is false; section 6
shows that they fail otherwise). The invariant `Tidy` rests on an age of devices, which no variable holds and which is
therefore quantified: lists have the younger before the older, and a child is younger than its parent. A walk for
the children of a device calls `RemoveDevice` for a child, which again walks for its own children; all that is removed above
a walk is then younger than the device that the walk remembers (`Above`), and every listed child is still to come or being
removed (`Reaches`). A step keeps the ages; a block from the heap becomes the youngest. This covers relationships of any depth.
The code says that it supports a single level (`PM/DLL/pmrelation.cpp:24-27`), but a deeper one is only
logged (lines 88-91); removal is right for it all the same.

**Timers** (`PMActivityTimer_proofs`): for any number of timers, any timeouts and any lateness, under `ShortWaits`: sums of a
timeout and the length of a wait fit into a DWORD. The code relies on this without a test; section 6 shows what happens
otherwise. `NeverEarly` needs `Lacking`: a timer without a pending reset has at least as much time left
as its idle time lacks.

**Voltages** (`OALVoltage_proofs`): for any operating points, requests, devices, tables and settings, under `OneCaller`: one thread
issues the ioctls and is not suspended inside `SmartReflex_EnableMonitor`. The code takes no lock across
`SetOpp`; section 6 shows what two callers can do. The invariant says for each place of the caller what supply, frequency
and operating point are to each other (`Changes`, `Steady`), what flag and hardware are (`Lit`: inside the lock the flag is
one step behind), and what is still to be done for the monitors to be as asked (`ControlOf`).

The choice of a sleep needs no such hypothesis: `SleepIInv` holds for any callers, because no device or
domain is notified between the choice and the wake-up. `DevicesCounted` says that the counts are those of the devices that have
their clocks, `NotesKept` relates the masks of the framework with the registers, awake and in both kinds of sleep;
`SleepSparesUsed` and `NotesMatchRegisters` follow. `WakesInTime` is about the operating point in force, while the framework computes
with the one it has noted. It holds under `OneCaller`, requests that `SetOpp` does not skip (`RequestsInRange`), and a table of latencies that
does not rise with the operating point (`TableFalls`: so it is with the offsets of `oem_latency.c:97-115`, and the board starts at
point 3 or 5, `src/sources.cmn:77-82`, while the framework's first note is point 3). The invariant is that a note is never above the
point, except of the domains that a running request has changed and not yet reported (`LastDone`).

Assumptions on constants are those named `...Assumption` in the modules: finite sets of threads, markers such as
`NoRequest` outside the sets they extend, D0 among the supported states. The hypotheses of theorems (`OneCaller`, `ShortWaits`, `Obedient`,
`OnlyWishes`, `UnderLock`, `RequestsInRange`, `TableFalls`) are not assumptions: runs without them are possible, and
section 6 names what they show. Every invariant was checked by TLC on the instance of the run before it was proved; for
`Tidy`, with ages up to the number of blocks, and also with a child that has children. These invariants are proved and not
listed in the runs.

Every safety property that a passing run checks is proved. Only model-checked are the liveness properties (`EverySyncCallReturns`,
`EveryRequestCompletes`, `EveryPostReturns`, `EveryEventHandled`, `EveryCallReturns`, `UnusedExpires`, `ResetRevives`), since fairness and
ENABLED are outside what TLAPS proves, and the violations of section 6.

## 6. Where code and comments disagree

Each of these is shown by a run that violates one property.

1. `HonestCallback` (`queue_honest_callback`). `QueueBusRequest` completes a request that was refused at once with
   `CompleteRequest(pRequest,fSync)` (`SDBUS/sdslot.cpp:113`): a BOOL where a status is expected. FALSE
   reads as success, so the client's only callback reports success. `sddevice.cpp:2568` relies on the
   callback for the real status.
2. `KnowsHardware` (`power_knows_hardware`). Two notifications can leave the device in D4 while D0 is recorded: the thread that is told
   to retry (`PM/DLL/pmdevice.cpp:162`) computes a change, so it does not force it; before it acts, the other
   thread records that state and leaves, and the last check (line 92) finds nothing to do.
3. `WaitedForCompletion` (`sync_waited`). A caller of `SDSynchronousBusRequest` that finds its request complete without waiting leaves the
   setting of the device's event to a completion that is still about to call back. It comes after the next
   request has reset the event (`SDBUS/sddevice.cpp:2458`), and ends that request's wait while it is still queued:
   `ASSERT(pNewRequest->IsComplete())` at line 2483 fails; without assertions the status PENDING, which counts as success,
   and an unset response are returned. `SuccessIsConfirmed` is what remains true.

TLC also refutes the following, which the modules define but no run lists:

- `NothingOwnedAfterDetach` of `SDBusQueue`: `sdslot.cpp:462` asserts that the controller owns nothing after
  `Detach`; `Detach` completes and releases a head that the controller still owns if its cancel finishes later.
- `LastWordWins` with concurrent wishes: after the driver's call only `lastReqDx` is compared again
  (`PM/DLL/pmdevice.cpp:518`). A state that the user set in between, or a new limit, is overridden by an older wish.
- `UnusedIsQuiet`, `ResetAlwaysRevives` of `PMActivityTimer`: a resume gives a new time to the disabled timers
  too (`pmtimer.cpp:316`), and a timer that was inactive and is reset at the moment of a resume stays inactive when its time is up.
  With timeouts near the end of a DWORD (`Modulus` 5, `MaxWait` 4) `NobodyForgotten` and `NeverEarly` fail, since
  the sum of timeout and wait wraps.
- `OALVoltage` with two callers: `MonitorMatchesOpp`, `FlagTellsHardware` and `VoltageSuffices`, because `bEnabled` is
  tested before the lock is taken (`opp_map.c:703`) and `SetOpp` takes none. With a suspend inside
  `SmartReflex_EnableMonitor` (`PreemptMonitor`), `SuspendedQuietly` and `MonitorMatchesOpp`.
- `OALVoltage` with requests above the maximum (`TooHigh`): `WakesInTime`, because the latency framework notes the
  operating point of the request although `SetOpp` skipped it.
- `PMDeviceList` with changes that overlap: `NamesUnique`, `PointersValid` and `NothingLeft` without their `overlap`. The search for a
  duplicate and the insertion are two critical sections. The comment at `pmdevice.cpp:887-892` says that a duplicate
  is not created and that `AddDevice` runs in the thread for announcements; drivers that register a child
  call it from their own.
- `ParentOutlivesCall`: a reference keeps a device but not its parent, whose name the driver is passed
  (`pmdevice.cpp:127`). `ReleaseHitsChild`: a handle that is a freed device's address, used again for another, removes that
  one (needs five calls); `pmrelation.cpp:126-127` promises `ERROR_INVALID_PARAMETER`.

Seen while modelling, part of the models, and not the subject of a run:

- `sdslot.cpp:279`: the loop under "Retry if needed." tests the `Status` member, still PENDING, while the
  answer is in a local variable; it never repeats.
- `sddevice.cpp:2241`: if no request can be allocated for a later register, `status` still holds the last success,
  and the zeroed response is read as a register that holds 0. Failures of allocation are left out of the model.
- `sddevice.cpp:2244`: the loop over the parts of a request queues the parent each time. It has one part here.
- `sdslot.cpp:195`: `ASSERT(FALSE)` for a request that is not in the queue is reached when a completion comes
  between the unlocked `IsComplete` and `RemoveRequest`.
- `pmdevice.cpp:187`: a failing driver makes its thread restore values saved before the call, over those that
  another thread has recorded meanwhile, although the comment speaks of a device that "appears unchanged".
- `pmdevice.cpp:379`: `pListHead` is read without a test; `DeviceStateRemList` (`pmutils.cpp:834`) clears it. The
  walks over lists keep the memory alive and test the pointer, but only after the update.
- `opp_map.c:1113`: the flag that SmartReflex was on is not cleared between two domains of one request. This is harmless only
  because both channels are always switched alike, which `ControlKept` states.
- The update of the retention voltages writes the retention level to the running supply as well
  (`ChangeRetention`); `VoltageSuffices` leaves that case out.

## 7. Not modelled

- Data: commands, responses, buffers, registry contents, names and GUIDs. No property depends on them.
- The critical section of the queue and the controller's lock are taken in one step, so that their
  order is not checked: the controller's lock belongs to a library that is not in the repository. Child
  requests (soft blocks, optional requests) are not part of `SDBusQueue`.
- A completion callback that issues a request waits for the request lock; if a synchronous caller holds it and waits
  for a completion behind that callback, both wait for ever. In the models such a callback returns without a request.
- The release of the event channel's memory after the five-second wait of its destructor.
- The policy in `PlatformSetSystemPowerState`, which is not in the repository, beyond what its callers
  rely on. In `PMDeviceList`, what `PMDevicePower` models, and the lock under which a block's own
  destruction inside a walk runs.
- In the OAL: the fuses and the computation of the latency table, saving and restoring of register contexts, the
  interrupt controller and wake-up sources.
- Everything in the lists of section 1 that no module names. Most of the repository's lines are register
  definitions, tables of camera settings, vendor network and Bluetooth code, boot loaders and applications;
  most drivers are sequences of register accesses behind one critical section. There the order of steps is fixed by one
  thread and a model would repeat the code. The reasons are in `PROJECT.json`, part by part. The
  models therefore stand for a small share of the lines, and for most of those in which several
  threads, callbacks and interrupts meet.

## 8. Plan

Done: the request queue, synchronous requests, the event channel, device power, the device lists, activity timers, and
operating points with the latency framework; the refinements of queue and channel and all their safety properties proved.
What is left, in this order:

1. `SDRequestTree`: parents and children of a request, soft blocks, the first failure reported once; composed with
   `SDBusQueue`. `SDSlot`: states, devices, select and reset, composed with the event channel.
2. `BusPower`: reference counts of the power states of child devices in `BUS/`. `SdmaProxy`: reservation of channels and
   completion events. `PowerKey` and `Headset`: debouncing with a timer.
3. `PMNotify`: queues of subscribers, broadcasts and the resume thread, composed with `PMActivityTimer`.
4. Proofs: that a change of `PMDeviceList` by itself is one step of an abstract tree of devices; the invariants of
   the modules above as they are written.
