--------------------------- MODULE PMDevicePower ---------------------------
(***************************************************************************)
(* How the power manager brings one device to its power state              *)
(* (PMDLL: pmdevice.cpp, pmrequire.cpp).  Threads change what the device   *)
(* ought to be -- the driver's own wish, a state set by the user, the      *)
(* requirements of applications, the system power state -- and each then   *)
(* runs UpdateDeviceState.  The PM lock is held for a few lines at a time  *)
(* and never while the driver handles IOCTL_POWER_SET, so any number of    *)
(* threads may be inside the same driver.  Most interfaces take the update *)
(* lock as well; DevicePowerNotify, which drivers may call from inside     *)
(* IOCTL_POWER_SET, does not.                                              *)
(*                                                                         *)
(* One action is what a thread does between two points where it holds no   *)
(* PM lock.  The device drivers and PlatformSetSystemPowerState are not in *)
(* this repository.                                                        *)
(***************************************************************************)
EXTENDS Integers, FiniteSets, FiniteSetsExt

CONSTANTS
    Thread,         \* threads that call the power manager
    NoThread,
    Supported,      \* caps.DeviceDx
    SystemState,    \* [ceiling, apps]: see Applies; the registry's states
    BootState,      \* the system state at start
    Requirement,    \* [dx, in, force]: requirements that match this device
    Dying,          \* requirements of a process that may terminate
    Wishes,         \* bound: the states the driver asks for
    Sets,           \* bound: the states the user sets, or Unspecified
    Answers,        \* bound: how a driver answers IOCTL_POWER_SET
    Removable,      \* bound: the device may be removed
    Present,        \* bound: the device has been added already
    MaxCalls        \* bound: calls into the power manager

Dx == 0 .. 4
Unspecified == -1
Answer == {"done", "other", "failed", "unopened"}

ASSUME ThreadAssumption == IsFiniteSet(Thread) /\ NoThread \notin Thread
ASSUME SupportedAssumption == Supported \subseteq Dx /\ 0 \in Supported
ASSUME StateAssumption ==
    /\ SystemState \subseteq [ceiling : Dx, apps : {"all", "forced", "none"}]
    /\ BootState \in SystemState
ASSUME RequirementAssumption ==
    /\ Requirement \subseteq [dx : Dx, in : SUBSET SystemState, force : BOOLEAN]
    /\ Dying \subseteq Requirement
ASSUME BoundAssumption ==
    /\ Wishes \subseteq Dx /\ Sets \subseteq Dx \cup {Unspecified}
    /\ Answers \subseteq Answer /\ Removable \in BOOLEAN
    /\ Present \in BOOLEAN /\ MaxCalls \in Nat

VARIABLES
    lastReqDx,      \* the state the driver wished last
    setDx,          \* the state the user set
    required,       \* gpFloorDx, as far as it matches the device
    systemState,    \* gpSystemPowerState
    curDx,          \* the state the power manager thinks it set
    actualDx,       \* curDx as mapped to what the device supports
    pendingDx,      \* what the last of the threads inside the driver asks for
    dwNumPending,   \* how many threads are inside
    hardware,       \* the state the device really is in
    listed,         \* pListHead # NULL, on its list: "new", "on" or "off"
    updating,       \* owner of the update lock
    thread,         \* the activation record of each thread
    raced,          \* history: SetDevicePower has told a thread to retry
    calls           \* bookkeeping for MaxCalls

goalVars == <<lastReqDx, setDx, required, systemState>>
stateVars == <<curDx, actualDx, pendingDx, dwNumPending>>
vars == <<goalVars, stateVars, hardware, listed, updating, thread, raced, calls>>

(***************************************************************************)
(* An activation record: where the thread stands, the function that called *)
(* UpdateDeviceState, and the locals of UpdateDeviceState and              *)
(* SetDevicePower.  moved says that the static counter differs from the    *)
(* value the thread remembers; it does not model the counter's wrap.       *)
(***************************************************************************)
Idle == [pc |-> "idle", api |-> "none", newDx |-> Unspecified, force |-> FALSE,
         reqDx |-> Unspecified, oldLastReqDx |-> Unspecified,
         oldCurDx |-> Unspecified, oldActualDx |-> Unspecified,
         moved |-> FALSE, status |-> "success"]

Api == {"none", "notify", "set", "unset", "require", "release", "exit", "system", "add"}
Pc == {"idle", "update", "enter", "driver", "return", "leave", "check", "finish", "fault"}
Inside == {t \in Thread : thread[t].pc \in {"driver", "return", "leave"}}

Init ==
    /\ lastReqDx = 0 /\ setDx = Unspecified
    /\ required = {} /\ systemState = BootState
    /\ curDx = 0 /\ actualDx = 0
    /\ pendingDx = Unspecified /\ dwNumPending = 0
    /\ hardware = 0
    /\ listed = IF Present THEN "on" ELSE "new"
    /\ updating = NoThread
    /\ thread = [t \in Thread |-> Idle]
    /\ raced = FALSE
    /\ calls = 0

-----------------------------------------------------------------------------
(***************************************************************************)
(* Slips: variants of the definitions below, each with a mistake that one  *)
(* of the properties has to notice.  The specification does not use them.  *)
(***************************************************************************)
(* The update lock is not taken, and the static counter not counted. *)
LockNothing(t) == UNCHANGED updating
MovedNobody(T) == {}

(* The result is recorded although another thread has asked for another. *)
RecordAnyway(t) ==
    /\ thread[t].pc = "return" /\ thread[t].status = "success"
    /\ curDx' = thread[t].newDx /\ actualDx' = thread[t].reqDx
    /\ thread' = [thread EXCEPT ![t].pc = "leave"]
    /\ UNCHANGED <<goalVars, pendingDx, dwNumPending, hardware, listed, updating, raced, calls>>

(* The pending state is cleared while others are inside. *)
LeaveAndClear(t) ==
    /\ thread[t].pc = "leave"
    /\ dwNumPending' = dwNumPending - 1
    /\ pendingDx' = Unspecified
    /\ thread' = [thread EXCEPT ![t].pc = CASE thread[t].status = "success" -> "check"
                                            [] thread[t].status = "retry" -> "update"
                                            [] OTHER -> "finish"]
    /\ UNCHANGED <<goalVars, curDx, actualDx, hardware, listed, updating, raced, calls>>

(* A new wish of the driver goes unnoticed; a state that is not what it    *)
(* wished looks like a new wish.                                           *)
CheckNothing(t) ==
    /\ thread[t].pc = "check"
    /\ thread' = [thread EXCEPT ![t].pc = "finish"]
    /\ UNCHANGED <<goalVars, stateVars, hardware, listed, updating, raced, calls>>

CheckActualState(t) ==
    /\ thread[t].pc = "check"
    /\ thread' = [thread EXCEPT
         ![t].pc = IF lastReqDx # actualDx THEN "update" ELSE "finish",
         ![t].status = IF lastReqDx # actualDx THEN "retry" ELSE "success"]
    /\ UNCHANGED <<goalVars, stateVars, hardware, listed, updating, raced, calls>>

-----------------------------------------------------------------------------
(***************************************************************************)
(* Every device supports D0.  A state that it does not support becomes the *)
(* next one it does: D3 tries D4 first, everything else goes up.           *)
(***************************************************************************)
MapDevicePowerState(newDx) ==
    LET low == IF newDx = 3 /\ 3 \notin Supported THEN 4 ELSE newDx
        mid == IF low = 4 /\ 4 \notin Supported
                 THEN IF 3 \in Supported THEN 3 ELSE 2
                 ELSE low
        up  == IF mid = 2 /\ 2 \notin Supported THEN 1 ELSE mid
    IN  IF up = 1 /\ 1 \notin Supported THEN 0 ELSE up

(***************************************************************************)
(* GetNewDeviceStateInfo.  `in' holds the system states a requirement is   *)
(* about.  In some system states only forced requirements count, in others *)
(* none; without any, the floor is D4.                                     *)
(***************************************************************************)
Applies(q) ==
    /\ systemState \in q.in
    /\ systemState.apps # "none"
    /\ systemState.apps = "forced" => q.force

FloorDx == Min({4} \cup {q.dx : q \in {p \in required : Applies(p)}})
CeilingDx == systemState.ceiling

(***************************************************************************)
(* GetNewDeviceDx: what the user set, or else the driver's wish, lowered   *)
(* to the ceiling and then raised to the floor.  (D0 is the highest.)      *)
(***************************************************************************)
Bounded(dx) ==
    LET lowered == IF dx < CeilingDx THEN CeilingDx ELSE dx
    IN  IF FloorDx < lowered THEN FloorDx ELSE lowered

DesiredDx == IF setDx # Unspecified THEN setDx ELSE Bounded(lastReqDx)

GetNewDeviceDx == IF curDx = DesiredDx THEN Unspecified ELSE DesiredDx

-----------------------------------------------------------------------------
(***************************************************************************)
(* The interfaces.  Each looks the device up, records its change under the *)
(* PM lock and goes on with UpdateDeviceState.                             *)
(***************************************************************************)
Call(t, api) ==
    /\ thread[t].pc = "idle"
    /\ calls < MaxCalls
    /\ calls' = calls + 1
    /\ thread' = [thread EXCEPT ![t].pc = "update", ![t].api = api]
    /\ UNCHANGED <<stateVars, hardware, raced>>

(* DeviceStateFindList finds the device; the update lock is free. *)
Find(t, api) == listed = "on" /\ Call(t, api) /\ UNCHANGED listed
LockUpdate(t) == updating = NoThread /\ updating' = t

PmDevicePowerNotify(t, dx) ==
    /\ Find(t, "notify")
    /\ lastReqDx' = dx
    /\ UNCHANGED <<setDx, required, systemState, updating>>

PmSetDevicePower(t, dx) ==
    /\ Find(t, IF dx = Unspecified THEN "unset" ELSE "set")
    /\ LockUpdate(t)
    /\ setDx' = dx
    /\ UNCHANGED <<lastReqDx, required, systemState>>

(* Devices are updated only if the requirement is about the current state. *)
PmSetPowerRequirement(t, q) ==
    /\ q \notin required
    /\ systemState \in q.in
    /\ Find(t, "require")
    /\ LockUpdate(t)
    /\ required' = required \cup {q}
    /\ UNCHANGED <<lastReqDx, setDx, systemState>>

PmReleasePowerRequirement(t, q) ==
    /\ q \in required
    /\ Find(t, "release")
    /\ LockUpdate(t)
    /\ required' = required \ {q}
    /\ UNCHANGED <<lastReqDx, setDx, systemState>>

(* One requirement after the other, see FinishCall. *)
DeleteProcessRequirements(t) ==
    /\ Find(t, "exit")
    /\ LockUpdate(t)
    /\ \E q \in required \cap Dying : required' = required \ {q}
    /\ UNCHANGED <<lastReqDx, setDx, systemState>>

(* External: PlatformSetSystemPowerState switches the state and updates    *)
(* every device.                                                           *)
PmSetSystemPowerState(t, s) ==
    /\ s # systemState
    /\ Find(t, "system")
    /\ LockUpdate(t)
    /\ systemState' = s
    /\ UNCHANGED <<lastReqDx, setDx, required>>

(* The update lock is taken and released again without an update: the      *)
(* device is not there, or the requirement is about another state.         *)
UpdateNothing ==
    /\ updating = NoThread
    /\ calls < MaxCalls
    /\ calls' = calls + 1
    /\ UNCHANGED <<lastReqDx, setDx, stateVars, hardware, listed, updating, thread, raced>>

PmSetLaterRequirement(q) ==
    /\ UpdateNothing
    /\ q \in Requirement \ required
    /\ systemState \notin q.in \/ listed # "on"
    /\ required' = required \cup {q}
    /\ UNCHANGED systemState

ReleaseEarlyRequirement(q) ==
    /\ UpdateNothing
    /\ listed # "on" /\ q \in required
    /\ required' = required \ {q}
    /\ UNCHANGED systemState

SetStateOfOthers(s) ==
    /\ UpdateNothing
    /\ listed # "on" /\ s \in SystemState \ {systemState}
    /\ systemState' = s
    /\ UNCHANGED required

(* The PnP thread puts the device on its list, without the update lock. *)
AddDevice(t) ==
    /\ listed = "new" /\ listed' = "on"
    /\ Call(t, "add")
    /\ UNCHANGED <<goalVars, updating>>

RemoveDevice ==
    /\ Removable
    /\ listed = "on" /\ listed' = "off"
    /\ UNCHANGED <<goalVars, stateVars, hardware, updating, thread, raced, calls>>

-----------------------------------------------------------------------------
(***************************************************************************)
(* UpdateDeviceState, the part under the PM lock.  If the device looks     *)
(* right although other threads are inside the driver, or were when this   *)
(* thread was told to retry, the current state is set again by force.  A   *)
(* device that was taken off its list has no class: the access faults.     *)
(***************************************************************************)
ComputeState(t) ==
    LET me == thread[t]
        newDx == GetNewDeviceDx
        force == newDx = Unspecified /\ (dwNumPending # 0 \/ me.status = "retry")
    IN
    /\ me.pc = "update"
    /\ thread' = [thread EXCEPT ![t] =
                    IF listed = "off" THEN [Idle EXCEPT !.pc = "fault"]
                    ELSE [me EXCEPT !.newDx = IF force THEN curDx ELSE newDx,
                                    !.force = force,
                                    !.oldLastReqDx = lastReqDx,
                                    !.status = "success",
                                    !.pc = IF newDx = Unspecified /\ ~ force
                                             THEN "finish" ELSE "enter"]]
    /\ UNCHANGED <<goalVars, stateVars, hardware, listed, updating, raced, calls>>

(* The static counter moves on: every other thread inside may see it. *)
Moved(T) == {t \in T : thread[t].pc \in {"driver", "return"}}

(***************************************************************************)
(* SetDevicePower up to the call of the driver.  Unless it must be set, a  *)
(* device that is where it should be is left alone.                        *)
(***************************************************************************)
EnterDriver(t) ==
    LET me == thread[t]
        req == MapDevicePowerState(me.newDx)
    IN
    /\ me.pc = "enter"
    /\ IF req # actualDx \/ dwNumPending # 0 \/ me.force
         THEN /\ pendingDx' = req
              /\ dwNumPending' = dwNumPending + 1
              /\ thread' = [u \in Thread |->
                              IF u = t THEN [me EXCEPT !.reqDx = req, !.oldCurDx = curDx,
                                                       !.oldActualDx = actualDx,
                                                       !.moved = FALSE, !.pc = "driver"]
                              ELSE IF u \in Moved(Thread)
                                     THEN [thread[u] EXCEPT !.moved = TRUE] ELSE thread[u]]
         ELSE /\ thread' = [thread EXCEPT ![t].pc = "check"]
              /\ UNCHANGED <<pendingDx, dwNumPending>>
    /\ UNCHANGED <<goalVars, curDx, actualDx, hardware, listed, updating, raced, calls>>

(***************************************************************************)
(* The driver handles IOCTL_POWER_SET, which may change the state it was   *)
(* passed; or it fails; or the device cannot be opened, and SetDevicePower *)
(* gives up at once.                                                       *)
(***************************************************************************)
Driver(t, answer) ==
    LET me == thread[t] IN
    /\ me.pc = "driver"
    /\ \E dx \in Supported :
         /\ CASE answer = "done"  -> dx = me.reqDx
              [] answer = "other" -> dx # me.reqDx
              [] OTHER            -> dx = hardware
         /\ hardware' = dx
         /\ thread' = [thread EXCEPT ![t] =
              CASE answer \in {"done", "other"} ->
                     [me EXCEPT !.reqDx = dx, !.pc = "return"]
                [] answer = "failed" ->
                     [me EXCEPT !.status = "failed", !.pc = "return"]
                [] answer = "unopened" ->
                     [me EXCEPT !.status = "failed", !.pc = "leave"]]
    /\ UNCHANGED <<goalVars, stateVars, listed, updating, raced, calls>>

(* The same static counter serves the other devices. *)
OtherDevice ==
    /\ "other" \in Answers
    /\ Moved(Thread) # {}
    /\ thread' = [t \in Thread |->
                    IF t \in Moved(Thread) THEN [thread[t] EXCEPT !.moved = TRUE]
                    ELSE thread[t]]
    /\ UNCHANGED <<goalVars, stateVars, hardware, listed, updating, raced, calls>>

(***************************************************************************)
(* The driver has succeeded.  If another thread has asked for something    *)
(* else meanwhile, retry; if nobody has, the driver has returned a wrong   *)
(* state, which is an assertion.                                           *)
(***************************************************************************)
RecordSuccess(t) ==
    LET me == thread[t] IN
    /\ me.pc = "return" /\ me.status = "success"
    /\ IF pendingDx = me.reqDx
         THEN curDx' = me.newDx /\ actualDx' = me.reqDx
         ELSE UNCHANGED <<curDx, actualDx>>
    /\ thread' = [u \in Thread |->
         IF u = t
           THEN [me EXCEPT !.pc = "leave",
                           !.status = CASE pendingDx = me.reqDx -> "success"
                                        [] pendingDx # me.reqDx /\ (me.moved \/ dwNumPending > 1)
                                             -> "retry"
                                        [] OTHER -> "assert"]
         ELSE IF u \in Moved(Thread) THEN [thread[u] EXCEPT !.moved = TRUE] ELSE thread[u]]
    /\ raced' = (raced \/ pendingDx # me.reqDx)
    /\ UNCHANGED <<goalVars, pendingDx, dwNumPending, hardware, listed, updating, calls>>

(* The driver has failed: the old values return if they were asked for. *)
RestoreState(t) ==
    LET me == thread[t] IN
    /\ me.pc = "return" /\ me.status = "failed"
    /\ IF me.reqDx = me.oldActualDx
         THEN curDx' = me.oldCurDx /\ actualDx' = me.oldActualDx
         ELSE UNCHANGED <<curDx, actualDx>>
    /\ thread' = [thread EXCEPT ![t].pc = "leave"]
    /\ UNCHANGED <<goalVars, pendingDx, dwNumPending, hardware, listed, updating, raced, calls>>

(* The end of SetDevicePower. *)
LeaveDriver(t) ==
    LET me == thread[t] IN
    /\ me.pc = "leave"
    /\ dwNumPending' = dwNumPending - 1
    /\ pendingDx' = IF dwNumPending = 1 THEN Unspecified ELSE pendingDx
    /\ thread' = [thread EXCEPT ![t].pc = CASE me.status = "success" -> "check"
                                            [] me.status = "retry" -> "update"
                                            [] OTHER -> "finish"]
    /\ UNCHANGED <<goalVars, curDx, actualDx, hardware, listed, updating, raced, calls>>

(* UpdateDeviceState looks whether the driver has changed its mind. *)
CheckRequest(t) ==
    LET me == thread[t] IN
    /\ me.pc = "check"
    /\ thread' = [thread EXCEPT ![t].pc = IF lastReqDx # me.oldLastReqDx
                                            THEN "update" ELSE "finish",
                                ![t].status = IF lastReqDx # me.oldLastReqDx
                                                THEN "retry" ELSE "success"]
    /\ UNCHANGED <<goalVars, stateVars, hardware, listed, updating, raced, calls>>

(***************************************************************************)
(* The interface returns.  A state that could not be set is forgotten; the *)
(* end of a process goes on with its next requirement.                     *)
(***************************************************************************)
FinishCall(t) ==
    LET me == thread[t]
        more == me.api = "exit" /\ required \cap Dying # {}
    IN
    /\ me.pc = "finish"
    /\ setDx' = IF me.api = "set" /\ me.status # "success" THEN Unspecified ELSE setDx
    /\ IF more
         THEN /\ \E q \in required \cap Dying : required' = required \ {q}
              /\ thread' = [thread EXCEPT ![t] = [Idle EXCEPT !.pc = "update", !.api = "exit"]]
              /\ UNCHANGED updating
         ELSE /\ thread' = [thread EXCEPT ![t] = Idle]
              /\ updating' = IF updating = t THEN NoThread ELSE updating
              /\ UNCHANGED required
    /\ UNCHANGED <<lastReqDx, systemState, stateVars, hardware, listed, raced, calls>>

-----------------------------------------------------------------------------
NewCall(t) ==
    \/ \E dx \in Wishes : PmDevicePowerNotify(t, dx)
    \/ \E dx \in Sets : PmSetDevicePower(t, dx)
    \/ \E q \in Requirement :
         PmSetPowerRequirement(t, q) \/ PmReleasePowerRequirement(t, q)
    \/ DeleteProcessRequirements(t)
    \/ \E s \in SystemState : PmSetSystemPowerState(t, s)
    \/ AddDevice(t)

Run(t) ==
    \/ ComputeState(t)
    \/ EnterDriver(t)
    \/ \E answer \in Answers : Driver(t, answer)
    \/ RecordSuccess(t)
    \/ RestoreState(t)
    \/ LeaveDriver(t)
    \/ CheckRequest(t)
    \/ FinishCall(t)

Next ==
    \/ \E t \in Thread : NewCall(t) \/ Run(t)
    \/ \E q \in Requirement : PmSetLaterRequirement(q) \/ ReleaseEarlyRequirement(q)
    \/ \E s \in SystemState : SetStateOfOthers(s)
    \/ RemoveDevice
    \/ OtherDevice

Spec == Init /\ [][Next]_vars
FairSpec == Spec /\ \A t \in Thread : WF_vars(Run(t))

-----------------------------------------------------------------------------
Record ==
    [pc : Pc, api : Api, newDx : Dx \cup {Unspecified}, force : BOOLEAN,
     reqDx : Dx \cup {Unspecified}, oldLastReqDx : Dx \cup {Unspecified},
     oldCurDx : Dx \cup {Unspecified}, oldActualDx : Dx \cup {Unspecified},
     moved : BOOLEAN, status : {"success", "retry", "failed", "assert"}]

(* Every variable has its type. *)
TypeOK ==
    /\ lastReqDx \in Dx /\ setDx \in Dx \cup {Unspecified}
    /\ required \subseteq Requirement /\ systemState \in SystemState
    /\ curDx \in Dx /\ actualDx \in Supported
    /\ pendingDx \in Supported \cup {Unspecified} /\ dwNumPending \in Nat
    /\ hardware \in Supported
    /\ listed \in {"new", "on", "off"}
    /\ updating \in Thread \cup {NoThread}
    /\ thread \in [Thread -> Record]
    /\ raced \in BOOLEAN
    /\ calls \in 0 .. MaxCalls

(***************************************************************************)
(* The debug checks of SetDevicePower: dwNumPending counts the threads     *)
(* inside, and pendingDx is unspecified exactly when there are none.       *)
(***************************************************************************)
PendingCounted ==
    /\ dwNumPending = Cardinality(Inside)
    /\ pendingDx = Unspecified <=> dwNumPending = 0

(* A driver that does as it is told is never blamed for a race. *)
NeverBlamed ==
    \A t \in Thread : thread[t].status = "assert" =>
        thread[t].reqDx # MapDevicePowerState(thread[t].newDx)

AtRest == \A t \in Thread : thread[t].pc = "idle"

(***************************************************************************)
(* When no thread is busy with the device, the power manager knows the     *)
(* state that the device is in.                                            *)
(***************************************************************************)
KnowsHardware == AtRest => actualDx = hardware /\ actualDx = MapDevicePowerState(curDx)

(* Two threads that ask the driver for different things are told so: only  *)
(* after a retry may the power manager be wrong about the device.          *)
RacesNoticed == AtRest /\ ~ raced => hardware = actualDx

(* The books show what the driver wished last, whoever lost a race.        *)
BooksFollowWishes == AtRest => actualDx = MapDevicePowerState(DesiredDx)

(***************************************************************************)
(* When no thread is busy with the device, it is in the state it should be *)
(* in: the last word wins, whoever lost a race.                            *)
(***************************************************************************)
LastWordWins == AtRest => hardware = MapDevicePowerState(DesiredDx)

(* Every call returns. *)
EveryCallReturns == \A t \in Thread : []<>(thread[t].pc = "idle")
-----------------------------------------------------------------------------
(***************************************************************************)
(* The inductive invariant behind PendingCounted and NeverBlamed: what the *)
(* locals of a thread hold where, and that a thread inside the driver      *)
(* either is the last one that asked or may see that the counter moved.    *)
(***************************************************************************)
LocalsOK ==
    \A t \in Thread : LET me == thread[t] IN
        /\ me.pc \in {"enter", "driver", "return"} => me.newDx \in Dx
        /\ me.pc \in {"enter", "driver"} => me.status = "success"
        /\ me.pc \in {"driver", "return"} =>
              me.reqDx \in Supported /\ me.oldCurDx \in Dx /\ me.oldActualDx \in Supported
        /\ me.pc = "driver" => me.reqDx = MapDevicePowerState(me.newDx)
        /\ me.pc = "return" => me.status \in {"success", "failed"}

LastOrMoved ==
    \A t \in Thread :
        thread[t].pc \in {"driver", "return"}
            /\ thread[t].reqDx = MapDevicePowerState(thread[t].newDx)
        => pendingDx = thread[t].reqDx \/ thread[t].moved

IInv == TypeOK /\ PendingCounted /\ NeverBlamed /\ LocalsOK /\ LastOrMoved

-----------------------------------------------------------------------------
(***************************************************************************)
(* The one behind RacesNoticed, for a driver that does as it is told.      *)
(* Until a race was noticed, the device is in the state that was asked for *)
(* last, or the thread that asked for it has yet to call the driver, or    *)
(* some thread will notice that it asked for something else.               *)
(***************************************************************************)
Obedient == Answers \subseteq {"done"}

Unrecorded == {t \in Thread : thread[t].pc \in {"driver", "return"}}

NoFailure == \A t \in Thread : thread[t].pc = "return" => thread[t].status = "success"

AskedLast ==
    ~ raced /\ pendingDx # Unspecified =>
        \/ hardware = pendingDx
        \/ \E t \in Thread : thread[t].pc = "driver" /\ thread[t].reqDx = pendingDx
        \/ \E t \in Unrecorded : thread[t].reqDx # pendingDx

RaceIInv == NoFailure /\ AskedLast /\ (~ raced /\ Unrecorded = {} => hardware = actualDx)

(***************************************************************************)
(* The one behind BooksFollowWishes, when only the driver's wishes change. *)
(* If the books do not show the last wish, there is a thread that is going *)
(* to set it or to notice that it has set another.                         *)
(***************************************************************************)
OnlyWishes ==
    /\ Obedient /\ Sets = {} /\ Requirement = {}
    /\ SystemState = {BootState} /\ BootState.ceiling = 0

GoalsAtRest == setDx = Unspecified /\ required = {} /\ systemState = BootState

WishOf(t) ==
    LET me == thread[t] IN
    /\ me.pc \in {"enter", "driver", "return"} => me.newDx = me.oldLastReqDx
    /\ me.pc \in {"driver", "return", "leave"} => me.reqDx = MapDevicePowerState(me.newDx)
    /\ me.pc = "leave" => me.status \in {"success", "retry"}

Busy(t) ==
    LET me == thread[t] IN
    \/ me.pc \in {"update", "enter", "driver", "return", "fault"}
    \/ me.pc = "leave" /\ me.status = "retry"
    \/ me.pc \in {"leave", "check"} /\ me.oldLastReqDx # lastReqDx

WishIInv ==
    /\ NoFailure /\ GoalsAtRest
    /\ actualDx = MapDevicePowerState(curDx)
    /\ \A t \in Thread : WishOf(t)
    /\ actualDx = MapDevicePowerState(lastReqDx) \/ \E t \in Thread : Busy(t)

(***************************************************************************)
(* The one behind LastWordWins, when every change is made under the update *)
(* lock: one thread at a time, and what it knows where it stands.          *)
(***************************************************************************)
UnderLock ==
    /\ Obedient /\ Wishes = {} /\ Present /\ ~ Removable /\ BootState.ceiling = 0

Holder(t) ==
    LET me == thread[t] IN
    /\ me.status = "success" /\ me.pc # "fault" /\ (me.pc # "idle" => updating = t)
    /\ me.pc \in {"enter", "driver", "return", "leave", "check"} => me.oldLastReqDx = lastReqDx
    /\ me.pc \in {"enter", "driver", "return"} => me.newDx = DesiredDx
    /\ me.pc \in {"driver", "return"} =>
         me.reqDx = MapDevicePowerState(me.newDx) /\ pendingDx = me.reqDx
    /\ me.pc = "return" => hardware = me.reqDx
    /\ me.pc \in {"leave", "check", "finish"} => actualDx = MapDevicePowerState(DesiredDx)

SerialIInv ==
    /\ listed = "on" /\ actualDx = MapDevicePowerState(curDx)
    /\ \A t \in Thread : Holder(t)
    /\ (\A t \in Thread : thread[t].pc # "return") => hardware = actualDx
    /\ AtRest => actualDx = MapDevicePowerState(DesiredDx)
=============================================================================
