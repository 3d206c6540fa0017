------------------------ MODULE PMDevicePower_proofs ------------------------
(***************************************************************************)
(* Proofs about the power state of a device, for any number of threads,    *)
(* any device and any system states and requirements.                      *)
(***************************************************************************)
EXTENDS PMDevicePower, FiniteSetTheorems, TLAPS

-----------------------------------------------------------------------------
(***************************************************************************)
(* MapDevicePowerState always finds a state the device supports, leaves    *)
(* such a state alone, and turns the device down further than it was asked *)
(* only from D3 to D4.                                                     *)
(***************************************************************************)
THEOREM MapSupported ==
    ASSUME NEW dx \in Dx
    PROVE  /\ MapDevicePowerState(dx) \in Supported
           /\ dx \in Supported => MapDevicePowerState(dx) = dx
           /\ MapDevicePowerState(dx) > dx => dx = 3 /\ MapDevicePowerState(dx) = 4
BY SupportedAssumption DEF MapDevicePowerState, Dx

(* A set of device power states that has an element has a least one. *)
LEMMA MinDx ==
    ASSUME NEW S, S \subseteq Dx, 4 \in S
    PROVE  Min(S) \in S /\ \A y \in S : Min(S) <= y
<1>1. \E x \in S : \A y \in S : x <= y
  <2>1. CASE 0 \in S
    BY <2>1 DEF Dx
  <2>2. CASE 0 \notin S /\ 1 \in S
    BY <2>2 DEF Dx
  <2>3. CASE 0 \notin S /\ 1 \notin S /\ 2 \in S
    BY <2>3 DEF Dx
  <2>4. CASE 0 \notin S /\ 1 \notin S /\ 2 \notin S /\ 3 \in S
    BY <2>4 DEF Dx
  <2>5. CASE 0 \notin S /\ 1 \notin S /\ 2 \notin S /\ 3 \notin S
    BY <2>5 DEF Dx
  <2> QED BY <2>1, <2>2, <2>3, <2>4, <2>5
<1> QED BY <1>1 DEF Min

(***************************************************************************)
(* The state a device should be in is a device power state; without a set  *)
(* value it is no higher than the ceiling unless a requirement wants it,   *)
(* and never lower than the floor.                                         *)
(***************************************************************************)
LEMMA FloorType ==
    ASSUME TypeOK
    PROVE  FloorDx \in Dx /\ CeilingDx \in Dx
<1> DEFINE S == {4} \cup {q.dx : q \in {p \in required : Applies(p)}}
<1>1. S \subseteq Dx
  BY RequirementAssumption DEF TypeOK, Dx
<1>2. Min(S) \in S
  BY <1>1, MinDx
<1>3. FloorDx \in Dx
  BY <1>1, <1>2 DEF FloorDx
<1>4. CeilingDx \in Dx
  BY StateAssumption DEF TypeOK, CeilingDx
<1> QED BY <1>3, <1>4

LEMMA DesiredType ==
    ASSUME TypeOK
    PROVE  /\ DesiredDx \in Dx
           /\ setDx = Unspecified =>
                /\ DesiredDx <= FloorDx
                /\ DesiredDx >= CeilingDx \/ DesiredDx = FloorDx
           /\ GetNewDeviceDx \in Dx \cup {Unspecified}
<1>1. FloorDx \in Dx /\ CeilingDx \in Dx
  BY FloorType
<1>2. lastReqDx \in Dx /\ setDx \in Dx \cup {Unspecified}
  BY DEF TypeOK
<1>3. Bounded(lastReqDx) \in Dx /\ Bounded(lastReqDx) <= FloorDx
      /\ (Bounded(lastReqDx) >= CeilingDx \/ Bounded(lastReqDx) = FloorDx)
  BY <1>1, <1>2 DEF Bounded, Dx
<1>4. DesiredDx \in Dx
  BY <1>2, <1>3 DEF DesiredDx, Unspecified, Dx
<1> QED BY <1>3, <1>4 DEF DesiredDx, GetNewDeviceDx
-----------------------------------------------------------------------------
(***************************************************************************)
(* The bookkeeping of the threads inside the driver.                       *)
(***************************************************************************)
InsidePc == {"driver", "return", "leave"}
Books == PendingCounted /\ NeverBlamed /\ LocalsOK /\ LastOrMoved

LEMMA UnspecifiedNoState == Unspecified \notin Dx
BY DEF Dx, Unspecified

LEMMA IdleType == Idle \in Record /\ Idle.pc = "idle" /\ Idle.status = "success"
BY DEF Idle, Record, Pc, Api, Dx, Unspecified

LEMMA InitIInv == Init => IInv
<1> SUFFICES ASSUME Init PROVE IInv
  OBVIOUS
<1> USE DEF Init
<1>1. \A t \in Thread : thread[t] = Idle
  OBVIOUS
<1>2. TypeOK
  <2>2. thread \in [Thread -> Record]
    BY IdleType
  <2>3. calls \in 0 .. MaxCalls
    BY BoundAssumption
  <2> QED BY <2>2, <2>3, SupportedAssumption, StateAssumption DEF TypeOK, Dx, Unspecified
<1>3. Inside = {}
  BY <1>1 DEF Inside, Idle
<1>4. PendingCounted
  BY <1>3, FS_EmptySet DEF PendingCounted
<1>5. NeverBlamed /\ LocalsOK /\ LastOrMoved
  BY <1>1 DEF NeverBlamed, LocalsOK, LastOrMoved, Idle
<1> QED BY <1>2, <1>4, <1>5 DEF IInv

(* The threads inside the driver are finitely many. *)
LEMMA InsideFinite == IsFiniteSet(Inside) /\ Cardinality(Inside) \in Nat
BY ThreadAssumption, FS_Subset, FS_CardinalityType DEF Inside

(***************************************************************************)
(* A step of a thread that neither enters nor leaves the driver, and       *)
(* touches neither count nor pending state, keeps the books in order.      *)
(***************************************************************************)
LEMMA OutsideStep ==
    ASSUME IInv, NEW t \in Thread,
           thread' \in [Thread -> Record],
           \A u \in Thread \ {t} : thread'[u] = thread[u],
           thread[t].pc \notin InsidePc, thread'[t].pc \notin InsidePc,
           thread'[t].pc = "enter" =>
              thread'[t].newDx \in Dx /\ thread'[t].status = "success",
           thread'[t].status = "assert" =>
              thread'[t].reqDx # MapDevicePowerState(thread'[t].newDx),
           UNCHANGED <<pendingDx, dwNumPending>>
    PROVE  Books'
<1>1. Inside' = Inside
  BY DEF Inside, InsidePc
<1>2. PendingCounted'
  BY <1>1 DEF PendingCounted, IInv
<1>3. NeverBlamed'
  BY DEF NeverBlamed, IInv, MapDevicePowerState
<1>4. LocalsOK'
  BY DEF LocalsOK, IInv, InsidePc, MapDevicePowerState
<1>5. LastOrMoved'
  BY DEF LastOrMoved, IInv, InsidePc, MapDevicePowerState
<1> QED BY <1>2, <1>3, <1>4, <1>5 DEF Books

(* A new call: only the thread's place and its function change. *)
LEMMA CallKeeps ==
    ASSUME IInv, NEW t \in Thread, NEW api \in Api, Call(t, api)
    PROVE  /\ thread' \in [Thread -> Record]
           /\ calls' \in 0 .. MaxCalls
           /\ Books'
<1> USE DEF Call
<1>1. thread \in [Thread -> Record] /\ calls \in 0 .. MaxCalls
  BY DEF IInv, TypeOK
<1>2. calls' \in 0 .. MaxCalls
  BY <1>1, BoundAssumption
<1>3. thread' \in [Thread -> Record]
  <2>1. thread' = [thread EXCEPT ![t] = [thread[t] EXCEPT !.pc = "update", !.api = api]]
    BY <1>1 DEF Record
  <2>2. [thread[t] EXCEPT !.pc = "update", !.api = api] \in Record
    BY <1>1 DEF Record, Pc
  <2> QED BY <1>1, <2>1, <2>2
<1>4. thread'[t] = [thread[t] EXCEPT !.pc = "update", !.api = api]
  BY <1>1 DEF Record
<1>5. /\ thread'[t].pc = "update" /\ thread'[t].status = thread[t].status
      /\ thread'[t].reqDx = thread[t].reqDx /\ thread'[t].newDx = thread[t].newDx
  BY <1>1, <1>4 DEF Record
<1>6. UNCHANGED <<pendingDx, dwNumPending>>
  BY DEF stateVars
<1>7. thread'[t].status = "assert" =>
         thread'[t].reqDx # MapDevicePowerState(thread'[t].newDx)
  BY <1>5 DEF IInv, NeverBlamed
<1>8. \A u \in Thread \ {t} : thread'[u] = thread[u]
  BY <1>1
<1>9. thread'[t].pc \notin InsidePc /\ thread[t].pc \notin InsidePc
  BY <1>5 DEF InsidePc
<1>10. Books'
  BY <1>3, <1>5, <1>6, <1>7, <1>8, <1>9, OutsideStep
<1> QED BY <1>2, <1>3, <1>10

LEMMA NewCallKeeps ==
    ASSUME IInv, NEW t \in Thread, NewCall(t)
    PROVE  IInv'
<1> USE DEF IInv, TypeOK
<1>1. ASSUME NEW dx \in Wishes, PmDevicePowerNotify(t, dx)
      PROVE  IInv'
  <2>1. thread' \in [Thread -> Record] /\ calls' \in 0 .. MaxCalls /\ Books'
    BY <1>1, CallKeeps DEF PmDevicePowerNotify, Find, Api
  <2>2. lastReqDx' \in Dx
    BY <1>1, BoundAssumption DEF PmDevicePowerNotify
  <2> QED BY <1>1, <2>1, <2>2 DEF PmDevicePowerNotify, Find, Call, stateVars, Books
<1>2. ASSUME NEW dx \in Sets, PmSetDevicePower(t, dx)
      PROVE  IInv'
  <2>1. thread' \in [Thread -> Record] /\ calls' \in 0 .. MaxCalls /\ Books'
    BY <1>2, CallKeeps DEF PmSetDevicePower, Find, Api
  <2>2. setDx' \in Dx \cup {Unspecified}
    BY <1>2, BoundAssumption DEF PmSetDevicePower
  <2>3. updating' \in Thread \cup {NoThread}
    BY <1>2 DEF PmSetDevicePower, LockUpdate
  <2> QED BY <1>2, <2>1, <2>2, <2>3 DEF PmSetDevicePower, Find, Call, stateVars, Books
<1>3. ASSUME NEW q \in Requirement, PmSetPowerRequirement(t, q)
      PROVE  IInv'
  <2>1. thread' \in [Thread -> Record] /\ calls' \in 0 .. MaxCalls /\ Books'
    BY <1>3, CallKeeps DEF PmSetPowerRequirement, Find, Api
  <2>2. required' \subseteq Requirement /\ updating' \in Thread \cup {NoThread}
    BY <1>3 DEF PmSetPowerRequirement, LockUpdate
  <2> QED BY <1>3, <2>1, <2>2 DEF PmSetPowerRequirement, Find, Call, stateVars, Books
<1>4. ASSUME NEW q \in Requirement, PmReleasePowerRequirement(t, q)
      PROVE  IInv'
  <2>1. thread' \in [Thread -> Record] /\ calls' \in 0 .. MaxCalls /\ Books'
    BY <1>4, CallKeeps DEF PmReleasePowerRequirement, Find, Api
  <2>2. required' \subseteq Requirement /\ updating' \in Thread \cup {NoThread}
    BY <1>4 DEF PmReleasePowerRequirement, LockUpdate
  <2> QED BY <1>4, <2>1, <2>2 DEF PmReleasePowerRequirement, Find, Call, stateVars, Books
<1>5. ASSUME DeleteProcessRequirements(t)
      PROVE  IInv'
  <2>1. thread' \in [Thread -> Record] /\ calls' \in 0 .. MaxCalls /\ Books'
    BY <1>5, CallKeeps DEF DeleteProcessRequirements, Find, Api
  <2>2. required' \subseteq Requirement /\ updating' \in Thread \cup {NoThread}
    BY <1>5 DEF DeleteProcessRequirements, LockUpdate
  <2> QED BY <1>5, <2>1, <2>2 DEF DeleteProcessRequirements, Find, Call, stateVars, Books
<1>6. ASSUME NEW s \in SystemState, PmSetSystemPowerState(t, s)
      PROVE  IInv'
  <2>1. thread' \in [Thread -> Record] /\ calls' \in 0 .. MaxCalls /\ Books'
    BY <1>6, CallKeeps DEF PmSetSystemPowerState, Find, Api
  <2>2. systemState' \in SystemState /\ updating' \in Thread \cup {NoThread}
    BY <1>6 DEF PmSetSystemPowerState, LockUpdate
  <2> QED BY <1>6, <2>1, <2>2 DEF PmSetSystemPowerState, Find, Call, stateVars, Books
<1>7. ASSUME AddDevice(t)
      PROVE  IInv'
  <2>1. thread' \in [Thread -> Record] /\ calls' \in 0 .. MaxCalls /\ Books'
    BY <1>7, CallKeeps DEF AddDevice, Api
  <2> QED BY <1>7, <2>1 DEF AddDevice, Call, stateVars, goalVars, Books
<1> QED BY <1>1, <1>2, <1>3, <1>4, <1>5, <1>6, <1>7 DEF NewCall

(* UpdateDeviceState computes a state the device can be asked for. *)
LEMMA ComputeKeeps ==
    ASSUME IInv, NEW t \in Thread, ComputeState(t)
    PROVE  IInv'
<1> USE DEF ComputeState
<1>1. /\ thread \in [Thread -> Record] /\ curDx \in Dx /\ lastReqDx \in Dx
      /\ GetNewDeviceDx \in Dx \cup {Unspecified}
  BY DesiredType DEF IInv, TypeOK
<1>2. thread[t].pc = "update"
  OBVIOUS
<1>3. CASE listed = "off"
  <2>1. thread' = [thread EXCEPT ![t] = [Idle EXCEPT !.pc = "fault"]]
    BY <1>3
  <2>2. [Idle EXCEPT !.pc = "fault"] \in Record
    BY IdleType DEF Record, Pc
  <2>3. thread' \in [Thread -> Record]
    BY <1>1, <2>1, <2>2
  <2>4. thread'[t].pc = "fault" /\ thread'[t].status = "success"
    <3>1. [Idle EXCEPT !.pc = "fault"].pc = "fault"
          /\ [Idle EXCEPT !.pc = "fault"].status = Idle.status
      BY IdleType DEF Record
    <3> QED BY <1>1, <2>1, <3>1, IdleType
  <2>5. Books'
    <3>1. \A u \in Thread \ {t} : thread'[u] = thread[u]
      BY <1>1, <2>1
    <3> QED BY <1>2, <2>3, <2>4, <3>1, OutsideStep DEF InsidePc, stateVars
  <2> QED BY <2>3, <2>5 DEF IInv, TypeOK, Books, goalVars, stateVars
<1>4. CASE listed # "off"
  <2> DEFINE force == GetNewDeviceDx = Unspecified
                         /\ (dwNumPending # 0 \/ thread[t].status = "retry")
             new == IF force THEN curDx ELSE GetNewDeviceDx
             step == IF GetNewDeviceDx = Unspecified /\ ~ force THEN "finish" ELSE "enter"
             r == [thread[t] EXCEPT !.newDx = new, !.force = force,
                                    !.oldLastReqDx = lastReqDx, !.status = "success",
                                    !.pc = step]
  <2>1. thread' = [thread EXCEPT ![t] = r]
    BY <1>4
  <2>2. force \in BOOLEAN /\ new \in Dx \cup {Unspecified} /\ step \in {"enter", "finish"}
    BY <1>1
  <2>3. step = "enter" => new \in Dx
    BY <1>1
  <2> HIDE DEF force, new, step
  <2>4. thread[t] \in Record
    BY <1>1
  <2>5. r \in Record
    BY <1>1, <2>2, <2>4 DEF Record, Pc
  <2>6. r.newDx = new /\ r.status = "success" /\ r.pc = step
    BY <2>4 DEF Record
  <2> HIDE DEF r
  <2>7. thread' \in [Thread -> Record] /\ thread'[t] = r
    BY <1>1, <2>1, <2>5
  <2>8. Books'
    <3>1. \A u \in Thread \ {t} : thread'[u] = thread[u]
      BY <1>1, <2>1
    <3> QED BY <1>2, <2>2, <2>3, <2>6, <2>7, <3>1, OutsideStep DEF InsidePc, stateVars
  <2> QED BY <2>7, <2>8 DEF IInv, TypeOK, Books, goalVars, stateVars
<1> QED BY <1>3, <1>4

(***************************************************************************)
(* The other threads, when the static counter moves on: nothing but their  *)
(* view of the counter changes.                                            *)
(***************************************************************************)
Marked(u) == IF u \in Moved(Thread) THEN [thread[u] EXCEPT !.moved = TRUE] ELSE thread[u]
SameLocals(u) ==
    /\ thread'[u] \in Record
    /\ thread'[u].pc = thread[u].pc
    /\ thread'[u].newDx = thread[u].newDx
    /\ thread'[u].reqDx = thread[u].reqDx
    /\ thread'[u].oldLastReqDx = thread[u].oldLastReqDx
    /\ thread'[u].oldCurDx = thread[u].oldCurDx
    /\ thread'[u].oldActualDx = thread[u].oldActualDx
    /\ thread'[u].status = thread[u].status
    /\ thread[u].moved => thread'[u].moved

LEMMA MarkedLocals ==
    ASSUME thread \in [Thread -> Record], NEW u \in Thread, thread'[u] = Marked(u)
    PROVE  /\ SameLocals(u)
           /\ thread[u].pc \in {"driver", "return"} => thread'[u].moved
<1>1. thread[u] \in Record
  OBVIOUS
<1>2. CASE u \in Moved(Thread)
  <2>1. thread'[u] = [thread[u] EXCEPT !.moved = TRUE]
    BY <1>2 DEF Marked
  <2> QED BY <1>1, <2>1 DEF SameLocals, Record
<1>3. CASE u \notin Moved(Thread)
  BY <1>1, <1>3 DEF Marked, Moved, SameLocals
<1> QED BY <1>2, <1>3

LEMMA SameInvariants ==
    ASSUME IInv, NEW t \in Thread, \A u \in Thread \ {t} : SameLocals(u),
           thread'[t].pc = "enter" =>
              thread'[t].newDx \in Dx /\ thread'[t].status = "success",
           thread'[t].pc \notin {"driver", "return"},
           thread'[t].status = "assert" =>
              thread'[t].reqDx # MapDevicePowerState(thread'[t].newDx)
    PROVE  NeverBlamed' /\ LocalsOK'
<1>1. NeverBlamed'
  BY DEF NeverBlamed, IInv, SameLocals, MapDevicePowerState
<1>2. LocalsOK'
  <2>1. \A u \in Thread \ {t} : SameLocals(u)
    OBVIOUS
  <2>2. LocalsOK
    BY DEF IInv
  <2> QED BY <2>1, <2>2 DEF LocalsOK, SameLocals, MapDevicePowerState
<1> QED BY <1>1, <1>2

(* SetDevicePower enters the driver, or finds the device where it should be. *)
LEMMA EnterKeeps ==
    ASSUME IInv, NEW t \in Thread, EnterDriver(t)
    PROVE  IInv'
<1> DEFINE me == thread[t]
           req == MapDevicePowerState(me.newDx)
<1>1. /\ thread \in [Thread -> Record] /\ curDx \in Dx /\ actualDx \in Supported
      /\ dwNumPending \in Nat
  BY DEF IInv, TypeOK
<1>2. me.pc = "enter" /\ me.newDx \in Dx /\ me.status = "success"
  BY DEF EnterDriver, IInv, LocalsOK
<1>3. req \in Supported /\ req \in Dx /\ req # Unspecified
  <2>1. req \in Supported
    BY <1>2, MapSupported
  <2>2. req \in Dx
    BY <2>1, SupportedAssumption
  <2> QED BY <2>1, <2>2, UnspecifiedNoState
<1>4. CASE req # actualDx \/ dwNumPending # 0 \/ me.force
  <2> DEFINE r == [me EXCEPT !.reqDx = req, !.oldCurDx = curDx, !.oldActualDx = actualDx,
                             !.moved = FALSE, !.pc = "driver"]
  <2>1. /\ pendingDx' = req /\ dwNumPending' = dwNumPending + 1
        /\ thread' = [u \in Thread |-> IF u = t THEN r ELSE Marked(u)]
    BY <1>4 DEF EnterDriver, Marked
  <2>2. r \in Record
    BY <1>1, <1>3, SupportedAssumption DEF Record, Pc
  <2>3. /\ r.pc = "driver" /\ r.reqDx = req /\ r.newDx = me.newDx
        /\ r.oldCurDx = curDx /\ r.oldActualDx = actualDx /\ r.status = me.status
    BY <1>1 DEF Record
  <2>4. thread'[t] = r
    BY <2>1
  <2>5. \A u \in Thread \ {t} :
            SameLocals(u) /\ (thread[u].pc \in {"driver", "return"} => thread'[u].moved)
    <3> SUFFICES ASSUME NEW u \in Thread \ {t}
                 PROVE  SameLocals(u) /\ (thread[u].pc \in {"driver", "return"} => thread'[u].moved)
      OBVIOUS
    <3>1. thread'[u] = Marked(u)
      BY <2>1
    <3> QED BY <1>1, <3>1, MarkedLocals
  <2> HIDE DEF r, req, me
  <2>6. thread' \in [Thread -> Record]
    BY <2>1, <2>2, <2>4, <2>5 DEF SameLocals
  <2>7. Inside' = Inside \cup {t} /\ t \notin Inside
    BY <1>2, <2>3, <2>4, <2>5 DEF Inside, SameLocals, me
  <2>8. PendingCounted'
    <3>1. Cardinality(Inside') = Cardinality(Inside) + 1
      BY <2>7, InsideFinite, FS_AddElement
    <3> QED BY <1>1, <1>3, <2>1, <3>1 DEF PendingCounted, IInv
  <2>9. NeverBlamed'
    BY <1>2, <2>3, <2>4, <2>5 DEF NeverBlamed, IInv, SameLocals, MapDevicePowerState
  <2>10. LocalsOK'
    <3>1. MapDevicePowerState(me.newDx)' = MapDevicePowerState(me'.newDx)
      BY DEF MapDevicePowerState, me
    <3> QED BY <1>1, <1>2, <1>3, <2>3, <2>4, <2>5
            DEF LocalsOK, IInv, SameLocals, MapDevicePowerState, me, req
  <2>11. LastOrMoved'
    BY <2>1, <2>3, <2>4, <2>5 DEF LastOrMoved, SameLocals
  <2>12. TypeOK'
    BY <1>1, <1>3, <2>1, <2>6 DEF IInv, TypeOK, EnterDriver, goalVars
  <2> QED BY <2>8, <2>9, <2>10, <2>11, <2>12 DEF IInv
<1>5. CASE ~ (req # actualDx \/ dwNumPending # 0 \/ me.force)
  <2>1. thread' = [thread EXCEPT ![t] = [me EXCEPT !.pc = "check"]]
        /\ UNCHANGED <<pendingDx, dwNumPending>>
    BY <1>1, <1>5 DEF EnterDriver, Record
  <2>2. [me EXCEPT !.pc = "check"] \in Record
    BY <1>1 DEF Record, Pc
  <2>3. thread' \in [Thread -> Record] /\ thread'[t] = [me EXCEPT !.pc = "check"]
    BY <1>1, <2>1, <2>2
  <2>4. thread'[t].pc = "check" /\ thread'[t].status = "success"
    BY <1>1, <1>2, <2>3 DEF Record
  <2>5. \A u \in Thread \ {t} : thread'[u] = thread[u]
    BY <1>1, <2>1
  <2>6. Books'
    BY <1>2, <2>1, <2>3, <2>4, <2>5, OutsideStep DEF InsidePc
  <2> QED BY <2>1, <2>3, <2>6 DEF IInv, TypeOK, Books, EnterDriver, goalVars
<1> QED BY <1>4, <1>5

(***************************************************************************)
(* A step of one thread that stays inside the driver.                      *)
(***************************************************************************)
LEMMA StayInside ==
    ASSUME IInv, NEW t \in Thread, NEW r \in Record,
           thread[t].pc \in InsidePc, r.pc \in InsidePc,
           thread' = [thread EXCEPT ![t] = r],
           UNCHANGED <<pendingDx, dwNumPending>>
    PROVE  /\ thread' \in [Thread -> Record] /\ thread'[t] = r
           /\ \A u \in Thread \ {t} : thread'[u] = thread[u]
           /\ PendingCounted'
<1>1. thread \in [Thread -> Record]
  BY DEF IInv, TypeOK
<1>2. thread' \in [Thread -> Record] /\ thread'[t] = r
      /\ \A u \in Thread \ {t} : thread'[u] = thread[u]
  BY <1>1
<1>3. Inside' = Inside
  BY <1>2 DEF Inside, InsidePc
<1> QED BY <1>2, <1>3 DEF PendingCounted, IInv

(* The driver answers. *)
LEMMA DriverKeeps ==
    ASSUME IInv, NEW t \in Thread, NEW answer \in Answers, Driver(t, answer)
    PROVE  IInv'
<1> DEFINE me == thread[t]
<1>1. /\ thread \in [Thread -> Record] /\ me \in Record /\ me.pc = "driver"
      /\ me.status = "success" /\ me.newDx \in Dx /\ me.oldCurDx \in Dx
      /\ me.oldActualDx \in Supported /\ me.reqDx = MapDevicePowerState(me.newDx)
      /\ me.reqDx \in Supported
      /\ answer \in Answer
  BY BoundAssumption DEF IInv, TypeOK, LocalsOK, Driver
<1>2. PICK dx \in Supported :
         /\ hardware' = dx
         /\ answer = "done" => dx = me.reqDx
         /\ answer = "other" => dx # me.reqDx
         /\ answer \in {"done", "other"} =>
               thread' = [thread EXCEPT ![t] = [me EXCEPT !.reqDx = dx, !.pc = "return"]]
         /\ answer = "failed" =>
               thread' = [thread EXCEPT ![t] = [me EXCEPT !.status = "failed", !.pc = "return"]]
         /\ answer = "unopened" =>
               thread' = [thread EXCEPT ![t] = [me EXCEPT !.status = "failed", !.pc = "leave"]]
  BY DEF Driver
<1>3. UNCHANGED <<pendingDx, dwNumPending>>
  BY DEF Driver, stateVars
<1>4. CASE answer \in {"done", "other"}
  <2> DEFINE r == [me EXCEPT !.reqDx = dx, !.pc = "return"]
  <2>1. r \in Record
    BY <1>1, SupportedAssumption DEF Record, Pc
  <2>2. /\ r.pc = "return" /\ r.reqDx = dx /\ r.newDx = me.newDx /\ r.status = "success"
        /\ r.oldCurDx = me.oldCurDx /\ r.oldActualDx = me.oldActualDx /\ r.moved = me.moved
    BY <1>1 DEF Record
  <2>3. thread' = [thread EXCEPT ![t] = r]
    BY <1>2, <1>4
  <2> HIDE DEF r
  <2>4. /\ thread' \in [Thread -> Record] /\ thread'[t] = r
        /\ \A u \in Thread \ {t} : thread'[u] = thread[u]
        /\ PendingCounted'
    BY <1>1, <1>3, <2>1, <2>2, <2>3, StayInside DEF InsidePc
  <2>5. NeverBlamed'
    BY <2>2, <2>4 DEF NeverBlamed, IInv, MapDevicePowerState
  <2>6. LocalsOK'
    BY <1>1, <2>2, <2>4 DEF LocalsOK, IInv, MapDevicePowerState
  <2>7. LastOrMoved'
    <3>1. \A u \in Thread \ {t} : thread'[u].pc \in {"driver", "return"}
              /\ thread'[u].reqDx = MapDevicePowerState(thread'[u].newDx)
              => pendingDx' = thread'[u].reqDx \/ thread'[u].moved
      BY <1>3, <2>4 DEF IInv, LastOrMoved
    <3>2. thread'[t].reqDx = MapDevicePowerState(thread'[t].newDx)
              => pendingDx' = thread'[t].reqDx \/ thread'[t].moved
      BY <1>1, <1>3, <2>2, <2>4 DEF IInv, LastOrMoved
    <3> QED BY <3>1, <3>2 DEF LastOrMoved, MapDevicePowerState
  <2>8. TypeOK'
    BY <1>2, <2>4 DEF IInv, TypeOK, Driver, goalVars, stateVars
  <2> QED BY <2>4, <2>5, <2>6, <2>7, <2>8 DEF IInv
<1>5. CASE answer \in {"failed", "unopened"}
  <2> DEFINE r == [me EXCEPT !.status = "failed",
                             !.pc = IF answer = "failed" THEN "return" ELSE "leave"]
  <2>1. r \in Record
    BY <1>1 DEF Record, Pc
  <2>2. /\ r.pc \in {"return", "leave"} /\ r.reqDx = me.reqDx /\ r.newDx = me.newDx
        /\ r.status = "failed"
        /\ r.oldCurDx = me.oldCurDx /\ r.oldActualDx = me.oldActualDx /\ r.moved = me.moved
    BY <1>1 DEF Record
  <2>3. thread' = [thread EXCEPT ![t] = r]
    BY <1>2, <1>5
  <2> HIDE DEF r
  <2>4. /\ thread' \in [Thread -> Record] /\ thread'[t] = r
        /\ \A u \in Thread \ {t} : thread'[u] = thread[u]
        /\ PendingCounted'
    BY <1>1, <1>3, <2>1, <2>2, <2>3, StayInside DEF InsidePc
  <2>5. NeverBlamed'
    BY <2>2, <2>4 DEF NeverBlamed, IInv, MapDevicePowerState
  <2>6. LocalsOK'
    BY <1>1, <2>2, <2>4 DEF LocalsOK, IInv, MapDevicePowerState
  <2>7. LastOrMoved'
    <3>1. \A u \in Thread \ {t} : thread'[u].pc \in {"driver", "return"}
              /\ thread'[u].reqDx = MapDevicePowerState(thread'[u].newDx)
              => pendingDx' = thread'[u].reqDx \/ thread'[u].moved
      BY <1>3, <2>4 DEF IInv, LastOrMoved
    <3>2. thread'[t].reqDx = MapDevicePowerState(thread'[t].newDx)
              => pendingDx' = thread'[t].reqDx \/ thread'[t].moved
      BY <1>1, <1>3, <2>2, <2>4 DEF IInv, LastOrMoved
    <3> QED BY <3>1, <3>2 DEF LastOrMoved, MapDevicePowerState
  <2>8. TypeOK'
    BY <1>2, <2>4 DEF IInv, TypeOK, Driver, goalVars, stateVars
  <2> QED BY <2>4, <2>5, <2>6, <2>7, <2>8 DEF IInv
<1> QED BY <1>1, <1>4, <1>5 DEF Answer

(* The counter moves on because of another device. *)
LEMMA OtherDeviceKeeps ==
    ASSUME IInv, OtherDevice
    PROVE  IInv'
<1>1. thread \in [Thread -> Record]
  BY DEF IInv, TypeOK
<1>2. \A u \in Thread : SameLocals(u)
  <2> SUFFICES ASSUME NEW u \in Thread PROVE SameLocals(u)
    OBVIOUS
  <2>1. thread'[u] = Marked(u)
    BY DEF OtherDevice, Marked
  <2> QED BY <1>1, <2>1, MarkedLocals
<1>3. thread' \in [Thread -> Record]
  <2>1. thread' = [u \in Thread |-> thread'[u]]
    BY DEF OtherDevice
  <2> QED BY <1>2, <2>1 DEF SameLocals
<1>4. Inside' = Inside
  BY <1>2 DEF Inside, SameLocals
<1>5. UNCHANGED <<pendingDx, dwNumPending>>
  BY DEF OtherDevice, stateVars
<1>6. PendingCounted'
  BY <1>4, <1>5 DEF PendingCounted, IInv
<1>7. NeverBlamed'
  BY <1>2 DEF NeverBlamed, IInv, SameLocals, MapDevicePowerState
<1>8. LocalsOK'
  BY <1>2 DEF LocalsOK, IInv, SameLocals, MapDevicePowerState
<1>9. LastOrMoved'
  BY <1>2, <1>5 DEF LastOrMoved, IInv, SameLocals, MapDevicePowerState
<1>10. TypeOK'
  BY <1>3 DEF IInv, TypeOK, OtherDevice, goalVars, stateVars
<1> QED BY <1>6, <1>7, <1>8, <1>9, <1>10 DEF IInv

(* The driver has succeeded: only a driver that set another state than it  *)
(* was asked to is blamed.                                                 *)
LEMMA RecordKeeps ==
    ASSUME IInv, NEW t \in Thread, RecordSuccess(t)
    PROVE  IInv'
<1> DEFINE me == thread[t]
           st == CASE pendingDx = me.reqDx -> "success"
                   [] pendingDx # me.reqDx /\ (me.moved \/ dwNumPending > 1) -> "retry"
                   [] OTHER -> "assert"
           r == [me EXCEPT !.pc = "leave", !.status = st]
<1>1. /\ thread \in [Thread -> Record] /\ me \in Record /\ me.pc = "return"
      /\ me.newDx \in Dx /\ me.reqDx \in Supported
      /\ curDx \in Dx /\ actualDx \in Supported
  BY DEF IInv, TypeOK, LocalsOK, RecordSuccess
<1>2. thread' = [u \in Thread |-> IF u = t THEN r ELSE Marked(u)]
  BY DEF RecordSuccess, Marked
<1>3. st \in {"success", "retry", "assert"}
      /\ (st = "assert" => pendingDx # me.reqDx /\ ~ me.moved)
  BY <1>1 DEF Record
<1>4. /\ r \in Record /\ r.pc = "leave" /\ r.status = st
      /\ r.newDx = me.newDx /\ r.reqDx = me.reqDx
  BY <1>1, <1>3 DEF Record, Pc
<1> HIDE DEF r, st
<1>5. thread'[t] = r
  BY <1>2
<1>6. \A u \in Thread \ {t} : SameLocals(u)
  <2> SUFFICES ASSUME NEW u \in Thread \ {t} PROVE SameLocals(u)
    OBVIOUS
  <2>1. thread'[u] = Marked(u)
    BY <1>2
  <2> QED BY <1>1, <2>1, MarkedLocals
<1>7. thread' \in [Thread -> Record]
  BY <1>2, <1>4, <1>5, <1>6 DEF SameLocals
<1>8. UNCHANGED <<pendingDx, dwNumPending>>
  BY DEF RecordSuccess
<1>9. PendingCounted'
  <2>1. Inside' = Inside
    BY <1>1, <1>4, <1>5, <1>6 DEF Inside, SameLocals
  <2> QED BY <1>8, <2>1 DEF PendingCounted, IInv
<1>10. st = "assert" => me.reqDx # MapDevicePowerState(me.newDx)
  BY <1>1, <1>3 DEF IInv, LastOrMoved
<1>11. NeverBlamed' /\ LocalsOK'
  <2>1. r.status = "assert" => r.reqDx # MapDevicePowerState(r.newDx)
    BY <1>4, <1>10
  <2> QED BY <1>4, <1>5, <1>6, <2>1, SameInvariants
<1>12. LastOrMoved'
  BY <1>4, <1>5, <1>6, <1>8 DEF LastOrMoved, IInv, SameLocals, MapDevicePowerState
<1>13. curDx' \in Dx /\ actualDx' \in Supported
  BY <1>1 DEF RecordSuccess
<1>14. TypeOK'
  BY <1>7, <1>13 DEF IInv, TypeOK, RecordSuccess, goalVars
<1> QED BY <1>9, <1>11, <1>12, <1>14 DEF IInv

(* The driver has failed. *)
LEMMA RestoreKeeps ==
    ASSUME IInv, NEW t \in Thread, RestoreState(t)
    PROVE  IInv'
<1> DEFINE me == thread[t]
           r == [me EXCEPT !.pc = "leave"]
<1>1. /\ thread \in [Thread -> Record] /\ me \in Record
      /\ me.pc = "return" /\ me.status = "failed"
      /\ me.oldCurDx \in Dx /\ me.oldActualDx \in Supported
      /\ curDx \in Dx /\ actualDx \in Supported
  BY DEF IInv, TypeOK, LocalsOK, RestoreState
<1>2. r \in Record /\ r.pc = "leave" /\ r.status = "failed"
  BY <1>1 DEF Record, Pc
<1>3. thread' = [thread EXCEPT ![t] = r]
  BY <1>1 DEF RestoreState, Record
<1> HIDE DEF r
<1>4. UNCHANGED <<pendingDx, dwNumPending>>
  BY DEF RestoreState
<1>5. /\ thread' \in [Thread -> Record] /\ thread'[t] = r
      /\ \A u \in Thread \ {t} : thread'[u] = thread[u]
      /\ PendingCounted'
  BY <1>1, <1>2, <1>3, <1>4, StayInside DEF InsidePc
<1>6. NeverBlamed'
  BY <1>2, <1>5 DEF NeverBlamed, IInv, MapDevicePowerState
<1>7. LocalsOK'
  BY <1>2, <1>5 DEF LocalsOK, IInv, MapDevicePowerState
<1>8. LastOrMoved'
  BY <1>2, <1>4, <1>5 DEF LastOrMoved, IInv, MapDevicePowerState
<1>9. curDx' \in Dx /\ actualDx' \in Supported
  BY <1>1 DEF RestoreState
<1>10. TypeOK'
  BY <1>5, <1>9 DEF IInv, TypeOK, RestoreState, goalVars
<1> QED BY <1>5, <1>6, <1>7, <1>8, <1>10 DEF IInv

(* The thread leaves; the last one clears the pending state. *)
LEMMA LeaveKeeps ==
    ASSUME IInv, NEW t \in Thread, LeaveDriver(t)
    PROVE  IInv'
<1> DEFINE me == thread[t]
           pc == CASE me.status = "success" -> "check"
                   [] me.status = "retry" -> "update"
                   [] OTHER -> "finish"
           r == [me EXCEPT !.pc = pc]
<1>1. /\ thread \in [Thread -> Record] /\ me \in Record /\ me.pc = "leave"
      /\ pendingDx \in Supported \cup {Unspecified} /\ dwNumPending \in Nat
  BY DEF IInv, TypeOK, LeaveDriver
<1>2. pc \in {"check", "update", "finish"}
  OBVIOUS
<1>3. r \in Record /\ r.pc = pc /\ r.status = me.status
      /\ r.reqDx = me.reqDx /\ r.newDx = me.newDx
  BY <1>1, <1>2 DEF Record, Pc
<1>4. thread' = [thread EXCEPT ![t] = r]
  BY <1>1 DEF LeaveDriver, Record
<1> HIDE DEF r, pc
<1>5. thread' \in [Thread -> Record] /\ thread'[t] = r
      /\ \A u \in Thread \ {t} : thread'[u] = thread[u]
  BY <1>1, <1>3, <1>4
<1>6. Inside' = Inside \ {t} /\ t \in Inside
  BY <1>1, <1>2, <1>3, <1>5 DEF Inside
<1>7. dwNumPending = Cardinality(Inside) /\ (pendingDx = Unspecified <=> dwNumPending = 0)
  BY DEF IInv, PendingCounted
<1>8. Cardinality(Inside') = dwNumPending - 1
  BY <1>6, <1>7, InsideFinite, FS_RemoveElement
<1>9. dwNumPending # 0
  BY <1>6, <1>7, InsideFinite, FS_EmptySet
<1>10. /\ dwNumPending' = dwNumPending - 1
       /\ pendingDx' = IF dwNumPending = 1 THEN Unspecified ELSE pendingDx
  BY DEF LeaveDriver
<1>11. PendingCounted'
  BY <1>1, <1>7, <1>8, <1>9, <1>10 DEF PendingCounted
<1>12. ASSUME dwNumPending = 1 PROVE Inside = {t}
  <2>1. Cardinality(Inside') = 0 /\ IsFiniteSet(Inside')
    BY <1>6, <1>8, <1>12, InsideFinite, FS_RemoveElement
  <2>2. Inside' = {}
    BY <2>1, FS_EmptySet
  <2> QED BY <1>6, <2>2
<1>13. \A u \in Thread \ {t} :
          thread[u].pc \in {"driver", "return"} => pendingDx' = pendingDx
  BY <1>10, <1>12 DEF Inside
<1>14. NeverBlamed'
  BY <1>3, <1>5 DEF NeverBlamed, IInv, MapDevicePowerState
<1>15. LocalsOK'
  BY <1>2, <1>3, <1>5 DEF LocalsOK, IInv, MapDevicePowerState
<1>16. LastOrMoved'
  BY <1>2, <1>3, <1>5, <1>13 DEF LastOrMoved, IInv, MapDevicePowerState
<1>17. dwNumPending' \in Nat /\ pendingDx' \in Supported \cup {Unspecified}
  BY <1>1, <1>9, <1>10
<1>18. TypeOK'
  BY <1>5, <1>17 DEF IInv, TypeOK, LeaveDriver, goalVars
<1> QED BY <1>11, <1>14, <1>15, <1>16, <1>18 DEF IInv

(* The thread has left the driver. *)
LEMMA CheckKeeps ==
    ASSUME IInv, NEW t \in Thread, CheckRequest(t)
    PROVE  IInv'
<1> DEFINE new == lastReqDx # thread[t].oldLastReqDx
           r == [thread[t] EXCEPT !.pc = IF new THEN "update" ELSE "finish",
                                  !.status = IF new THEN "retry" ELSE "success"]
<1>1. thread \in [Thread -> Record] /\ thread[t] \in Record /\ thread[t].pc = "check"
  BY DEF IInv, TypeOK, CheckRequest
<1>2. /\ r \in Record /\ r.pc \in {"update", "finish"} /\ r.status # "assert"
  BY <1>1 DEF Record, Pc
<1>3. thread' = [thread EXCEPT ![t] = r]
  BY <1>1 DEF CheckRequest, Record
<1> HIDE DEF r
<1>4. thread' \in [Thread -> Record] /\ thread'[t] = r
      /\ \A u \in Thread \ {t} : thread'[u] = thread[u]
  BY <1>1, <1>2, <1>3
<1>5. UNCHANGED <<pendingDx, dwNumPending>>
  BY DEF CheckRequest, stateVars
<1>6. Books'
  BY <1>1, <1>2, <1>4, <1>5, OutsideStep DEF InsidePc
<1> QED BY <1>4, <1>6 DEF IInv, TypeOK, Books, CheckRequest, goalVars, stateVars

LEMMA FinishKeeps ==
    ASSUME IInv, NEW t \in Thread, FinishCall(t)
    PROVE  IInv'
<1>1. /\ thread \in [Thread -> Record] /\ thread[t].pc = "finish"
      /\ setDx \in Dx \cup {Unspecified} /\ required \subseteq Requirement
      /\ updating \in Thread \cup {NoThread}
  BY DEF IInv, TypeOK, FinishCall
<1>2. PICK r \in Record : /\ r.pc \in {"update", "idle"} /\ r.status = "success"
                          /\ thread' = [thread EXCEPT ![t] = r]
  <2> DEFINE again == [Idle EXCEPT !.pc = "update", !.api = "exit"]
  <2>1. again \in Record /\ again.pc = "update" /\ again.status = Idle.status
    BY IdleType DEF Record, Pc, Api
  <2>2. thread' = [thread EXCEPT ![t] = again] \/ thread' = [thread EXCEPT ![t] = Idle]
    BY DEF FinishCall
  <2> HIDE DEF again
  <2> QED BY <2>1, <2>2, IdleType
<1>3. thread' \in [Thread -> Record] /\ thread'[t] = r
      /\ \A u \in Thread \ {t} : thread'[u] = thread[u]
  BY <1>1, <1>2
<1>4. UNCHANGED <<pendingDx, dwNumPending>>
  BY DEF FinishCall, stateVars
<1>5. Books'
  BY <1>1, <1>2, <1>3, <1>4, OutsideStep DEF InsidePc
<1>6. setDx' \in Dx \cup {Unspecified}
  BY <1>1 DEF FinishCall
<1>7. required' \subseteq Requirement /\ updating' \in Thread \cup {NoThread}
  BY <1>1 DEF FinishCall
<1> QED BY <1>3, <1>5, <1>6, <1>7 DEF IInv, TypeOK, Books, FinishCall, stateVars

-----------------------------------------------------------------------------
(* An interface that finds no device to update. *)
LEMMA NothingKeeps ==
    ASSUME IInv, UpdateNothing, required' \subseteq Requirement, systemState' \in SystemState
    PROVE  IInv'
<1>1. calls' \in 0 .. MaxCalls
  BY BoundAssumption DEF UpdateNothing, IInv, TypeOK
<1> QED BY <1>1 DEF UpdateNothing, stateVars, IInv, TypeOK, PendingCounted,
                    NeverBlamed, LocalsOK, LastOrMoved, Inside, MapDevicePowerState

(* No step breaks the invariant. *)
LEMMA NextKeeps == IInv /\ [Next]_vars => IInv'
<1> SUFFICES ASSUME IInv, [Next]_vars PROVE IInv'
  OBVIOUS
<1>1. ASSUME NEW t \in Thread, NewCall(t) PROVE IInv'
  BY <1>1, NewCallKeeps
<1>2. ASSUME NEW t \in Thread, Run(t) PROVE IInv'
  BY <1>2, ComputeKeeps, EnterKeeps, DriverKeeps, RecordKeeps, RestoreKeeps, LeaveKeeps,
     CheckKeeps, FinishKeeps DEF Run
<1>3. ASSUME NEW q \in Requirement, PmSetLaterRequirement(q) \/ ReleaseEarlyRequirement(q)
      PROVE  IInv'
  BY <1>3, NothingKeeps DEF PmSetLaterRequirement, ReleaseEarlyRequirement, IInv, TypeOK
<1>4. ASSUME NEW s \in SystemState, SetStateOfOthers(s) PROVE IInv'
  BY <1>4, NothingKeeps DEF SetStateOfOthers, IInv, TypeOK
<1>5. CASE RemoveDevice
  BY <1>5 DEF RemoveDevice, goalVars, stateVars, IInv, TypeOK, PendingCounted,
              NeverBlamed, LocalsOK, LastOrMoved, Inside, MapDevicePowerState
<1>6. CASE OtherDevice
  BY <1>6, OtherDeviceKeeps
<1>7. CASE UNCHANGED vars
  BY <1>7 DEF vars, goalVars, stateVars, IInv, TypeOK, PendingCounted,
              NeverBlamed, LocalsOK, LastOrMoved, Inside, MapDevicePowerState
<1> QED BY <1>1, <1>2, <1>3, <1>4, <1>5, <1>6, <1>7 DEF Next

(* The invariant holds in every state that the power manager can reach. *)
THEOREM InductiveInvariant == Spec => []IInv
<1>1. Init => IInv
  BY InitIInv
<1>2. IInv /\ [Next]_vars => IInv'
  BY NextKeeps
<1> QED BY <1>1, <1>2, PTL DEF Spec

(* Every variable has its type; in particular, the power manager only ever *)
(* asks a device for a state that it supports, and thinks it in such one.  *)
THEOREM TypeCorrect == Spec => []TypeOK
<1>1. IInv => TypeOK
  BY DEF IInv
<1> QED BY <1>1, InductiveInvariant, PTL

(* dwNumPending counts the threads inside the driver, and pendingDx is     *)
(* unspecified exactly when there are none: the debug checks never fail.   *)
THEOREM ThreadsCounted == Spec => []PendingCounted
<1>1. IInv => PendingCounted
  BY DEF IInv
<1> QED BY <1>1, InductiveInvariant, PTL

(* The assertion of SetDevicePower fails only for a driver that returned   *)
(* another state than it was asked for, however many threads race.         *)
THEOREM HonestNeverBlamed == Spec => []NeverBlamed
<1>1. IInv => NeverBlamed
  BY DEF IInv
<1> QED BY <1>1, InductiveInvariant, PTL

-----------------------------------------------------------------------------
(***************************************************************************)
(* What each step of a thread does to it and to the others: the facts that *)
(* the invariants about races, wishes and the update lock rest on.         *)
(***************************************************************************)
SameOthers(t) == \A u \in Thread \ {t} : SameLocals(u)
SameAims(t) ==
    /\ thread'[t].newDx = thread[t].newDx /\ thread'[t].reqDx = thread[t].reqDx
    /\ thread'[t].oldLastReqDx = thread[t].oldLastReqDx

LEMMA OneChanged ==
    ASSUME thread \in [Thread -> Record], NEW t \in Thread, NEW r,
           thread' = [thread EXCEPT ![t] = r]
    PROVE  thread'[t] = r /\ SameOthers(t)
BY DEF SameOthers, SameLocals

LEMMA AllMarked ==
    ASSUME thread \in [Thread -> Record], NEW t \in Thread, NEW r,
           thread' = [u \in Thread |-> IF u = t THEN r ELSE Marked(u)]
    PROVE  thread'[t] = r /\ SameOthers(t)
<1>1. thread'[t] = r
  OBVIOUS
<1>2. ASSUME NEW u \in Thread \ {t} PROVE SameLocals(u)
  <2>1. thread'[u] = Marked(u)
    OBVIOUS
  <2> QED BY <2>1, MarkedLocals
<1> QED BY <1>1, <1>2 DEF SameOthers

LEMMA NewCallFacts ==
    ASSUME TypeOK, NEW t \in Thread, NewCall(t)
    PROVE  /\ thread[t].pc = "idle" /\ thread'[t].pc = "update"
           /\ thread'[t].status = thread[t].status /\ SameOthers(t)
           /\ UNCHANGED <<stateVars, hardware, raced>>
<1>1. PICK api \in Api : Call(t, api)
  BY DEF NewCall, PmDevicePowerNotify, PmSetDevicePower, PmSetPowerRequirement,
         PmReleasePowerRequirement, DeleteProcessRequirements, PmSetSystemPowerState, AddDevice,
         Find, Api
<1> DEFINE r == [thread[t] EXCEPT !.pc = "update", !.api = api]
<1>2. thread \in [Thread -> Record] /\ thread[t] \in Record
  BY DEF TypeOK
<1>3. thread' = [thread EXCEPT ![t] = r]
  BY <1>1, <1>2 DEF Call, Record
<1>4. r.pc = "update" /\ r.status = thread[t].status
  BY <1>2 DEF Record
<1> HIDE DEF r
<1> QED BY <1>1, <1>2, <1>3, <1>4, OneChanged DEF Call

LEMMA ComputeFacts ==
    ASSUME TypeOK, NEW t \in Thread, ComputeState(t)
    PROVE  /\ thread[t].pc = "update" /\ SameOthers(t)
           /\ UNCHANGED <<goalVars, stateVars, hardware, listed, updating, raced>>
           /\ listed = "off" => thread'[t].pc = "fault"
           /\ listed # "off" =>
                /\ thread'[t].pc \in {"enter", "finish"} /\ thread'[t].status = "success"
                /\ thread'[t].oldLastReqDx = lastReqDx
                /\ thread'[t].pc = "enter" => thread'[t].newDx = DesiredDx
                /\ thread'[t].pc = "finish" => curDx = DesiredDx
<1>1. thread \in [Thread -> Record] /\ thread[t] \in Record
  BY DEF TypeOK
<1>2. thread[t].pc = "update"
      /\ UNCHANGED <<goalVars, stateVars, hardware, listed, updating, raced>>
  BY DEF ComputeState
<1>3. CASE listed = "off"
  <2>1. thread' = [thread EXCEPT ![t] = [Idle EXCEPT !.pc = "fault"]]
    BY <1>3 DEF ComputeState
  <2>2. [Idle EXCEPT !.pc = "fault"].pc = "fault"
    BY DEF Idle
  <2> QED BY <1>1, <1>2, <1>3, <2>1, <2>2, OneChanged
<1>4. CASE listed # "off"
  <2> DEFINE new == GetNewDeviceDx
             force == new = Unspecified /\ (dwNumPending # 0 \/ thread[t].status = "retry")
             aim == IF force THEN curDx ELSE new
             step == IF new = Unspecified /\ ~ force THEN "finish" ELSE "enter"
             r == [thread[t] EXCEPT !.newDx = aim, !.force = force, !.oldLastReqDx = lastReqDx,
                                    !.status = "success", !.pc = step]
  <2>1. thread' = [thread EXCEPT ![t] = r]
    BY <1>4 DEF ComputeState
  <2>2. /\ step \in {"enter", "finish"}
        /\ step = "enter" => aim = DesiredDx
        /\ step = "finish" => curDx = DesiredDx
    BY DesiredType, UnspecifiedNoState DEF GetNewDeviceDx
  <2> HIDE DEF new, force, aim, step
  <2>3. r.newDx = aim /\ r.oldLastReqDx = lastReqDx /\ r.status = "success" /\ r.pc = step
    BY <1>1 DEF Record
  <2> HIDE DEF r
  <2> QED BY <1>1, <1>2, <1>4, <2>1, <2>2, <2>3, OneChanged
<1> QED BY <1>3, <1>4

LEMMA EnterFacts ==
    ASSUME TypeOK, NEW t \in Thread, EnterDriver(t)
    PROVE  LET req == MapDevicePowerState(thread[t].newDx)
           IN /\ thread[t].pc = "enter" /\ SameOthers(t)
              /\ UNCHANGED <<goalVars, curDx, actualDx, hardware, listed, updating, raced>>
              /\ thread'[t].newDx = thread[t].newDx /\ thread'[t].status = thread[t].status
              /\ thread'[t].oldLastReqDx = thread[t].oldLastReqDx
              /\ \/ thread'[t].pc = "driver" /\ thread'[t].reqDx = req /\ pendingDx' = req
                 \/ thread'[t].pc = "check" /\ req = actualDx /\ pendingDx' = pendingDx
<1> DEFINE me == thread[t]
           req == MapDevicePowerState(me.newDx)
<1>1. thread \in [Thread -> Record] /\ me \in Record
  BY DEF TypeOK
<1>2. me.pc = "enter" /\ UNCHANGED <<goalVars, curDx, actualDx, hardware, listed, updating, raced>>
  BY DEF EnterDriver
<1>3. CASE req # actualDx \/ dwNumPending # 0 \/ me.force
  <2> DEFINE r == [me EXCEPT !.reqDx = req, !.oldCurDx = curDx, !.oldActualDx = actualDx,
                             !.moved = FALSE, !.pc = "driver"]
  <2>1. /\ pendingDx' = req
        /\ thread' = [u \in Thread |-> IF u = t THEN r ELSE Marked(u)]
    BY <1>3 DEF EnterDriver, Marked
  <2> HIDE DEF req
  <2>2. /\ r.pc = "driver" /\ r.reqDx = req /\ r.newDx = me.newDx
        /\ r.oldLastReqDx = me.oldLastReqDx /\ r.status = me.status
    BY <1>1 DEF Record
  <2> HIDE DEF r
  <2>3. thread'[t] = r /\ SameOthers(t)
    BY <1>1, <2>1, AllMarked
  <2> QED BY <1>2, <2>1, <2>2, <2>3 DEF req
<1>4. CASE ~ (req # actualDx \/ dwNumPending # 0 \/ me.force)
  <2> DEFINE r == [me EXCEPT !.pc = "check"]
  <2>1. thread' = [thread EXCEPT ![t] = r] /\ pendingDx' = pendingDx
    BY <1>1, <1>4 DEF EnterDriver, Record
  <2>2. /\ r.pc = "check" /\ r.newDx = me.newDx
        /\ r.oldLastReqDx = me.oldLastReqDx /\ r.status = me.status
    BY <1>1 DEF Record
  <2> HIDE DEF r
  <2>3. thread'[t] = r /\ SameOthers(t)
    BY <1>1, <2>1, OneChanged
  <2> QED BY <1>2, <1>4, <2>1, <2>2, <2>3
<1> QED BY <1>3, <1>4

LEMMA DriverFacts ==
    ASSUME TypeOK, Obedient, NEW t \in Thread, NEW answer \in Answers, Driver(t, answer)
    PROVE  /\ thread[t].pc = "driver" /\ thread'[t].pc = "return" /\ SameOthers(t)
           /\ SameAims(t) /\ thread'[t].status = thread[t].status
           /\ hardware' = thread[t].reqDx
           /\ UNCHANGED <<goalVars, stateVars, listed, updating, raced>>
<1> DEFINE me == thread[t]
           r == [me EXCEPT !.reqDx = me.reqDx, !.pc = "return"]
<1>1. thread \in [Thread -> Record] /\ me \in Record /\ answer = "done"
  BY DEF TypeOK, Obedient
<1>2. /\ me.pc = "driver" /\ UNCHANGED <<goalVars, stateVars, listed, updating, raced>>
      /\ hardware' = me.reqDx /\ thread' = [thread EXCEPT ![t] = r]
  BY <1>1 DEF Driver
<1>3. /\ r.pc = "return" /\ r.reqDx = me.reqDx /\ r.newDx = me.newDx
      /\ r.oldLastReqDx = me.oldLastReqDx /\ r.status = me.status
  BY <1>1 DEF Record
<1> HIDE DEF r
<1>4. thread'[t] = r /\ SameOthers(t)
  BY <1>1, <1>2, OneChanged
<1> QED BY <1>2, <1>3, <1>4 DEF SameAims

LEMMA RecordFacts ==
    ASSUME TypeOK, NEW t \in Thread, RecordSuccess(t)
    PROVE  /\ thread[t].pc = "return" /\ thread'[t].pc = "leave" /\ SameOthers(t) /\ SameAims(t)
           /\ UNCHANGED <<goalVars, pendingDx, hardware, listed, updating>>
           /\ raced' = (raced \/ pendingDx # thread[t].reqDx)
           /\ pendingDx = thread[t].reqDx =>
                /\ thread'[t].status = "success"
                /\ curDx' = thread[t].newDx /\ actualDx' = thread[t].reqDx
           /\ pendingDx # thread[t].reqDx =>
                /\ thread'[t].status \in {"retry", "assert"}
                /\ UNCHANGED <<curDx, actualDx>>
<1> DEFINE me == thread[t]
           st == CASE pendingDx = me.reqDx -> "success"
                   [] pendingDx # me.reqDx /\ (me.moved \/ dwNumPending > 1) -> "retry"
                   [] OTHER -> "assert"
           r == [me EXCEPT !.pc = "leave", !.status = st]
<1>1. thread \in [Thread -> Record] /\ me \in Record
  BY DEF TypeOK
<1>2. thread' = [u \in Thread |-> IF u = t THEN r ELSE Marked(u)]
  BY DEF RecordSuccess, Marked
<1>3. /\ pendingDx = me.reqDx => st = "success"
      /\ pendingDx # me.reqDx => st \in {"retry", "assert"}
  OBVIOUS
<1> HIDE DEF st
<1>4. /\ r.pc = "leave" /\ r.status = st /\ r.newDx = me.newDx /\ r.reqDx = me.reqDx
      /\ r.oldLastReqDx = me.oldLastReqDx
  BY <1>1 DEF Record
<1> HIDE DEF r
<1>5. thread'[t] = r /\ SameOthers(t)
  BY <1>1, <1>2, AllMarked
<1>6. /\ me.pc = "return" /\ UNCHANGED <<goalVars, pendingDx, hardware, listed, updating>>
      /\ pendingDx = me.reqDx => curDx' = me.newDx /\ actualDx' = me.reqDx
      /\ pendingDx # me.reqDx => UNCHANGED <<curDx, actualDx>>
  BY DEF RecordSuccess
<1>7. raced' = (raced \/ pendingDx # me.reqDx)
  BY Zenon DEF RecordSuccess
<1> QED BY <1>3, <1>4, <1>5, <1>6, <1>7, Zenon DEF SameAims

LEMMA LeaveFacts ==
    ASSUME TypeOK, NEW t \in Thread, LeaveDriver(t)
    PROVE  /\ thread[t].pc = "leave" /\ SameOthers(t) /\ SameAims(t)
           /\ thread'[t].status = thread[t].status
           /\ thread[t].status = "success" => thread'[t].pc = "check"
           /\ thread[t].status = "retry" => thread'[t].pc = "update"
           /\ thread[t].status \notin {"success", "retry"} => thread'[t].pc = "finish"
           /\ pendingDx' \in {pendingDx, Unspecified}
           /\ UNCHANGED <<goalVars, curDx, actualDx, hardware, listed, updating, raced>>
<1> DEFINE me == thread[t]
           pc == CASE me.status = "success" -> "check"
                   [] me.status = "retry" -> "update"
                   [] OTHER -> "finish"
           r == [me EXCEPT !.pc = pc]
<1>1. thread \in [Thread -> Record] /\ me \in Record
  BY DEF TypeOK
<1>2. /\ me.status = "success" => pc = "check"
      /\ me.status = "retry" => pc = "update"
      /\ me.status \notin {"success", "retry"} => pc = "finish"
  OBVIOUS
<1>3. thread' = [thread EXCEPT ![t] = r]
  BY <1>1 DEF LeaveDriver, Record
<1> HIDE DEF pc
<1>4. /\ r.pc = pc /\ r.status = me.status /\ r.newDx = me.newDx /\ r.reqDx = me.reqDx
      /\ r.oldLastReqDx = me.oldLastReqDx
  BY <1>1 DEF Record
<1> HIDE DEF r
<1>5. thread'[t] = r /\ SameOthers(t)
  BY <1>1, <1>3, OneChanged
<1>6. /\ me.pc = "leave" /\ pendingDx' \in {pendingDx, Unspecified}
      /\ UNCHANGED <<goalVars, curDx, actualDx, hardware, listed, updating, raced>>
  BY DEF LeaveDriver
<1> QED BY <1>2, <1>4, <1>5, <1>6 DEF SameAims

LEMMA CheckFacts ==
    ASSUME TypeOK, NEW t \in Thread, CheckRequest(t)
    PROVE  /\ thread[t].pc = "check" /\ SameOthers(t) /\ SameAims(t)
           /\ UNCHANGED <<goalVars, stateVars, hardware, listed, updating, raced>>
           /\ lastReqDx # thread[t].oldLastReqDx => thread'[t].pc = "update"
           /\ lastReqDx = thread[t].oldLastReqDx =>
                thread'[t].pc = "finish" /\ thread'[t].status = "success"
<1> DEFINE me == thread[t]
           new == lastReqDx # me.oldLastReqDx
           r == [me EXCEPT !.pc = IF new THEN "update" ELSE "finish",
                           !.status = IF new THEN "retry" ELSE "success"]
<1>1. thread \in [Thread -> Record] /\ me \in Record
  BY DEF TypeOK
<1>2. thread' = [thread EXCEPT ![t] = r]
  BY <1>1 DEF CheckRequest, Record
<1>3. /\ r.newDx = me.newDx /\ r.reqDx = me.reqDx /\ r.oldLastReqDx = me.oldLastReqDx
      /\ new => r.pc = "update"
      /\ ~ new => r.pc = "finish" /\ r.status = "success"
  BY <1>1 DEF Record
<1> HIDE DEF r
<1>4. thread'[t] = r /\ SameOthers(t)
  BY <1>1, <1>2, OneChanged
<1>5. me.pc = "check" /\ UNCHANGED <<goalVars, stateVars, hardware, listed, updating, raced>>
  BY DEF CheckRequest
<1> QED BY <1>3, <1>4, <1>5 DEF SameAims

LEMMA FinishFacts ==
    ASSUME TypeOK, NEW t \in Thread, FinishCall(t)
    PROVE  /\ thread[t].pc = "finish" /\ SameOthers(t)
           /\ thread'[t].pc \in {"idle", "update"} /\ thread'[t].status = "success"
           /\ thread'[t].pc = "idle" => required' = required
           /\ thread'[t].pc = "update" => updating' = updating
           /\ required' \subseteq required /\ setDx' \in {setDx, Unspecified}
           /\ thread[t].status = "success" => setDx' = setDx
           /\ UNCHANGED <<lastReqDx, systemState, stateVars, hardware, listed, raced>>
<1> DEFINE more == thread[t].api = "exit" /\ required \cap Dying # {}
           again == [Idle EXCEPT !.pc = "update", !.api = "exit"]
<1>1. thread \in [Thread -> Record]
  BY DEF TypeOK
<1>2. /\ thread[t].pc = "finish" /\ setDx' \in {setDx, Unspecified}
      /\ thread[t].status = "success" => setDx' = setDx
      /\ UNCHANGED <<lastReqDx, systemState, stateVars, hardware, listed, raced>>
  BY DEF FinishCall
<1>3. CASE more
  <2>1. thread' = [thread EXCEPT ![t] = again] /\ updating' = updating /\ required' \subseteq required
    BY <1>3 DEF FinishCall
  <2>2. again.pc = "update" /\ again.status = "success"
    BY DEF Idle
  <2> HIDE DEF again
  <2> QED BY <1>1, <1>2, <2>1, <2>2, OneChanged
<1>4. CASE ~ more
  <2>1. thread' = [thread EXCEPT ![t] = Idle] /\ required' = required
    BY <1>4 DEF FinishCall
  <2> QED BY <1>1, <1>2, <2>1, IdleType, OneChanged
<1> QED BY <1>3, <1>4

LEMMA OtherFacts ==
    ASSUME TypeOK, OtherDevice
    PROVE  /\ \A u \in Thread : SameLocals(u)
           /\ UNCHANGED <<goalVars, stateVars, hardware, listed, updating, raced>>
<1>1. thread \in [Thread -> Record]
  BY DEF TypeOK
<1>2. ASSUME NEW u \in Thread PROVE SameLocals(u)
  <2>1. thread'[u] = Marked(u)
    BY DEF OtherDevice, Marked
  <2> QED BY <1>1, <2>1, MarkedLocals
<1> QED BY <1>2 DEF OtherDevice

(* The steps in which no thread moves. *)
LEMMA StillFacts ==
    ASSUME TypeOK, UNCHANGED thread
    PROVE  \A u \in Thread : SameLocals(u)
BY DEF TypeOK, SameLocals

-----------------------------------------------------------------------------
(***************************************************************************)
(* Races are noticed, by a driver that does as it is told.                 *)
(***************************************************************************)
LEMMA RaceInit == Init => RaceIInv
<1> SUFFICES ASSUME Init PROVE RaceIInv
  OBVIOUS
<1>1. \A t \in Thread : thread[t].pc = "idle"
  BY IdleType DEF Init
<1> QED BY <1>1 DEF Init, RaceIInv, NoFailure, AskedLast

(* A step outside of the driver. *)
LEMMA RaceAside ==
    ASSUME RaceIInv, NEW t \in Thread, SameOthers(t),
           thread[t].pc \notin {"driver", "return"}, thread'[t].pc \notin {"driver", "return"},
           pendingDx' \in {pendingDx, Unspecified}, UNCHANGED <<hardware, actualDx, raced>>
    PROVE  RaceIInv'
<1>1. \A u \in Thread \ {t} : /\ thread'[u].pc = thread[u].pc /\ thread'[u].reqDx = thread[u].reqDx
                               /\ thread'[u].status = thread[u].status
  BY DEF SameOthers, SameLocals
<1>2. Unrecorded' = Unrecorded
  BY <1>1 DEF Unrecorded
<1>3. NoFailure'
  BY <1>1 DEF RaceIInv, NoFailure
<1>4. AskedLast'
  BY <1>1, <1>2 DEF RaceIInv, AskedLast, Unrecorded
<1> QED BY <1>2, <1>3, <1>4 DEF RaceIInv

LEMMA RaceStill ==
    ASSUME RaceIInv, \A u \in Thread : SameLocals(u),
           UNCHANGED <<pendingDx, hardware, actualDx, raced>>
    PROVE  RaceIInv'
<1>1. \A u \in Thread : /\ thread'[u].pc = thread[u].pc /\ thread'[u].reqDx = thread[u].reqDx
                        /\ thread'[u].status = thread[u].status
  BY DEF SameLocals
<1>2. Unrecorded' = Unrecorded
  BY <1>1 DEF Unrecorded
<1>3. NoFailure'
  BY <1>1 DEF RaceIInv, NoFailure
<1>4. AskedLast'
  BY <1>1, <1>2 DEF RaceIInv, AskedLast, Unrecorded
<1> QED BY <1>2, <1>3, <1>4 DEF RaceIInv

LEMMA RaceEnter ==
    ASSUME TypeOK, RaceIInv, NEW t \in Thread, EnterDriver(t)
    PROVE  RaceIInv'
<1>1. /\ thread[t].pc = "enter" /\ SameOthers(t) /\ UNCHANGED <<actualDx, hardware, raced>>
      /\ \/ thread'[t].pc = "driver" /\ thread'[t].reqDx = pendingDx'
         \/ thread'[t].pc = "check" /\ pendingDx' = pendingDx
  BY EnterFacts
<1>2. CASE thread'[t].pc = "driver" /\ thread'[t].reqDx = pendingDx'
  <2>1. t \in Unrecorded'
    BY <1>2 DEF Unrecorded
  <2>2. NoFailure'
    BY <1>1, <1>2 DEF RaceIInv, NoFailure, SameOthers, SameLocals
  <2>3. AskedLast'
    BY <1>2 DEF AskedLast
  <2> QED BY <2>1, <2>2, <2>3 DEF RaceIInv
<1>3. CASE thread'[t].pc = "check" /\ pendingDx' = pendingDx
  BY <1>1, <1>3, RaceAside
<1> QED BY <1>1, <1>2, <1>3

LEMMA RaceDriver ==
    ASSUME TypeOK, Obedient, RaceIInv, LocalsOK, NEW t \in Thread, NEW answer \in Answers,
           Driver(t, answer)
    PROVE  RaceIInv'
<1>1. /\ thread[t].pc = "driver" /\ thread'[t].pc = "return" /\ SameOthers(t)
      /\ thread'[t].reqDx = thread[t].reqDx /\ thread'[t].status = thread[t].status
      /\ hardware' = thread[t].reqDx /\ UNCHANGED <<pendingDx, raced>>
  BY DriverFacts DEF SameAims, stateVars
<1>2. \A u \in Thread \ {t} : /\ thread'[u].pc = thread[u].pc /\ thread'[u].reqDx = thread[u].reqDx
                               /\ thread'[u].status = thread[u].status
  BY <1>1 DEF SameOthers, SameLocals
<1>3. t \in Unrecorded'
  BY <1>1 DEF Unrecorded
<1>4. NoFailure'
  BY <1>1, <1>2 DEF RaceIInv, NoFailure, LocalsOK
<1>5. AskedLast'
  <2>1. CASE thread[t].reqDx = pendingDx
    BY <1>1, <2>1 DEF AskedLast
  <2>2. CASE thread[t].reqDx # pendingDx
    BY <1>1, <1>3, <2>2 DEF AskedLast
  <2> QED BY <2>1, <2>2
<1> QED BY <1>3, <1>4, <1>5 DEF RaceIInv

LEMMA RaceRecord ==
    ASSUME TypeOK, LocalsOK, RaceIInv, NEW t \in Thread, RecordSuccess(t)
    PROVE  RaceIInv'
<1>1. /\ thread[t].pc = "return" /\ thread'[t].pc = "leave" /\ SameOthers(t)
      /\ UNCHANGED <<pendingDx, hardware>>
      /\ pendingDx # thread[t].reqDx => raced'
      /\ pendingDx = thread[t].reqDx => (raced' => raced) /\ actualDx' = pendingDx
  BY RecordFacts
<1>2. \A u \in Thread \ {t} : /\ thread'[u].pc = thread[u].pc /\ thread'[u].reqDx = thread[u].reqDx
                               /\ thread'[u].status = thread[u].status
  BY <1>1 DEF SameOthers, SameLocals
<1>3. NoFailure'
  BY <1>1, <1>2 DEF RaceIInv, NoFailure
<1>4. Unrecorded' = Unrecorded \ {t}
  BY <1>1, <1>2 DEF Unrecorded
<1>5. CASE raced'
  BY <1>3, <1>5 DEF RaceIInv, AskedLast
<1>6. CASE ~ raced'
  <2>1. pendingDx = thread[t].reqDx /\ actualDx' = pendingDx
    BY <1>1, <1>6
  <2>2. ~ raced
    BY <1>6, RecordFacts, Zenon
  <2>3. pendingDx # Unspecified
    BY <1>1, <2>1, SupportedAssumption, UnspecifiedNoState DEF LocalsOK
  <2>4. \/ hardware = pendingDx
        \/ \E u \in Thread \ {t} : thread'[u].pc = "driver" /\ thread'[u].reqDx = pendingDx
        \/ \E u \in Unrecorded' : thread'[u].reqDx # pendingDx
    BY <1>1, <1>2, <1>4, <2>1, <2>2, <2>3 DEF RaceIInv, AskedLast, Unrecorded
  <2>5. AskedLast'
    BY <1>1, <2>4 DEF AskedLast
  <2>6. Unrecorded' = {} => hardware' = actualDx'
    BY <1>1, <2>1, <2>4 DEF Unrecorded
  <2> QED BY <1>3, <2>5, <2>6 DEF RaceIInv
<1> QED BY <1>5, <1>6

LEMMA RaceNext == Obedient /\ IInv /\ RaceIInv /\ [Next]_vars => RaceIInv'
<1> SUFFICES ASSUME Obedient, IInv, RaceIInv, [Next]_vars PROVE RaceIInv'
  OBVIOUS
<1> TypeOK /\ LocalsOK
  BY DEF IInv
<1>1. ASSUME NEW t \in Thread, NewCall(t) PROVE RaceIInv'
  BY <1>1, NewCallFacts, RaceAside DEF stateVars
<1>2. ASSUME NEW t \in Thread, ComputeState(t) PROVE RaceIInv'
  <2>1. /\ thread[t].pc = "update" /\ thread'[t].pc \in {"fault", "enter", "finish"}
        /\ SameOthers(t) /\ UNCHANGED <<stateVars, hardware, raced>>
    BY <1>2, ComputeFacts
  <2> QED BY <2>1, RaceAside DEF stateVars
<1>3. ASSUME NEW t \in Thread, RestoreState(t) PROVE RaceIInv'
  BY <1>3 DEF RestoreState, RaceIInv, NoFailure
<1>4. ASSUME NEW t \in Thread, LeaveDriver(t) PROVE RaceIInv'
  <2>1. /\ thread[t].pc = "leave" /\ thread'[t].pc \in {"check", "update", "finish"}
        /\ SameOthers(t) /\ pendingDx' \in {pendingDx, Unspecified}
        /\ UNCHANGED <<actualDx, hardware, raced>>
    BY <1>4, LeaveFacts
  <2> QED BY <2>1, RaceAside
<1>5. ASSUME NEW t \in Thread, CheckRequest(t) PROVE RaceIInv'
  <2>1. /\ thread[t].pc = "check" /\ thread'[t].pc \in {"update", "finish"}
        /\ SameOthers(t) /\ UNCHANGED <<stateVars, hardware, raced>>
    BY <1>5, CheckFacts
  <2> QED BY <2>1, RaceAside DEF stateVars
<1>6. ASSUME NEW t \in Thread, FinishCall(t) PROVE RaceIInv'
  BY <1>6, FinishFacts, RaceAside DEF stateVars
<1>7. CASE OtherDevice
  BY <1>7, OtherFacts, RaceStill DEF stateVars
<1>8. ASSUME UNCHANGED <<thread, stateVars, hardware, raced>> PROVE RaceIInv'
  BY <1>8, StillFacts, RaceStill DEF stateVars
<1>9. ASSUME NEW t \in Thread, Run(t) PROVE RaceIInv'
  BY <1>2, <1>3, <1>4, <1>5, <1>6, <1>9, RaceEnter, RaceDriver, RaceRecord DEF Run
<1>10. CASE \/ \E q \in Requirement : PmSetLaterRequirement(q) \/ ReleaseEarlyRequirement(q)
            \/ \E s \in SystemState : SetStateOfOthers(s)
            \/ RemoveDevice \/ UNCHANGED vars
  <2>1. UNCHANGED <<thread, stateVars, hardware, raced>>
    BY <1>10 DEF PmSetLaterRequirement, ReleaseEarlyRequirement, SetStateOfOthers, UpdateNothing,
                 RemoveDevice, vars
  <2> QED BY <1>8, <2>1
<1> QED BY <1>1, <1>7, <1>9, <1>10 DEF Next

(***************************************************************************)
(* Threads that race for a driver that does as it is told: as long as no   *)
(* thread was told to retry, the power manager is right about the state    *)
(* the device is in, for any number of threads, requirements and states.   *)
(***************************************************************************)
THEOREM RacesAreNoticed == Obedient => (Spec => []RacesNoticed)
<1> SUFFICES ASSUME Obedient PROVE Spec => []RacesNoticed
  OBVIOUS
<1>1. IInv /\ RaceIInv /\ [Next]_vars => RaceIInv'
  BY RaceNext
<1>2. RaceIInv => RacesNoticed
  BY DEF RaceIInv, RacesNoticed, AtRest, Unrecorded
<1> QED BY <1>1, <1>2, RaceInit, InductiveInvariant, PTL DEF Spec

-----------------------------------------------------------------------------
(***************************************************************************)
(* The books show the driver's last wish, when only its wishes change.     *)
(***************************************************************************)
LEMMA RestFloor ==
    ASSUME TypeOK, OnlyWishes, GoalsAtRest
    PROVE  DesiredDx = lastReqDx
<1>1. FloorDx = 4
  <2>1. Min({4}) \in {4}
    BY MinDx DEF Dx
  <2>2. {4} \cup {q.dx : q \in {p \in required : Applies(p)}} = {4}
    BY DEF GoalsAtRest
  <2> QED BY <2>1, <2>2 DEF FloorDx
<1>2. CeilingDx = 0
  BY DEF OnlyWishes, GoalsAtRest, CeilingDx
<1>3. lastReqDx \in 0 .. 4
  BY DEF TypeOK, Dx
<1>4. Bounded(lastReqDx) = lastReqDx
  BY <1>1, <1>2, <1>3 DEF Bounded
<1> QED BY <1>4 DEF DesiredDx, GoalsAtRest

LEMMA WishInit == OnlyWishes /\ Init => WishIInv
<1> SUFFICES ASSUME OnlyWishes, Init PROVE WishIInv
  OBVIOUS
<1>1. \A t \in Thread : thread[t].pc = "idle"
  BY IdleType DEF Init
<1>2. MapDevicePowerState(0) = 0
  BY SupportedAssumption, MapSupported DEF Dx
<1> QED BY <1>1, <1>2 DEF Init, WishIInv, NoFailure, GoalsAtRest, WishOf

(***************************************************************************)
(* A step of a thread, while the wish stays the same.  The last hypothesis *)
(* is what it owes the others: to set the wish, to stay busy until it is   *)
(* set, or to leave the books alone if it was not busy.                    *)
(***************************************************************************)
LEMMA WishStep ==
    ASSUME WishIInv, NEW t \in Thread, SameOthers(t), GoalsAtRest',
           lastReqDx' = lastReqDx, actualDx' = MapDevicePowerState(curDx'),
           thread'[t].pc = "return" => thread'[t].status = "success",
           WishOf(t)',
           \/ actualDx' = MapDevicePowerState(lastReqDx)
           \/ Busy(t)'
           \/ actualDx' = actualDx /\ ~ Busy(t)
    PROVE  WishIInv'
<1>1. \A u \in Thread \ {t} : SameLocals(u)
  BY DEF SameOthers
<1>2. ASSUME NEW u \in Thread \ {t} PROVE WishOf(u)' /\ (Busy(u) => Busy(u)')
  <2>1. WishOf(u)
    BY DEF WishIInv
  <2>2. /\ thread'[u].pc = thread[u].pc /\ thread'[u].reqDx = thread[u].reqDx
        /\ thread'[u].newDx = thread[u].newDx /\ thread'[u].status = thread[u].status
        /\ thread'[u].oldLastReqDx = thread[u].oldLastReqDx
    BY <1>1 DEF SameLocals
  <2>3. WishOf(u)'
    BY <2>1, <2>2 DEF WishOf
  <2>4. Busy(u) => Busy(u)'
    BY <2>2 DEF Busy
  <2> QED BY <2>3, <2>4
<1>3. NoFailure'
  BY <1>1 DEF WishIInv, NoFailure, SameLocals
<1>4. \A u \in Thread : WishOf(u)'
  BY <1>2
<1>5. actualDx' = MapDevicePowerState(lastReqDx)' \/ \E u \in Thread : Busy(u)'
  BY <1>2 DEF WishIInv
<1> QED BY <1>3, <1>4, <1>5 DEF WishIInv

LEMMA WishCall ==
    ASSUME TypeOK, OnlyWishes, WishIInv, NEW t \in Thread, NewCall(t)
    PROVE  WishIInv'
<1>1. /\ thread[t].pc = "idle" /\ thread'[t].pc = "update" /\ SameOthers(t)
      /\ UNCHANGED <<curDx, actualDx>>
  BY NewCallFacts DEF stateVars
<1>2. GoalsAtRest'
  BY DEF NewCall, PmDevicePowerNotify, PmSetDevicePower, PmSetPowerRequirement,
         PmReleasePowerRequirement, DeleteProcessRequirements, PmSetSystemPowerState, AddDevice,
         OnlyWishes, WishIInv, GoalsAtRest, goalVars
<1>3. \A u \in Thread \ {t} : SameLocals(u)
  BY <1>1 DEF SameOthers
<1>4. ASSUME NEW u \in Thread \ {t} PROVE WishOf(u)'
  BY <1>3 DEF WishIInv, WishOf, SameLocals
<1>5. WishOf(t)' /\ Busy(t)'
  BY <1>1 DEF WishOf, Busy
<1>6. NoFailure'
  BY <1>1, <1>3 DEF WishIInv, NoFailure, SameLocals
<1>7. actualDx' = MapDevicePowerState(curDx')
  BY <1>1 DEF WishIInv
<1> QED BY <1>2, <1>4, <1>5, <1>6, <1>7 DEF WishIInv

LEMMA WishCompute ==
    ASSUME TypeOK, OnlyWishes, WishIInv, NEW t \in Thread, ComputeState(t)
    PROVE  WishIInv'
<1>1. /\ SameOthers(t) /\ GoalsAtRest' /\ lastReqDx' = lastReqDx
      /\ curDx' = curDx /\ actualDx' = actualDx
      /\ listed = "off" => thread'[t].pc = "fault"
      /\ listed # "off" =>
           /\ thread'[t].pc \in {"enter", "finish"} /\ thread'[t].oldLastReqDx = lastReqDx
           /\ thread'[t].pc = "enter" => thread'[t].newDx = lastReqDx
           /\ thread'[t].pc = "finish" => curDx = lastReqDx
  BY ComputeFacts, RestFloor DEF WishIInv, GoalsAtRest, goalVars, stateVars
<1>2. actualDx' = MapDevicePowerState(curDx')
  BY <1>1 DEF WishIInv
<1>3. WishOf(t)' /\ thread'[t].pc # "return"
  BY <1>1 DEF WishOf
<1>4. actualDx' = MapDevicePowerState(lastReqDx) \/ Busy(t)'
  BY <1>1 DEF WishIInv, Busy
<1> QED BY <1>1, <1>2, <1>3, <1>4, WishStep

LEMMA WishEnter ==
    ASSUME TypeOK, WishIInv, NEW t \in Thread, EnterDriver(t)
    PROVE  WishIInv'
<1>1. /\ thread[t].pc = "enter" /\ SameOthers(t) /\ GoalsAtRest' /\ lastReqDx' = lastReqDx
      /\ curDx' = curDx /\ actualDx' = actualDx
      /\ thread'[t].newDx = thread[t].newDx
      /\ thread'[t].oldLastReqDx = thread[t].oldLastReqDx
      /\ \/ thread'[t].pc = "driver" /\ thread'[t].reqDx = MapDevicePowerState(thread[t].newDx)
         \/ thread'[t].pc = "check" /\ MapDevicePowerState(thread[t].newDx) = actualDx
  BY EnterFacts DEF WishIInv, GoalsAtRest, goalVars
<1>2. actualDx' = MapDevicePowerState(curDx')
  BY <1>1 DEF WishIInv
<1>3. thread[t].newDx = thread[t].oldLastReqDx
  BY <1>1 DEF WishIInv, WishOf
<1>4. MapDevicePowerState(thread[t].newDx) = MapDevicePowerState(thread'[t].newDx)
  BY <1>1
<1>5. WishOf(t)'
  BY <1>1, <1>3, <1>4 DEF WishOf
<1>6. actualDx' = MapDevicePowerState(lastReqDx) \/ Busy(t)'
  BY <1>1, <1>3 DEF Busy
<1>7. thread'[t].pc # "return"
  BY <1>1
<1> QED BY <1>1, <1>2, <1>5, <1>6, <1>7, WishStep

LEMMA WishDriver ==
    ASSUME TypeOK, OnlyWishes, LocalsOK, WishIInv,
           NEW t \in Thread, NEW answer \in Answers, Driver(t, answer)
    PROVE  WishIInv'
<1>1. /\ thread[t].pc = "driver" /\ thread'[t].pc = "return" /\ SameOthers(t)
      /\ thread'[t].newDx = thread[t].newDx /\ thread'[t].reqDx = thread[t].reqDx
      /\ thread'[t].oldLastReqDx = thread[t].oldLastReqDx
      /\ thread'[t].status = thread[t].status
      /\ GoalsAtRest' /\ lastReqDx' = lastReqDx /\ curDx' = curDx /\ actualDx' = actualDx
  BY DriverFacts DEF OnlyWishes, SameAims, WishIInv, GoalsAtRest, goalVars, stateVars
<1>2. actualDx' = MapDevicePowerState(curDx')
  BY <1>1 DEF WishIInv
<1>3. WishOf(t)
  BY DEF WishIInv
<1>4. WishOf(t)' /\ Busy(t)'
  BY <1>1, <1>3 DEF WishOf, Busy
<1>5. thread'[t].status = "success"
  BY <1>1 DEF LocalsOK
<1> QED BY <1>1, <1>2, <1>4, <1>5, WishStep

LEMMA WishRecord ==
    ASSUME TypeOK, NeverBlamed', WishIInv, NEW t \in Thread, RecordSuccess(t)
    PROVE  WishIInv'
<1>1. /\ thread[t].pc = "return" /\ thread'[t].pc = "leave" /\ SameOthers(t)
      /\ thread'[t].newDx = thread[t].newDx /\ thread'[t].reqDx = thread[t].reqDx
      /\ thread'[t].oldLastReqDx = thread[t].oldLastReqDx
      /\ GoalsAtRest' /\ lastReqDx' = lastReqDx
  BY RecordFacts DEF SameAims, WishIInv, GoalsAtRest, goalVars
<1>2. /\ pendingDx = thread[t].reqDx =>
           /\ thread'[t].status = "success"
           /\ curDx' = thread[t].newDx /\ actualDx' = thread[t].reqDx
      /\ pendingDx # thread[t].reqDx =>
           /\ thread'[t].status \in {"retry", "assert"}
           /\ curDx' = curDx /\ actualDx' = actualDx
  BY RecordFacts
<1>3. /\ thread[t].newDx = thread[t].oldLastReqDx
      /\ thread[t].reqDx = MapDevicePowerState(thread[t].newDx)
  BY <1>1 DEF WishIInv, WishOf
<1>4. actualDx' = MapDevicePowerState(curDx')
  BY <1>2, <1>3 DEF WishIInv
<1>5. MapDevicePowerState(thread[t].newDx) = MapDevicePowerState(thread'[t].newDx)
  BY <1>1
<1>6. thread'[t].status # "assert"
  <2>1. thread'[t].status = "assert" => thread'[t].reqDx # MapDevicePowerState(thread'[t].newDx)
    BY DEF NeverBlamed
  <2> QED BY <1>1, <1>3, <1>5, <2>1
<1>7. WishOf(t)'
  BY <1>1, <1>2, <1>3, <1>5, <1>6 DEF WishOf
<1>8. actualDx' = MapDevicePowerState(lastReqDx) \/ Busy(t)'
  BY <1>1, <1>2, <1>3, <1>6 DEF Busy
<1> QED BY <1>1, <1>4, <1>7, <1>8, WishStep

LEMMA WishLeave ==
    ASSUME TypeOK, WishIInv, NEW t \in Thread, LeaveDriver(t)
    PROVE  WishIInv'
<1>1. /\ thread[t].pc = "leave" /\ SameOthers(t)
      /\ thread'[t].oldLastReqDx = thread[t].oldLastReqDx
      /\ thread[t].status = "success" => thread'[t].pc = "check"
      /\ thread[t].status = "retry" => thread'[t].pc = "update"
      /\ GoalsAtRest' /\ lastReqDx' = lastReqDx /\ curDx' = curDx /\ actualDx' = actualDx
  BY LeaveFacts DEF SameAims, WishIInv, GoalsAtRest, goalVars
<1>2. thread[t].status \in {"success", "retry"}
  BY <1>1 DEF WishIInv, WishOf
<1>3. actualDx' = MapDevicePowerState(curDx')
  BY <1>1 DEF WishIInv
<1>4. WishOf(t)' /\ (Busy(t) => Busy(t)') /\ thread'[t].pc # "return"
  BY <1>1, <1>2 DEF WishOf, Busy
<1> QED BY <1>1, <1>3, <1>4, WishStep

LEMMA WishCheck ==
    ASSUME TypeOK, WishIInv, NEW t \in Thread, CheckRequest(t)
    PROVE  WishIInv'
<1>1. /\ thread[t].pc = "check" /\ SameOthers(t)
      /\ lastReqDx # thread[t].oldLastReqDx => thread'[t].pc = "update"
      /\ lastReqDx = thread[t].oldLastReqDx => thread'[t].pc = "finish"
      /\ GoalsAtRest' /\ lastReqDx' = lastReqDx /\ curDx' = curDx /\ actualDx' = actualDx
  BY CheckFacts DEF WishIInv, GoalsAtRest, goalVars, stateVars
<1>2. actualDx' = MapDevicePowerState(curDx')
  BY <1>1 DEF WishIInv
<1>3. WishOf(t)' /\ (Busy(t) => Busy(t)') /\ thread'[t].pc # "return"
  BY <1>1 DEF WishOf, Busy
<1> QED BY <1>1, <1>2, <1>3, WishStep

LEMMA WishFinish ==
    ASSUME TypeOK, WishIInv, NEW t \in Thread, FinishCall(t)
    PROVE  WishIInv'
<1>1. /\ thread[t].pc = "finish" /\ SameOthers(t) /\ thread'[t].pc \in {"idle", "update"}
      /\ GoalsAtRest' /\ lastReqDx' = lastReqDx /\ curDx' = curDx /\ actualDx' = actualDx
  BY FinishFacts DEF WishIInv, GoalsAtRest, stateVars
<1>2. actualDx' = MapDevicePowerState(curDx')
  BY <1>1 DEF WishIInv
<1>3. WishOf(t)' /\ ~ Busy(t) /\ thread'[t].pc # "return"
  BY <1>1 DEF WishOf, Busy
<1> QED BY <1>1, <1>2, <1>3, WishStep

LEMMA WishStill ==
    ASSUME WishIInv, \A u \in Thread : SameLocals(u), UNCHANGED <<goalVars, curDx, actualDx>>
    PROVE  WishIInv'
<1>1. ASSUME NEW u \in Thread PROVE WishOf(u)' /\ (Busy(u) => Busy(u)')
  <2>1. WishOf(u)
    BY DEF WishIInv
  <2>2. /\ thread'[u].pc = thread[u].pc /\ thread'[u].reqDx = thread[u].reqDx
        /\ thread'[u].newDx = thread[u].newDx /\ thread'[u].status = thread[u].status
        /\ thread'[u].oldLastReqDx = thread[u].oldLastReqDx
    BY DEF SameLocals
  <2>3. WishOf(u)'
    BY <2>1, <2>2 DEF WishOf
  <2>4. Busy(u) => Busy(u)'
    BY <2>2 DEF Busy, goalVars
  <2> QED BY <2>3, <2>4
<1>2. NoFailure'
  BY DEF WishIInv, NoFailure, SameLocals
<1>3. GoalsAtRest' /\ lastReqDx' = lastReqDx /\ curDx' = curDx /\ actualDx' = actualDx
  BY DEF WishIInv, GoalsAtRest, goalVars
<1>4. actualDx' = MapDevicePowerState(curDx')
  BY <1>3 DEF WishIInv
<1>5. actualDx' = MapDevicePowerState(lastReqDx)' \/ \E u \in Thread : Busy(u)'
  BY <1>1, <1>3 DEF WishIInv
<1> QED BY <1>1, <1>2, <1>3, <1>4, <1>5 DEF WishIInv

LEMMA WishNext == OnlyWishes /\ IInv /\ IInv' /\ WishIInv /\ [Next]_vars => WishIInv'
<1> SUFFICES ASSUME OnlyWishes, IInv, IInv', WishIInv, [Next]_vars PROVE WishIInv'
  OBVIOUS
<1> TypeOK /\ LocalsOK /\ NeverBlamed'
  BY DEF IInv
<1>1. ASSUME NEW t \in Thread, RestoreState(t) PROVE WishIInv'
  BY <1>1 DEF RestoreState, WishIInv, NoFailure
<1>2. ASSUME NEW t \in Thread, Run(t) PROVE WishIInv'
  BY <1>1, <1>2, WishCompute, WishEnter, WishDriver, WishRecord, WishLeave, WishCheck,
     WishFinish DEF Run
<1>3. CASE OtherDevice
  BY <1>3, OtherFacts, WishStill DEF stateVars
<1>4. ASSUME NEW q \in Requirement PROVE FALSE
  BY <1>4 DEF OnlyWishes
<1>5. ASSUME NEW s \in SystemState, SetStateOfOthers(s) PROVE FALSE
  BY <1>5 DEF SetStateOfOthers, OnlyWishes, WishIInv, GoalsAtRest
<1>6. CASE RemoveDevice \/ UNCHANGED vars
  <2>1. UNCHANGED <<thread, goalVars, curDx, actualDx>>
    BY <1>6 DEF RemoveDevice, vars, stateVars
  <2> QED BY <2>1, StillFacts, WishStill
<1> QED BY <1>2, <1>3, <1>4, <1>5, <1>6, WishCall DEF Next

(***************************************************************************)
(* When only the driver of a device has wishes, and no set value,          *)
(* requirement or ceiling stands against them, the books show its last     *)
(* wish whenever no thread is busy with the device, however many threads   *)
(* raced to set it.                                                        *)
(***************************************************************************)
THEOREM BooksShowWishes == OnlyWishes => (Spec => []BooksFollowWishes)
<1> SUFFICES ASSUME OnlyWishes PROVE Spec => []BooksFollowWishes
  OBVIOUS
<1>1. IInv /\ IInv' /\ WishIInv /\ [Next]_vars => WishIInv'
  BY WishNext
<1>2. Init => WishIInv
  BY WishInit
<1>3. TypeOK /\ WishIInv => BooksFollowWishes
  <2> SUFFICES ASSUME TypeOK, WishIInv, AtRest
               PROVE  actualDx = MapDevicePowerState(DesiredDx)
    BY DEF BooksFollowWishes
  <2>1. DesiredDx = lastReqDx
    BY RestFloor DEF WishIInv
  <2>2. \A t \in Thread : ~ Busy(t)
    BY DEF AtRest, Busy
  <2> QED BY <2>1, <2>2 DEF WishIInv
<1>4. IInv => TypeOK
  BY DEF IInv
<1> QED BY <1>1, <1>2, <1>3, <1>4, InductiveInvariant, PTL DEF Spec

-----------------------------------------------------------------------------
(***************************************************************************)
(* The last word wins, when every change is made under the update lock.    *)
(***************************************************************************)
LEMMA SameGoals ==
    ASSUME UNCHANGED goalVars
    PROVE  DesiredDx' = DesiredDx
<1>1. FloorDx' = FloorDx
  BY DEF goalVars, FloorDx, Applies
<1>2. CeilingDx' = CeilingDx
  BY DEF goalVars, CeilingDx
<1> QED BY <1>1, <1>2 DEF goalVars, DesiredDx, Bounded

LEMMA SerialInit == UnderLock /\ Init => SerialIInv
<1> SUFFICES ASSUME UnderLock, Init PROVE SerialIInv
  OBVIOUS
<1>1. \A t \in Thread : thread[t].pc = "idle" /\ thread[t].status = "success"
  BY IdleType DEF Init
<1>2. MapDevicePowerState(0) = 0
  BY SupportedAssumption, MapSupported DEF Dx
<1>3. DesiredDx = 0
  <2>1. FloorDx = 4
    <3>1. Min({4}) \in {4}
      BY MinDx DEF Dx
    <3>2. {4} \cup {q.dx : q \in {p \in required : Applies(p)}} = {4}
      BY DEF Init
    <3> QED BY <3>1, <3>2 DEF FloorDx
  <2>2. CeilingDx = 0 /\ lastReqDx = 0 /\ setDx = Unspecified
    BY DEF Init, UnderLock, CeilingDx
  <2>3. Bounded(0) = 0
    BY <2>1, <2>2 DEF Bounded
  <2> QED BY <2>2, <2>3 DEF DesiredDx
<1>4. listed = "on" /\ hardware = 0 /\ curDx = 0 /\ actualDx = 0
  BY DEF Init, UnderLock
<1>5. \A t \in Thread : Holder(t)
  BY <1>1 DEF Holder
<1> QED BY <1>2, <1>3, <1>4, <1>5 DEF SerialIInv

(* Whoever is busy holds the update lock, and the others are idle. *)
LEMMA HolderAlone ==
    ASSUME SerialIInv
    PROVE  /\ updating = NoThread => AtRest
           /\ \A t \in Thread : thread[t].pc # "idle" =>
                \A u \in Thread \ {t} : thread[u].pc = "idle"
BY ThreadAssumption DEF SerialIInv, Holder, AtRest

LEMMA SerialStep ==
    ASSUME SerialIInv, NEW t \in Thread, SameOthers(t),
           \A u \in Thread \ {t} : thread[u].pc = "idle",
           listed' = listed, Holder(t)', actualDx' = MapDevicePowerState(curDx'),
           thread'[t].pc # "return" => hardware' = actualDx',
           thread'[t].pc = "idle" => actualDx' = MapDevicePowerState(DesiredDx)'
    PROVE  SerialIInv'
<1>1. \A u \in Thread \ {t} : thread'[u].pc = "idle" /\ thread'[u].status = "success"
  BY DEF SameOthers, SameLocals, SerialIInv, Holder
<1>2. \A u \in Thread : Holder(u)'
  BY <1>1 DEF Holder
<1>3. AtRest' => actualDx' = MapDevicePowerState(DesiredDx)'
  BY DEF AtRest
<1> QED BY <1>2, <1>3 DEF SerialIInv

LEMMA SerialCall ==
    ASSUME TypeOK, UnderLock, SerialIInv, NEW t \in Thread, NewCall(t)
    PROVE  SerialIInv'
<1>1. /\ thread[t].pc = "idle" /\ thread'[t].pc = "update" /\ SameOthers(t)
      /\ thread'[t].status = thread[t].status
      /\ UNCHANGED <<curDx, actualDx, hardware>>
  BY NewCallFacts DEF stateVars
<1>2. updating = NoThread /\ updating' = t /\ listed' = listed
  BY DEF NewCall, PmDevicePowerNotify, PmSetDevicePower, PmSetPowerRequirement,
         PmReleasePowerRequirement, DeleteProcessRequirements, PmSetSystemPowerState, AddDevice,
         UnderLock, SerialIInv, LockUpdate, Find
<1>3. \A u \in Thread : thread[u].pc = "idle"
  BY <1>2, HolderAlone DEF AtRest
<1>4. thread[t].status = "success"
  BY DEF SerialIInv, Holder
<1>5. Holder(t)'
  BY <1>1, <1>2, <1>4 DEF Holder
<1>6. actualDx' = MapDevicePowerState(curDx') /\ hardware' = actualDx'
  BY <1>1, <1>3 DEF SerialIInv
<1> QED BY <1>1, <1>2, <1>3, <1>5, <1>6, SerialStep

LEMMA SerialCompute ==
    ASSUME TypeOK, SerialIInv, NEW t \in Thread, ComputeState(t)
    PROVE  SerialIInv'
<1>1. /\ thread[t].pc = "update" /\ SameOthers(t) /\ UNCHANGED goalVars
      /\ UNCHANGED <<curDx, actualDx, hardware, listed, updating>>
      /\ thread'[t].pc \in {"enter", "finish"} /\ thread'[t].status = "success"
      /\ thread'[t].oldLastReqDx = lastReqDx
      /\ thread'[t].pc = "enter" => thread'[t].newDx = DesiredDx
      /\ thread'[t].pc = "finish" => curDx = DesiredDx
  BY ComputeFacts DEF SerialIInv, stateVars
<1>2. DesiredDx' = DesiredDx /\ lastReqDx' = lastReqDx
  BY <1>1, SameGoals DEF goalVars
<1>3. updating = t /\ actualDx = MapDevicePowerState(curDx)
  BY <1>1 DEF SerialIInv, Holder
<1>4. \A u \in Thread \ {t} : thread[u].pc = "idle"
  BY <1>1, HolderAlone
<1>5. Holder(t)'
  BY <1>1, <1>2, <1>3 DEF Holder
<1>6. hardware' = actualDx'
  BY <1>1, <1>4 DEF SerialIInv
<1> QED BY <1>1, <1>3, <1>4, <1>5, <1>6, SerialStep

LEMMA SerialEnter ==
    ASSUME TypeOK, SerialIInv, NEW t \in Thread, EnterDriver(t)
    PROVE  SerialIInv'
<1>1. /\ thread[t].pc = "enter" /\ SameOthers(t) /\ UNCHANGED goalVars
      /\ UNCHANGED <<curDx, actualDx, hardware, listed, updating>>
      /\ thread'[t].status = thread[t].status /\ thread'[t].newDx = thread[t].newDx
      /\ thread'[t].oldLastReqDx = thread[t].oldLastReqDx
  BY EnterFacts
<1>2. \/ /\ thread'[t].pc = "driver" /\ pendingDx' = thread'[t].reqDx
         /\ thread'[t].reqDx = MapDevicePowerState(thread[t].newDx)
      \/ thread'[t].pc = "check" /\ MapDevicePowerState(thread[t].newDx) = actualDx
  BY EnterFacts
<1>3. DesiredDx' = DesiredDx /\ lastReqDx' = lastReqDx
  BY <1>1, SameGoals DEF goalVars
<1>4. /\ updating = t /\ actualDx = MapDevicePowerState(curDx) /\ thread[t].status = "success"
      /\ thread[t].oldLastReqDx = lastReqDx /\ thread[t].newDx = DesiredDx
  BY <1>1 DEF SerialIInv, Holder
<1>5. \A u \in Thread \ {t} : thread[u].pc = "idle"
  BY <1>1, HolderAlone
<1>6. MapDevicePowerState(thread[t].newDx) = MapDevicePowerState(DesiredDx)
  BY <1>4
<1>7. Holder(t)'
  BY <1>1, <1>2, <1>3, <1>4, <1>6 DEF Holder
<1>8. hardware' = actualDx'
  BY <1>1, <1>5 DEF SerialIInv
<1>9. thread'[t].pc # "idle"
  BY <1>2
<1> QED BY <1>1, <1>4, <1>5, <1>7, <1>8, <1>9, SerialStep

LEMMA SerialDriver ==
    ASSUME TypeOK, UnderLock, SerialIInv, NEW t \in Thread, NEW answer \in Answers,
           Driver(t, answer)
    PROVE  SerialIInv'
<1>1. /\ thread[t].pc = "driver" /\ thread'[t].pc = "return" /\ SameOthers(t)
      /\ thread'[t].newDx = thread[t].newDx /\ thread'[t].reqDx = thread[t].reqDx
      /\ thread'[t].oldLastReqDx = thread[t].oldLastReqDx
      /\ thread'[t].status = thread[t].status /\ hardware' = thread[t].reqDx
      /\ UNCHANGED goalVars /\ UNCHANGED <<curDx, actualDx, pendingDx, listed, updating>>
  BY DriverFacts DEF UnderLock, SameAims, stateVars
<1>2. DesiredDx' = DesiredDx /\ lastReqDx' = lastReqDx
  BY <1>1, SameGoals DEF goalVars
<1>3. Holder(t) /\ actualDx = MapDevicePowerState(curDx)
  BY DEF SerialIInv
<1>4. \A u \in Thread \ {t} : thread[u].pc = "idle"
  BY <1>1, HolderAlone
<1>5. Holder(t)'
  BY <1>1, <1>2, <1>3 DEF Holder
<1> QED BY <1>1, <1>3, <1>4, <1>5, SerialStep

LEMMA SerialRecord ==
    ASSUME TypeOK, SerialIInv, NEW t \in Thread, RecordSuccess(t)
    PROVE  SerialIInv'
<1>1. /\ thread[t].pc = "return" /\ thread'[t].pc = "leave" /\ SameOthers(t)
      /\ thread'[t].newDx = thread[t].newDx /\ thread'[t].reqDx = thread[t].reqDx
      /\ thread'[t].oldLastReqDx = thread[t].oldLastReqDx
      /\ UNCHANGED goalVars /\ UNCHANGED <<hardware, listed, updating>>
  BY RecordFacts DEF SameAims
<1>2. /\ updating = t /\ hardware = thread[t].reqDx /\ pendingDx = thread[t].reqDx
      /\ thread[t].oldLastReqDx = lastReqDx /\ thread[t].newDx = DesiredDx
      /\ thread[t].reqDx = MapDevicePowerState(thread[t].newDx)
  BY <1>1 DEF SerialIInv, Holder
<1>3. /\ thread'[t].status = "success"
      /\ curDx' = thread[t].newDx /\ actualDx' = thread[t].reqDx
  BY <1>2, RecordFacts
<1>4. DesiredDx' = DesiredDx /\ lastReqDx' = lastReqDx
  BY <1>1, SameGoals DEF goalVars
<1>5. \A u \in Thread \ {t} : thread[u].pc = "idle"
  BY <1>1, HolderAlone
<1>6. actualDx' = MapDevicePowerState(curDx') /\ actualDx' = MapDevicePowerState(DesiredDx')
  BY <1>2, <1>3, <1>4
<1>7. Holder(t)'
  BY <1>1, <1>2, <1>3, <1>4, <1>6 DEF Holder
<1> QED BY <1>1, <1>2, <1>3, <1>5, <1>6, <1>7, SerialStep

LEMMA SerialLeave ==
    ASSUME TypeOK, SerialIInv, NEW t \in Thread, LeaveDriver(t)
    PROVE  SerialIInv'
<1>1. Holder(t) /\ actualDx = MapDevicePowerState(curDx)
  BY DEF SerialIInv
<1>2. /\ thread[t].pc = "leave" /\ thread'[t].pc = "check" /\ SameOthers(t)
      /\ thread'[t].status = thread[t].status
      /\ thread'[t].oldLastReqDx = thread[t].oldLastReqDx
      /\ UNCHANGED goalVars /\ UNCHANGED <<curDx, actualDx, hardware, listed, updating>>
  BY <1>1, LeaveFacts DEF Holder, SameAims
<1>3. DesiredDx' = DesiredDx /\ lastReqDx' = lastReqDx
  BY <1>2, SameGoals DEF goalVars
<1>4. \A u \in Thread \ {t} : thread[u].pc = "idle"
  BY <1>2, HolderAlone
<1>5. Holder(t)'
  BY <1>1, <1>2, <1>3 DEF Holder
<1>6. hardware' = actualDx'
  BY <1>2, <1>4 DEF SerialIInv
<1> QED BY <1>1, <1>2, <1>4, <1>5, <1>6, SerialStep

LEMMA SerialCheck ==
    ASSUME TypeOK, SerialIInv, NEW t \in Thread, CheckRequest(t)
    PROVE  SerialIInv'
<1>1. Holder(t) /\ actualDx = MapDevicePowerState(curDx)
  BY DEF SerialIInv
<1>2. /\ thread[t].pc = "check" /\ thread'[t].pc = "finish" /\ SameOthers(t)
      /\ thread'[t].status = "success"
      /\ UNCHANGED goalVars /\ UNCHANGED <<curDx, actualDx, hardware, listed, updating>>
  BY <1>1, CheckFacts DEF Holder, stateVars
<1>3. DesiredDx' = DesiredDx /\ lastReqDx' = lastReqDx
  BY <1>2, SameGoals DEF goalVars
<1>4. \A u \in Thread \ {t} : thread[u].pc = "idle"
  BY <1>2, HolderAlone
<1>5. Holder(t)'
  BY <1>1, <1>2, <1>3 DEF Holder
<1>6. hardware' = actualDx'
  BY <1>2, <1>4 DEF SerialIInv
<1> QED BY <1>1, <1>2, <1>4, <1>5, <1>6, SerialStep

LEMMA SerialFinish ==
    ASSUME TypeOK, SerialIInv, NEW t \in Thread, FinishCall(t)
    PROVE  SerialIInv'
<1>1. Holder(t) /\ actualDx = MapDevicePowerState(curDx)
  BY DEF SerialIInv
<1>2. /\ thread[t].pc = "finish" /\ SameOthers(t)
      /\ thread'[t].pc \in {"idle", "update"} /\ thread'[t].status = "success"
      /\ thread'[t].pc = "idle" => required' = required
      /\ thread'[t].pc = "update" => updating' = updating
      /\ UNCHANGED <<setDx, lastReqDx, systemState, curDx, actualDx, hardware, listed>>
  BY <1>1, FinishFacts DEF Holder, stateVars
<1>3. \A u \in Thread \ {t} : thread[u].pc = "idle"
  BY <1>2, HolderAlone
<1>4. Holder(t)'
  BY <1>1, <1>2 DEF Holder
<1>5. hardware' = actualDx'
  BY <1>2, <1>3 DEF SerialIInv
<1>6. thread'[t].pc = "idle" => actualDx' = MapDevicePowerState(DesiredDx')
  <2> SUFFICES ASSUME thread'[t].pc = "idle" PROVE actualDx' = MapDevicePowerState(DesiredDx')
    OBVIOUS
  <2>1. DesiredDx' = DesiredDx
    BY <1>2, SameGoals DEF goalVars
  <2> QED BY <1>1, <1>2, <2>1 DEF Holder
<1> QED BY <1>1, <1>2, <1>3, <1>4, <1>5, <1>6, SerialStep

(* A requirement that does not concern the device now changes no goal. *)
LEMMA SerialLater ==
    ASSUME SerialIInv, NEW q \in Requirement, PmSetLaterRequirement(q)
    PROVE  SerialIInv'
<1>1. /\ UNCHANGED <<lastReqDx, setDx, systemState, listed, thread, updating>>
      /\ UNCHANGED <<curDx, actualDx, pendingDx, hardware>>
      /\ updating = NoThread /\ required' = required \cup {q} /\ systemState \notin q.in
  BY DEF PmSetLaterRequirement, UpdateNothing, SerialIInv, stateVars
<1>2. AtRest
  BY <1>1, HolderAlone
<1>3. {p \in required : Applies(p)}' = {p \in required : Applies(p)}
  BY <1>1 DEF Applies
<1>4. FloorDx' = FloorDx /\ CeilingDx' = CeilingDx
  BY <1>1, <1>3 DEF FloorDx, CeilingDx
<1>5. DesiredDx' = DesiredDx
  BY <1>1, <1>4 DEF DesiredDx, Bounded
<1>6. \A t \in Thread : Holder(t)'
  BY <1>1, <1>2 DEF SerialIInv, Holder, AtRest
<1>7. actualDx' = MapDevicePowerState(DesiredDx') /\ actualDx' = MapDevicePowerState(curDx')
  BY <1>1, <1>2, <1>5 DEF SerialIInv
<1>8. hardware' = actualDx'
  BY <1>1, <1>2 DEF SerialIInv, AtRest
<1>9. listed' = "on"
  BY <1>1 DEF SerialIInv
<1> QED BY <1>6, <1>7, <1>8, <1>9 DEF SerialIInv

LEMMA SerialNext == UnderLock /\ IInv /\ SerialIInv /\ [Next]_vars => SerialIInv'
<1> SUFFICES ASSUME UnderLock, IInv, SerialIInv, [Next]_vars PROVE SerialIInv'
  OBVIOUS
<1> TypeOK
  BY DEF IInv
<1>1. ASSUME NEW t \in Thread, RestoreState(t) PROVE FALSE
  BY <1>1 DEF RestoreState, SerialIInv, Holder
<1>2. ASSUME NEW t \in Thread, Run(t) PROVE SerialIInv'
  BY <1>1, <1>2, SerialCompute, SerialEnter, SerialDriver, SerialRecord, SerialLeave,
     SerialCheck, SerialFinish DEF Run
<1>3. ASSUME NEW q \in Requirement, ReleaseEarlyRequirement(q) PROVE FALSE
  BY <1>3 DEF ReleaseEarlyRequirement, SerialIInv
<1>4. ASSUME NEW s \in SystemState, SetStateOfOthers(s) PROVE FALSE
  BY <1>4 DEF SetStateOfOthers, SerialIInv
<1>5. ~ RemoveDevice /\ ~ OtherDevice
  BY DEF RemoveDevice, OtherDevice, UnderLock, Obedient
<1>6. CASE UNCHANGED vars
  <2>1. DesiredDx' = DesiredDx /\ lastReqDx' = lastReqDx
    BY <1>6, SameGoals DEF vars, goalVars
  <2>2. UNCHANGED <<listed, thread, updating, curDx, actualDx, pendingDx, hardware>>
    BY <1>6 DEF vars, stateVars
  <2>3. \A t \in Thread : Holder(t)'
    BY <2>1, <2>2 DEF SerialIInv, Holder
  <2>4. AtRest' => actualDx' = MapDevicePowerState(DesiredDx')
    BY <2>1, <2>2 DEF SerialIInv, AtRest
  <2>5. actualDx' = MapDevicePowerState(curDx')
    BY <2>2 DEF SerialIInv
  <2> QED BY <2>2, <2>3, <2>4, <2>5 DEF SerialIInv
<1> QED BY <1>2, <1>3, <1>4, <1>5, <1>6, SerialCall, SerialLater DEF Next

(***************************************************************************)
(* Changes that are made under the update lock, by any number of threads   *)
(* and for any requirements and system states: whenever no thread is busy  *)
(* with the device, it is in the state that it ought to be in.             *)
(***************************************************************************)
THEOREM LastWordIsKept == UnderLock => (Spec => []LastWordWins)
<1> SUFFICES ASSUME UnderLock PROVE Spec => []LastWordWins
  OBVIOUS
<1>1. IInv /\ SerialIInv /\ [Next]_vars => SerialIInv'
  BY SerialNext
<1>2. Init => SerialIInv
  BY SerialInit
<1>3. SerialIInv => LastWordWins
  BY DEF SerialIInv, LastWordWins, AtRest
<1> QED BY <1>1, <1>2, <1>3, InductiveInvariant, PTL DEF Spec
=============================================================================
