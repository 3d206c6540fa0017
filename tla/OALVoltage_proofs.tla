------------------------- MODULE OALVoltage_proofs -------------------------
(***************************************************************************)
(* Proofs about voltages, frequencies and SmartReflex, for any operating   *)
(* points, requests, devices and settings, with one caller that is not     *)
(* preempted inside SmartReflex_EnableMonitor; and about the choice of a   *)
(* sleep, for any number of callers.                                       *)
(***************************************************************************)
EXTENDS OALVoltage, FiniteSetTheorems, SequenceTheorems, TLAPS

Pc == {"out", "next", "drop", "test", "switch", "flag", "change", "raised", "lowered", "note"}

(* The constants. *)
LEMMA Constants ==
    /\ Vdd = {"vdd1", "vdd2"} /\ Channel = Vdd /\ Channel \subseteq Device
    /\ \A d \in CoreDevices \cup OtherDevices : d \notin Channel
    /\ NoCaller \notin Caller
    /\ InitialOpp \in [Vdd -> Nat \ {0}]
    /\ \A r \in Requests : r \in Seq(Asked)
BY DeviceAssumption, CallerAssumption, OppAssumption DEF Vdd, Channel, Device, Asked

LEMMA OnlyCaller ==
    ASSUME OneCaller, NEW t \in Caller
    PROVE  \A u \in Caller : u = t
BY DEF OneCaller

LEMMA BothParts ==
    /\ Both \in Seq(Asked) /\ Both # <<>> /\ Tail(Both) # <<>> /\ Tail(Both) # Both
    /\ Head(Both).vdd = "vdd1" /\ Head(Tail(Both)).vdd = "vdd2" /\ Tail(Tail(Both)) = <<>>
<1> DEFINE a == [vdd |-> "vdd1", opp |-> 1]
           b == [vdd |-> "vdd2", opp |-> 1]
<1>1. a \in Asked /\ b \in Asked /\ a.vdd = "vdd1" /\ b.vdd = "vdd2"
  BY DEF Asked, Vdd
<1>2. Both = <<a, b>>
  BY DEF Both
<1> HIDE DEF a, b
<1>3. Head(Both) = a /\ Tail(Both) = <<b>> /\ Both \in Seq(Asked)
  BY <1>1, <1>2
<1>4. Head(<<b>>) = b /\ Tail(<<b>>) = <<>> /\ <<b>> # <<>> /\ <<b>> # <<a, b>> /\ <<a, b>> # <<>>
  OBVIOUS
<1> QED BY <1>1, <1>2, <1>3, <1>4

LEMMA CallFields ==
    ASSUME VoltageTypeOK, NEW t \in Caller
    PROVE  /\ call[t] \in CallType /\ call[t].todo \in Seq(Asked) /\ call[t].request \in Seq(Asked)
           /\ call[t].pc \in Pc /\ call[t].restore \in BOOLEAN /\ call[t].on \in BOOLEAN
           /\ call[t].op \in {"none", "opp", "monitor", "retention"}
           /\ call[t].back \in {"out", "change", "drop"}
BY DEF VoltageTypeOK, CallType, Pc

(* The domain a caller works on. *)
LEMMA Working ==
    ASSUME VoltageTypeOK, NEW t \in Caller, call[t].todo # <<>>
    PROVE  /\ Head(call[t].todo) \in Asked /\ Vd(t) \in Vdd
           /\ Head(call[t].todo).opp \in Nat \ {0} /\ Tail(call[t].todo) \in Seq(Asked)
<1>1. call[t].todo \in Seq(Asked)
  BY CallFields
<1>2. Head(call[t].todo) \in Asked /\ Tail(call[t].todo) \in Seq(Asked)
  BY <1>1, HeadTailProperties
<1> QED BY <1>2 DEF Asked, Vd

(***************************************************************************)
(* What happens to the record of a caller.                                 *)
(***************************************************************************)
SameWork(t) ==
    /\ call' \in [Caller -> CallType]
    /\ call'[t].op = call[t].op /\ call'[t].todo = call[t].todo
    /\ call'[t].request = call[t].request

LEMMA GotoFields ==
    ASSUME VoltageTypeOK, NEW t \in Caller, NEW pc \in Pc, Goto(t, pc)
    PROVE  /\ SameWork(t) /\ call'[t].pc = pc /\ call'[t].restore = call[t].restore
           /\ call'[t].on = call[t].on /\ call'[t].back = call[t].back
BY DEF VoltageTypeOK, CallType, Pc, Goto, SameWork

LEMMA MonitorFields ==
    ASSUME VoltageTypeOK, NEW t \in Caller, NEW on \in BOOLEAN,
           NEW back \in {"out", "change", "drop"}, Monitor(t, on, back)
    PROVE  /\ SameWork(t) /\ call'[t].pc = "test" /\ call'[t].restore = call[t].restore
           /\ call'[t].on = on /\ call'[t].back = back
BY DEF VoltageTypeOK, CallType, Pc, Monitor, SameWork

LEMMA MonitorRestoredFields ==
    ASSUME VoltageTypeOK, NEW t \in Caller, MonitorRestored(t, FALSE, "change")
    PROVE  /\ SameWork(t) /\ call'[t].pc = "test" /\ call'[t].restore = TRUE
           /\ call'[t].on = FALSE /\ call'[t].back = "change"
<1>1. (call[t].restore \/ ~ FALSE) = TRUE
  OBVIOUS
<1> DEFINE d == [call[t] EXCEPT !.pc = "test", !.on = FALSE, !.back = "change", !.restore = TRUE]
<1>2. call' = [call EXCEPT ![t] = d]
  BY <1>1, Zenon DEF MonitorRestored
<1>3. call[t] \in CallType
  BY CallFields
<1>4. /\ d \in CallType /\ d.op = call[t].op /\ d.todo = call[t].todo /\ d.request = call[t].request
      /\ d.pc = "test" /\ d.on = FALSE /\ d.back = "change" /\ d.restore = TRUE
  BY <1>3 DEF CallType
<1> HIDE DEF d
<1>5. call' \in [Caller -> CallType] /\ call'[t] = d
  BY <1>2, <1>4 DEF VoltageTypeOK
<1> QED BY <1>4, <1>5 DEF SameWork

LEMMA SameDomain ==
    ASSUME NEW t \in Caller, SameWork(t)
    PROVE  Vd(t)' = Vd(t) /\ Head(call'[t].todo).opp = Head(call[t].todo).opp
BY DEF SameWork, Vd

(* Idle is a record, and no other has its program counter. *)
LEMMA IdleFields ==
    /\ Idle \in CallType /\ Idle.op = "none" /\ Idle.pc = "out" /\ Idle.todo = <<>>
    /\ Idle.restore = FALSE /\ Idle.on = FALSE
BY DEF Idle, CallType

-----------------------------------------------------------------------------
LEMMA InitInvariant == Init => IInv
<1> SUFFICES ASSUME Init PROVE IInv
  OBVIOUS
<1> USE Constants DEF Init, LatencyInit
<1>1. VoltageTypeOK
  BY IdleFields DEF VoltageTypeOK
<1>2. \A t \in Caller : call[t] = Idle
  OBVIOUS
<1>3. \A c \in Channel : ~ Kept(c) /\ ~ bEnabled[c] /\ ~ Lit(c) /\ clocks[c] = 0
  BY DEF Kept, Lit
<1>4. CallsOK /\ LocksOK
  BY <1>2, IdleFields DEF CallsOK, CallOK, LocksOK, Changing, Switching
<1>5. HardwareOK /\ RestOK
  BY <1>3 DEF HardwareOK, RestOK
<1>6. SupplyOK
  BY <1>2, IdleFields DEF SupplyOK, SupplyOf, Steady, Changing
<1>7. ControlOK
  <2>1. ~ Wanted
    BY DEF Wanted
  <2> QED BY <1>2, <1>3, <2>1, IdleFields DEF ControlOK, ControlOf
<1>8. MonitorMatchesOpp /\ NoAutoUnderMonitor
  BY DEF MonitorMatchesOpp, NoAutoUnderMonitor
<1> QED BY <1>1, <1>4, <1>5, <1>6, <1>7, <1>8 DEF IInv

-----------------------------------------------------------------------------
(***************************************************************************)
(* Frames: what holds on when the state it is about stays.                 *)
(***************************************************************************)

(* The calls stay, and so does what the channels do or did. *)
LEMMA RecordFrame ==
    ASSUME IInv, call' = call, control' = control, \A c \in Channel : Kept(c)' <=> Kept(c)
    PROVE  CallsOK' /\ ControlOK'
<1>1. ASSUME NEW t \in Caller PROVE CallOK(t)' /\ ControlOf(t)'
  <2>1. Vd(t)' = Vd(t) /\ (Wanted' <=> Wanted)
    BY DEF Vd, Wanted
  <2>2. CallOK(t) /\ ControlOf(t)
    BY DEF IInv, CallsOK, ControlOK
  <2>3. call[t].pc \notin {"out", "next"} => Vd(t) \in Channel
    BY <2>2, Working, Constants DEF IInv, CallOK
  <2>4. CallOK(t)'
    BY <2>1, <2>2, <2>3 DEF CallOK, Changing, Switching
  <2>5. ControlOf(t)'
    BY <2>1, <2>2, <2>3, Constants DEF ControlOf, Changing, Switching
  <2> QED BY <2>4, <2>5
<1> QED BY <1>1 DEF CallsOK, ControlOK

(* The processor idles, sleeps or wakes up, or a device is switched. *)
LEMMA PowerFrame ==
    ASSUME IInv, UNCHANGED voltageVars, clocks' \in [Device -> Nat],
           \A c \in Channel : clocks'[c] = clocks[c],
           cpu' \in {"running", "idle", "off", "suspended"},
           cpu' \in {"off", "suspended"} <=> cpu \in {"off", "suspended"},
           cpu' # "running" => \A c \in Channel : srLock[c] = NoCaller,
           NoAutoUnderMonitor'
    PROVE  IInv'
<1> USE DEF voltageVars, supplyVars, monitorVars
<1>1. VoltageTypeOK'
  BY DEF IInv, VoltageTypeOK
<1>2. \A c \in Channel : (Kept(c)' <=> Kept(c)) /\ (Lit(c)' <=> Lit(c))
  BY DEF Kept, Lit
<1>3. CallsOK' /\ ControlOK'
  BY <1>2, RecordFrame
<1>4. LocksOK'
  BY DEF IInv, LocksOK, Vd
<1>5. HardwareOK'
  BY <1>2 DEF IInv, HardwareOK
<1>6. RestOK'
  BY <1>2 DEF IInv, RestOK
<1>7. SupplyOK'
  BY DEF IInv, SupplyOK, SupplyOf, Changes, Steady, Vd
<1>8. MonitorMatchesOpp'
  BY DEF IInv, MonitorMatchesOpp
<1> QED BY <1>1, <1>3, <1>4, <1>5, <1>6, <1>7, <1>8 DEF IInv

(* Only the record of the caller moves, outside of any change. *)
LEMMA MoveFrame ==
    ASSUME OneCaller, IInv, NEW t \in Caller,
           UNCHANGED <<oppVdd, supplyVars, monitorVars, resumeSR, cpu, clocks, autoControl>>,
           call' \in [Caller -> CallType], control' \in BOOLEAN,
           call[t].pc \notin Changing \cup {"flag"}, call'[t].pc \notin Changing \cup {"flag"},
           CallOK(t)', ControlOf(t)'
    PROVE  IInv'
<1> USE DEF supplyVars, monitorVars
<1>1. VoltageTypeOK'
  BY DEF IInv, VoltageTypeOK
<1>2. \A c \in Channel : (Kept(c)' <=> Kept(c)) /\ (Lit(c)' <=> Lit(c))
  BY DEF Kept, Lit
<1>3. CallsOK' /\ ControlOK'
  BY OnlyCaller DEF CallsOK, ControlOK
<1>4. LocksOK'
  BY OnlyCaller DEF IInv, LocksOK
<1>5. HardwareOK'
  BY <1>2 DEF IInv, HardwareOK
<1>6. RestOK'
  BY <1>2 DEF IInv, RestOK
<1>7. SupplyOK'
  BY OnlyCaller DEF IInv, SupplyOK, SupplyOf, Steady
<1>8. MonitorMatchesOpp' /\ NoAutoUnderMonitor'
  BY DEF IInv, MonitorMatchesOpp, NoAutoUnderMonitor
<1> QED BY <1>1, <1>3, <1>4, <1>5, <1>6, <1>7, <1>8 DEF IInv

-----------------------------------------------------------------------------
(***************************************************************************)
(* Devices, settings, idle and suspend.                                    *)
(***************************************************************************)
LEMMA SwitchDeviceStep ==
    ASSUME IInv, NEW d \in CoreDevices \cup OtherDevices, SwitchDevice(d)
    PROVE  IInv'
<1> USE DEF SwitchDevice, sleepVars
<1>1. clocks \in [Device -> Nat] /\ d \notin Channel /\ Channel \subseteq Device
  BY Constants DEF IInv, VoltageTypeOK
<1>2. clocks' \in [Device -> Nat] /\ \A c \in Channel : clocks'[c] = clocks[c]
  <2>1. CASE clocks[d] = 0
    <3>1. clocks' = [x \in Device |-> IF x \in {d} THEN clocks[x] + 1 ELSE clocks[x]]
      BY <2>1 DEF EnableClocks
    <3> QED BY <1>1, <3>1
  <2>2. CASE clocks[d] # 0
    <3>1. clocks' = [x \in Device |-> IF x \in {d} THEN Less(clocks[x], 1) ELSE clocks[x]]
      BY <2>2 DEF DisableClocks
    <3>2. \A n \in Nat : Less(n, 1) \in Nat
      BY DEF Less
    <3> QED BY <1>1, <3>1, <3>2
  <2> QED BY <2>1, <2>2
<1>3. NoAutoUnderMonitor'
  BY DEF IInv, NoAutoUnderMonitor, voltageVars, monitorVars
<1>4. cpu' = "running" /\ cpu = "running"
  BY DEF Running
<1> QED BY <1>2, <1>3, <1>4, PowerFrame

LEMMA SettingsStep ==
    ASSUME IInv, Settings
    PROVE  IInv'
<1>1. UNCHANGED <<voltageVars, clocks, cpu, autoControl>> /\ cpu = "running"
  <2>1. CASE \E e \in DomainStates :
               OALIoCtlPrcmDomainSetPowerState(e.domain, e.state, e.logic)
    BY <2>1 DEF OALIoCtlPrcmDomainSetPowerState, deviceVars, sleepVars, Running
  <2>2. CASE \E s \in SuspendStates : OALIoCtlPrcmSetSuspendState(s)
    BY <2>2 DEF OALIoCtlPrcmSetSuspendState, deviceVars, sleepVars, Running
  <2>3. CASE \E ticks \in Constraints \cup {MAX_INT} : OALIoCtlInterruptLatencyConstraint(ticks)
    BY <2>3 DEF OALIoCtlInterruptLatencyConstraint, deviceVars, sleepVars, Running
  <2> QED BY <2>1, <2>2, <2>3 DEF Settings
<1>2. clocks \in [Device -> Nat]
  BY DEF IInv, VoltageTypeOK
<1>3. NoAutoUnderMonitor'
  BY <1>1 DEF IInv, NoAutoUnderMonitor, voltageVars, monitorVars
<1> QED BY <1>1, <1>2, <1>3, PowerFrame

LEMMA OEMIdleStep ==
    ASSUME IInv, NEW delay \in Delays, OEMIdle(delay)
    PROVE  IInv'
<1>1. /\ UNCHANGED <<voltageVars, clocks>> /\ cpu = "running" /\ cpu' = "idle"
      /\ \A t \in Caller : call[t] = Idle
      /\ Monitored => autoControl' = autoControl
  BY DEF OEMIdle, deviceVars, Running, PushState, AutoControl
<1>2. \A c \in Channel : srLock[c] = NoCaller
  BY <1>1, IdleFields DEF IInv, VoltageTypeOK, LocksOK
<1>3. NoAutoUnderMonitor'
  BY <1>1, <1>2
  DEF IInv, HardwareOK, Lit, NoAutoUnderMonitor, voltageVars, monitorVars, Monitored,
      IsSmartReflexMonitoringEnabled
<1>4. clocks \in [Device -> Nat]
  BY DEF IInv, VoltageTypeOK
<1> QED BY <1>1, <1>2, <1>3, <1>4, PowerFrame

LEMMA WakeFromIdleStep ==
    ASSUME IInv, WakeFromIdle
    PROVE  IInv'
<1>1. UNCHANGED <<voltageVars, clocks, autoControl>> /\ cpu = "idle" /\ cpu' = "running"
  BY DEF WakeFromIdle, deviceVars
<1>2. clocks \in [Device -> Nat]
  BY DEF IInv, VoltageTypeOK
<1>3. NoAutoUnderMonitor'
  BY <1>1 DEF IInv, NoAutoUnderMonitor, voltageVars, monitorVars
<1> QED BY <1>1, <1>2, <1>3, PowerFrame

LEMMA OEMPowerOffStep ==
    ASSUME IInv, OEMPowerOff
    PROVE  IInv'
<1>1. UNCHANGED <<voltageVars, clocks>> /\ cpu = "off" /\ cpu' = "suspended"
  BY DEF OEMPowerOff, deviceVars
<1>2. \A c \in Channel : srLock[c] = NoCaller /\ ~ Lit(c)
  BY <1>1 DEF IInv, RestOK, Lit
<1>3. NoAutoUnderMonitor'
  BY <1>1, <1>2 DEF IInv, HardwareOK, NoAutoUnderMonitor, voltageVars, monitorVars
<1>4. clocks \in [Device -> Nat]
  BY DEF IInv, VoltageTypeOK
<1> QED BY <1>1, <1>2, <1>3, <1>4, PowerFrame

-----------------------------------------------------------------------------
(***************************************************************************)
(* The ioctls begin, pick a domain, and return.                            *)
(***************************************************************************)
LEMMA OppRequestStep ==
    ASSUME OneCaller, IInv, NEW t \in Caller, NEW r \in Requests, OALIoCtlOppRequest(t, r)
    PROVE  IInv'
<1> DEFINE d == [Idle EXCEPT !.op = "opp", !.pc = "next", !.todo = r, !.request = r]
<1>1. /\ call[t] = Idle /\ call' = [call EXCEPT ![t] = d]
      /\ UNCHANGED <<latencyVars, oppVdd, supplyVars, monitorVars, resumeSR, control>>
  BY DEF OALIoCtlOppRequest
<1>2. /\ d \in CallType /\ d.op = "opp" /\ d.pc = "next" /\ d.restore = FALSE
  BY IdleFields, Constants DEF CallType, Idle
<1> HIDE DEF d
<1>3. call' \in [Caller -> CallType] /\ call'[t] = d
  BY <1>1, <1>2 DEF IInv, VoltageTypeOK
<1>4. \A c \in Channel : (Kept(c)' <=> Kept(c))
  BY <1>1 DEF Kept, latencyVars, sleepVars, monitorVars
<1>5. CallOK(t)'
  BY <1>2, <1>3, IdleFields DEF CallOK, Changing, Switching
<1>6. ControlOf(t)'
  <2>1. \A c \in Channel : Kept(c) <=> Wanted
    BY <1>1, IdleFields DEF IInv, ControlOK, ControlOf
  <2>2. Wanted' <=> Wanted
    BY <1>1 DEF Wanted
  <2> QED BY <1>2, <1>3, <1>4, <2>1, <2>2 DEF ControlOf, Changing, Switching
<1>7. control' \in BOOLEAN /\ UNCHANGED <<cpu, clocks, autoControl>>
  BY <1>1 DEF IInv, VoltageTypeOK, latencyVars, sleepVars, deviceVars
<1> QED BY <1>1, <1>2, <1>3, <1>5, <1>6, <1>7, IdleFields, MoveFrame DEF Changing

LEMMA ControlRequestStep ==
    ASSUME OneCaller, IInv, NEW t \in Caller, NEW b \in BOOLEAN, OALIoCtlSmartReflexControl(t, b)
    PROVE  IInv'
<1> DEFINE d == [Idle EXCEPT !.op = "monitor", !.pc = "next", !.todo = Both, !.on = b]
<1>1. /\ call[t] = Idle /\ call' = [call EXCEPT ![t] = d] /\ control' = b
      /\ UNCHANGED <<latencyVars, oppVdd, supplyVars, monitorVars, resumeSR>>
  BY DEF OALIoCtlSmartReflexControl
<1>2. /\ d \in CallType /\ d.op = "monitor" /\ d.pc = "next" /\ d.todo = Both /\ d.on = b
  BY IdleFields, BothParts DEF CallType, Idle
<1> HIDE DEF d
<1>3. call' \in [Caller -> CallType] /\ call'[t] = d
  BY <1>1, <1>2 DEF IInv, VoltageTypeOK
<1>4. CallOK(t)'
  BY <1>2, <1>3, IdleFields DEF CallOK, Changing, Switching
<1>5. ControlOf(t)'
  BY <1>1, <1>2, <1>3, BothParts DEF ControlOf
<1>6. control' \in BOOLEAN /\ UNCHANGED <<cpu, clocks, autoControl>>
  BY <1>1 DEF IInv, VoltageTypeOK, latencyVars, sleepVars, deviceVars
<1> QED BY <1>1, <1>2, <1>3, <1>4, <1>5, <1>6, IdleFields, MoveFrame DEF Changing

LEMMA UpdateRetentionStep ==
    ASSUME OneCaller, IInv, NEW t \in Caller, OALIoCtlUpdateRetentionVoltages(t)
    PROVE  IInv'
<1> DEFINE d == [Idle EXCEPT !.op = "retention", !.pc = "next", !.todo = Both]
<1>1. /\ call[t] = Idle /\ call' = [call EXCEPT ![t] = d]
      /\ UNCHANGED <<latencyVars, oppVdd, supplyVars, monitorVars, resumeSR, control>>
  BY DEF OALIoCtlUpdateRetentionVoltages
<1>2. /\ d \in CallType /\ d.op = "retention" /\ d.pc = "next" /\ d.restore = FALSE
  BY IdleFields, BothParts DEF CallType, Idle
<1> HIDE DEF d
<1>3. call' \in [Caller -> CallType] /\ call'[t] = d
  BY <1>1, <1>2 DEF IInv, VoltageTypeOK
<1>4. \A c \in Channel : (Kept(c)' <=> Kept(c))
  BY <1>1 DEF Kept, latencyVars, sleepVars, monitorVars
<1>5. CallOK(t)'
  BY <1>2, <1>3, IdleFields DEF CallOK, Changing, Switching
<1>6. ControlOf(t)'
  <2>1. \A c \in Channel : Kept(c) <=> Wanted
    BY <1>1, IdleFields DEF IInv, ControlOK, ControlOf
  <2>2. Wanted' <=> Wanted
    BY <1>1 DEF Wanted
  <2> QED BY <1>2, <1>3, <1>4, <2>1, <2>2 DEF ControlOf, Changing, Switching
<1>7. control' \in BOOLEAN /\ UNCHANGED <<cpu, clocks, autoControl>>
  BY <1>1 DEF IInv, VoltageTypeOK, latencyVars, sleepVars, deviceVars
<1> QED BY <1>1, <1>2, <1>3, <1>5, <1>6, <1>7, IdleFields, MoveFrame DEF Changing

(* What is known of a caller before and after a move. *)
LEMMA Known ==
    ASSUME IInv, NEW t \in Caller
    PROVE  /\ CallOK(t) /\ ControlOf(t) /\ VoltageTypeOK
           /\ call[t].todo # <<>> => Vd(t) \in Channel
BY Working, Constants DEF IInv, CallsOK, ControlOK

LEMMA NextDomainStep ==
    ASSUME OneCaller, IInv, NEW t \in Caller, NextDomain(t), Running
    PROVE  IInv'
<1>1. /\ call[t].pc = "next" /\ call[t].todo # <<>>
      /\ UNCHANGED <<latencyVars, oppVdd, supplyVars, monitorVars, resumeSR, control>>
  BY DEF NextDomain
<1>2. /\ control' \in BOOLEAN /\ UNCHANGED <<cpu, clocks, autoControl>> /\ cpu = "running"
      /\ (Wanted' <=> Wanted) /\ \A c \in Channel : (Kept(c)' <=> Kept(c)) /\ (Kept(c) <=> bEnabled[c])
  BY <1>1 DEF IInv, VoltageTypeOK, latencyVars, sleepVars, deviceVars, Wanted, Kept, monitorVars, Running
<1>3. CallOK(t) /\ ControlOf(t) /\ VoltageTypeOK /\ Vd(t) \in Channel
  BY <1>1, Known
<1>4. CASE call[t].op = "monitor" /\ Monitor(t, call[t].on, "drop")
  <2>1. /\ SameWork(t) /\ call'[t].pc = "test" /\ call'[t].restore = call[t].restore
        /\ call'[t].on = call[t].on /\ call'[t].back = "drop"
    BY <1>3, <1>4, CallFields, MonitorFields
  <2>2. CallOK(t)'
    BY <1>1, <1>3, <1>4, <2>1 DEF CallOK, Changing, Switching, SameWork, Idle
  <2>3. ControlOf(t)'
    BY <1>1, <1>2, <1>3, <1>4, <2>1, Constants DEF ControlOf, Changing, Switching, SameWork
  <2> QED BY <1>1, <1>2, <2>1, <2>2, <2>3, MoveFrame DEF Changing, SameWork
<1>5. CASE call[t].op = "opp" /\ Goto(t, "drop")
  <2>1. /\ SameWork(t) /\ call'[t].pc = "drop" /\ call'[t].restore = call[t].restore
    BY <1>3, <1>5, GotoFields DEF Pc
  <2>2. CallOK(t)'
    BY <1>1, <1>3, <1>5, <2>1 DEF CallOK, Changing, Switching, SameWork, Idle
  <2>3. ControlOf(t)'
    BY <1>1, <1>2, <1>3, <1>5, <2>1 DEF ControlOf, Changing, Switching, SameWork
  <2> QED BY <1>1, <1>2, <2>1, <2>2, <2>3, MoveFrame DEF Changing, SameWork
<1>6. CASE call[t].op \in {"opp", "retention"} /\ bEnabled[Vd(t)] /\ MonitorRestored(t, FALSE, "change")
  <2>1. /\ SameWork(t) /\ call'[t].pc = "test" /\ call'[t].restore = TRUE
        /\ call'[t].on = FALSE /\ call'[t].back = "change"
    BY <1>3, <1>6, MonitorRestoredFields
  <2>2. CallOK(t)'
    BY <1>1, <1>3, <1>6, <2>1 DEF CallOK, Changing, Switching, SameWork, Idle
  <2>3. Wanted
    BY <1>1, <1>2, <1>3, <1>6 DEF ControlOf
  <2>4. ControlOf(t)'
    BY <1>1, <1>2, <1>3, <1>6, <2>1, <2>3, SameDomain
    DEF ControlOf, Changing, Switching, SameWork
  <2> QED BY <1>1, <1>2, <2>1, <2>2, <2>4, MoveFrame DEF Changing, SameWork
<1>7. CASE call[t].op \in {"opp", "retention"} /\ ~ bEnabled[Vd(t)] /\ Goto(t, "change")
  <2>1. SameWork(t) /\ call'[t].pc = "change" /\ call'[t].restore = call[t].restore
    BY <1>3, <1>7, GotoFields DEF Pc
  <2>2. Vd(t)' = Vd(t) /\ ~ Kept(Vd(t))'
    BY <1>2, <1>3, <1>7, <2>1, SameDomain
  <2>3. CallOK(t)'
    BY <1>1, <1>3, <1>7, <2>1, <2>2 DEF CallOK, Changing, Switching, SameWork, Idle
  <2>4. ControlOf(t)'
    BY <1>1, <1>2, <1>3, <1>7, <2>1, <2>2
    DEF ControlOf, Changing, Switching, SameWork
  <2> QED BY <1>1, <1>2, <2>1, <2>3, <2>4, MoveFrame DEF Changing, SameWork
<1>8. call[t].op \in {"none", "opp", "monitor", "retention"} /\ call[t].op # "none"
  BY <1>1, <1>3, CallFields DEF CallOK
<1> QED BY <1>4, <1>5, <1>6, <1>7, <1>8 DEF NextDomain, IsSmartReflexMonitoringEnabled

LEMMA DropStep ==
    ASSUME OneCaller, IInv, NEW t \in Caller, Drop(t)
    PROVE  IInv'
<1> DEFINE d == [call[t] EXCEPT !.pc = "next", !.todo = Tail(@)]
<1>1. /\ call[t].pc = "drop" /\ call' = [call EXCEPT ![t] = d]
      /\ UNCHANGED <<latencyVars, oppVdd, supplyVars, monitorVars, resumeSR, control>>
  BY DEF Drop
<1>2. CallOK(t) /\ ControlOf(t) /\ VoltageTypeOK /\ call[t].todo # <<>> /\ Vd(t) \in Channel
  BY <1>1, Known DEF CallOK
<1>3. /\ d \in CallType /\ d.op = call[t].op /\ d.pc = "next" /\ d.todo = Tail(call[t].todo)
      /\ d.restore = call[t].restore /\ d.on = call[t].on
  <2>1. Tail(call[t].todo) \in Seq(Asked) /\ call[t] \in CallType
    BY <1>2, Working, CallFields
  <2> QED BY <2>1 DEF CallType
<1> HIDE DEF d
<1>4. call' \in [Caller -> CallType] /\ call'[t] = d
  BY <1>1, <1>2, <1>3 DEF VoltageTypeOK
<1>5. /\ control' \in BOOLEAN /\ UNCHANGED <<cpu, clocks, autoControl, control>>
      /\ (Wanted' <=> Wanted) /\ \A c \in Channel : (Kept(c)' <=> Kept(c))
  BY <1>1 DEF IInv, VoltageTypeOK, latencyVars, sleepVars, deviceVars, Wanted, Kept, monitorVars
<1>6. CallOK(t)'
  BY <1>1, <1>2, <1>3, <1>4 DEF CallOK, Changing, Switching, Idle
<1>7. ControlOf(t)'
  <2>1. CASE call[t].op \in {"opp", "retention"}
    BY <1>1, <1>2, <1>3, <1>4, <1>5, <2>1 DEF ControlOf, Changing, Switching
  <2>2. CASE call[t].op = "monitor"
    <3>1. Kept(Vd(t)) <=> Wanted
      BY <1>1, <1>2, <2>2 DEF ControlOf
    <3>2. CASE call[t].todo = Both
      <4>1. Vd(t) = "vdd1" /\ d.todo = Tail(Both) /\ d.todo # <<>>
        BY <1>3, <3>2, BothParts DEF Vd
      <4> QED BY <1>2, <1>3, <1>4, <1>5, <2>2, <3>1, <4>1, Constants DEF ControlOf
    <3>3. CASE call[t].todo = Tail(Both)
      <4>1. Vd(t) = "vdd2" /\ d.todo = <<>> /\ call[t].todo # Both
        BY <1>3, <3>3, BothParts DEF Vd
      <4> QED BY <1>2, <1>3, <1>4, <1>5, <2>2, <3>1, <4>1, Constants DEF ControlOf
    <3> QED BY <1>2, <2>2, <3>2, <3>3 DEF ControlOf
  <2>3. call[t].op # "none" /\ call[t].op \in {"none", "opp", "monitor", "retention"}
    BY <1>1, <1>2, CallFields DEF CallOK
  <2> QED BY <2>1, <2>2, <2>3
<1> QED BY <1>1, <1>3, <1>4, <1>5, <1>6, <1>7, MoveFrame DEF Changing

LEMMA ReturnCallStep ==
    ASSUME OneCaller, IInv, NEW t \in Caller, ReturnCall(t)
    PROVE  IInv'
<1>1. /\ call[t].pc = "next" /\ call[t].todo = <<>> /\ call' = [call EXCEPT ![t] = Idle]
      /\ UNCHANGED <<deviceVars, sleepVars, autoControl>>
      /\ UNCHANGED <<oppVdd, supplyVars, monitorVars, resumeSR, control>>
  BY DEF ReturnCall
<1>2. CallOK(t) /\ ControlOf(t) /\ VoltageTypeOK
  BY Known
<1>3. call' \in [Caller -> CallType] /\ call'[t] = Idle
  BY <1>1, <1>2, IdleFields DEF VoltageTypeOK
<1>4. /\ control' \in BOOLEAN /\ UNCHANGED <<cpu, clocks>>
      /\ (Wanted' <=> Wanted) /\ \A c \in Channel : (Kept(c)' <=> Kept(c))
  BY <1>1 DEF IInv, VoltageTypeOK, sleepVars, deviceVars, Wanted, Kept, monitorVars
<1>5. CallOK(t)'
  BY <1>3, IdleFields DEF CallOK, Changing, Switching
<1>6. ControlOf(t)'
  <2>1. call[t].op \in {"opp", "monitor", "retention"}
    BY <1>1, <1>2, CallFields DEF CallOK
  <2>2. \A c \in Channel : Kept(c) <=> Wanted
    BY <1>1, <1>2, <2>1, BothParts, Constants DEF ControlOf
  <2> QED BY <1>3, <1>4, <2>2, IdleFields DEF ControlOf
<1> QED BY <1>1, <1>3, <1>4, <1>5, <1>6, IdleFields, MoveFrame DEF Changing

-----------------------------------------------------------------------------
(***************************************************************************)
(* SmartReflex_EnableMonitor.                                              *)
(***************************************************************************)

(* Afterwards the channel is as it was asked to be. *)
LEMMA AfterSwitch ==
    ASSUME IInv, NEW t \in Caller, call[t].pc \in Switching,
           SameWork(t), call'[t].pc = call[t].back, call'[t].restore = call[t].restore,
           call'[t].on = call[t].on, call'[t].back = call[t].back, control' = control,
           Kept(Vd(t))' <=> call[t].on /\ Capable,
           \A c \in Channel : c # Vd(t) => (Kept(c)' <=> Kept(c))
    PROVE  CallOK(t)' /\ ControlOf(t)'
<1>1. CallOK(t) /\ ControlOf(t) /\ VoltageTypeOK /\ call[t].todo # <<>> /\ Vd(t) \in Channel
  BY Known DEF CallOK, Switching
<1>2. /\ Vd(t)' = Vd(t) /\ (Wanted' <=> Wanted) /\ call[t].back \in {"change", "drop"}
      /\ call[t].back = "change" => ~ call[t].on /\ call[t].op # "monitor"
  BY <1>1, SameDomain DEF Wanted, CallOK
<1>3. call[t].op \in {"opp", "monitor", "retention"}
  BY <1>1, CallFields DEF CallOK, Switching
<1>4. CallOK(t)'
  BY <1>1, <1>2, <1>3 DEF CallOK, Switching, Changing, SameWork, Idle
<1>5. ControlOf(t)'
  <2>1. CASE call[t].op \in {"opp", "retention"}
    <3>1. Wanted /\ call[t].restore /\ (call[t].back = "drop" => call[t].on)
      BY <1>1, <2>1 DEF ControlOf
    <3>2. call[t].back = "drop" => (Kept(Vd(t))' <=> Wanted)
      BY <3>1 DEF Wanted
    <3>3. \A c \in Channel : c # Vd(t) => (Kept(c)' <=> Wanted)
      BY <1>1, <2>1 DEF ControlOf, Switching
    <3> QED BY <1>1, <1>2, <2>1, <3>1, <3>2, <3>3
            DEF ControlOf, Switching, Changing, SameWork
  <2>2. CASE call[t].op = "monitor"
    <3>1. /\ call[t].back = "drop" /\ (Kept(Vd(t))' <=> Wanted)
      BY <1>1, <1>2, <2>2 DEF ControlOf, Wanted
    <3>2. /\ call'[t].op = "monitor" /\ (call'[t].on <=> control') /\ call'[t].todo = call[t].todo
          /\ call[t].todo \in {Both, Tail(Both), <<>>}
          /\ call[t].todo # Both => (Kept("vdd1") <=> Wanted)
      BY <1>1, <2>2 DEF SameWork, ControlOf
    <3>3. call[t].todo # Both => (Kept("vdd1")' <=> Wanted')
      <4>1. ASSUME call[t].todo # Both PROVE Vd(t) = "vdd2"
        BY <1>1, <3>2, <4>1, BothParts DEF Vd
      <4>2. "vdd1" \in Channel /\ "vdd1" # "vdd2"
        BY Constants
      <4> QED BY <1>2, <3>2, <4>1, <4>2
    <3> QED BY <1>1, <1>2, <3>1, <3>2, <3>3 DEF ControlOf
  <2> QED BY <1>3, <2>1, <2>2
<1> QED BY <1>4, <1>5

LEMMA TestMonitorStep ==
    ASSUME OneCaller, IInv, NEW t \in Caller, TestMonitor(t), Running
    PROVE  IInv'
<1> DEFINE done == ~ Capable \/ bEnabled[Vd(t)] = call[t].on
<1>1. /\ call[t].pc = "test" /\ Goto(t, IF done THEN call[t].back ELSE "switch")
      /\ UNCHANGED <<latencyVars, oppVdd, supplyVars, monitorVars, resumeSR, control>>
  BY DEF TestMonitor
<1>2. /\ CallOK(t) /\ ControlOf(t) /\ VoltageTypeOK /\ call[t].todo # <<>> /\ Vd(t) \in Channel
      /\ call[t].back \in {"change", "drop"}
  BY <1>1, Known DEF CallOK, Switching
<1>3. /\ control' \in BOOLEAN /\ UNCHANGED <<cpu, clocks, autoControl>> /\ cpu = "running"
      /\ (Wanted' <=> Wanted) /\ \A c \in Channel : (Kept(c)' <=> Kept(c)) /\ (Kept(c) <=> bEnabled[c])
  BY <1>1 DEF IInv, VoltageTypeOK, latencyVars, sleepVars, deviceVars, Wanted, Kept, monitorVars, Running
<1>4. /\ bEnabled[Vd(t)] \in BOOLEAN /\ call[t].on \in BOOLEAN
      /\ ~ Capable => ~ bEnabled[Vd(t)]
  BY <1>2, CallFields DEF VoltageTypeOK, IInv, RestOK
<1>5. (bEnabled[Vd(t)] = call[t].on) <=> (bEnabled[Vd(t)] <=> call[t].on)
  BY <1>4
<1>6. CASE done
  <2>1. Goto(t, call[t].back)
    BY <1>1, <1>6
  <2>2. /\ SameWork(t) /\ call'[t].pc = call[t].back /\ call'[t].restore = call[t].restore
        /\ call'[t].on = call[t].on /\ call'[t].back = call[t].back
    BY <1>2, <2>1, GotoFields DEF Pc
  <2>3. Kept(Vd(t)) <=> call[t].on /\ Capable
    BY <1>2, <1>3, <1>4, <1>5, <1>6
  <2>4. Kept(Vd(t))' <=> call[t].on /\ Capable
    <3>1. \A c \in Channel : c = Vd(t) => (Kept(c)' <=> Kept(c))
      BY <1>3
    <3>2. Vd(t)' = Vd(t)
      BY <2>2, SameDomain
    <3> QED BY <1>2, <2>3, <3>1, <3>2
  <2>5. CallOK(t)' /\ ControlOf(t)'
    BY <1>1, <1>3, <2>2, <2>4, AfterSwitch DEF Switching
  <2> QED BY <1>1, <1>2, <1>3, <2>2, <2>5, MoveFrame DEF Changing, SameWork
<1>7. CASE ~ done
  <2>1. Goto(t, "switch")
    BY <1>1, <1>7
  <2>2. /\ SameWork(t) /\ call'[t].pc = "switch" /\ call'[t].restore = call[t].restore
        /\ call'[t].on = call[t].on /\ call'[t].back = call[t].back
    BY <1>2, <2>1, GotoFields DEF Pc
  <2>3. Capable /\ (Kept(Vd(t))' <=> ~ call[t].on) /\ Vd(t)' = Vd(t)
    BY <1>2, <1>3, <1>4, <1>5, <1>7, <2>2, SameDomain
  <2>4. CallOK(t)'
    BY <1>1, <1>2, <2>2, <2>3 DEF CallOK, Switching, Changing, SameWork, Idle
  <2>5. ControlOf(t)'
    BY <1>1, <1>2, <1>3, <2>2, <2>3, Constants DEF ControlOf, Switching, Changing, SameWork
  <2> QED BY <1>1, <1>3, <2>2, <2>4, <2>5, MoveFrame DEF Changing, SameWork
<1> QED BY <1>6, <1>7

(* One channel of those that may be locked is. *)
LEMMA LockFree ==
    ASSUME OneCaller, IInv, NEW t \in Caller, call[t].pc # "flag"
    PROVE  \A c \in Channel : srLock[c] = NoCaller
BY OnlyCaller DEF IInv, VoltageTypeOK, LocksOK

LEMMA SwitchMonitorStep ==
    ASSUME OneCaller, IInv, NEW t \in Caller, SwitchMonitor(t), Running
    PROVE  IInv'
<1>0. PICK v \in Channel : v = Vd(t)
  BY Known DEF SwitchMonitor, CallOK
<1>1. /\ call[t].pc = "switch" /\ srLock' = [srLock EXCEPT ![v] = t] /\ Goto(t, "flag")
      /\ UNCHANGED <<cpu, oppVdd, initVdd, freq, bEnabled, resumeSR, control>> /\ cpu = "running"
  BY <1>0 DEF SwitchMonitor, sleepVars, Running
<1>2. /\ CallOK(t) /\ ControlOf(t) /\ VoltageTypeOK /\ call[t].todo # <<>> /\ v \in Channel
      /\ Capable /\ (Kept(v) <=> ~ call[t].on)
  BY <1>0, <1>1, Known DEF CallOK
<1>3. /\ SameWork(t) /\ call'[t].pc = "flag" /\ call'[t].restore = call[t].restore
      /\ call'[t].on = call[t].on /\ call'[t].back = call[t].back /\ Vd(t)' = v
  BY <1>0, <1>1, <1>2, GotoFields, SameDomain DEF Pc
<1>4. \A c \in Channel : srLock[c] = NoCaller
  BY <1>1, LockFree
<1>5. /\ Channel \subseteq Device /\ Channel = Vdd /\ NoCaller # t
      /\ oppVdd[v] \in Nat \ {0} /\ initVdd[v] \in Nat
  BY <1>2, Constants DEF VoltageTypeOK
<1>6. /\ \A c \in Channel : (Kept(c)' <=> Kept(c)) /\ (Lit(c) <=> bEnabled[c]) /\ (Kept(c) <=> bEnabled[c])
      /\ Wanted' <=> Wanted
  BY <1>1, <1>4 DEF Kept, Lit, Wanted
<1>7. srLock' \in [Channel -> Caller \cup {NoCaller}] /\ srLock'[v] = t
  BY <1>1, <1>2 DEF VoltageTypeOK
<1>8. \A c \in Channel : IF c = v THEN Lit(c)' <=> call[t].on ELSE Lit(c)' <=> Lit(c)
  BY <1>1, <1>2, <1>4, <1>5, <1>6, <1>7 DEF Lit, VoltageTypeOK
<1>9. /\ vp' \in [Channel -> BOOLEAN] /\ sensor' \in [Channel -> Nat] /\ volt' \in [Vdd -> Nat]
      /\ clocks' \in [Device -> Nat]
      /\ vp'[v] <=> call[t].on
      /\ sensor'[v] = IF call[t].on THEN oppVdd[v] ELSE 0
      /\ volt'[v] = IF call[t].on THEN oppVdd[v] ELSE initVdd[v]
      /\ clocks'[v] = IF call[t].on THEN 1 ELSE 0
      /\ \A c \in Channel \ {v} : (vp'[c] <=> vp[c]) /\ sensor'[c] = sensor[c]
                                 /\ volt'[c] = volt[c] /\ clocks'[c] = clocks[c]
      /\ autoControl' = IF call[t].on THEN "off" ELSE autoControl
  <2>0. /\ clocks[v] = (IF call[t].on THEN 0 ELSE 1) /\ clocks \in [Device -> Nat]
        /\ vp \in [Channel -> BOOLEAN] /\ sensor \in [Channel -> Nat] /\ volt \in [Vdd -> Nat]
    BY <1>2, <1>6 DEF IInv, HardwareOK, VoltageTypeOK
  <2>1. CASE call[t].on
    <3>1. /\ vp' = [c \in Channel |-> c \in {v} \/ vp[c]]
          /\ sensor' = [c \in Channel |-> IF c \in {v} THEN oppVdd[c] ELSE sensor[c]]
          /\ volt' = [c \in Vdd |-> IF c \in {v} THEN oppVdd[c] ELSE volt[c]]
          /\ autoControl' = "off"
          /\ clocks' = [d \in Device |-> IF d \in {v} THEN clocks[d] + 1 ELSE clocks[d]]
      BY <1>0, <2>1 DEF SwitchMonitor, StartMonitor, EnableClocks
    <3>2. oppVdd \in [Vdd -> Nat \ {0}]
      BY <1>2 DEF VoltageTypeOK
    <3>3. \A c \in Channel : vp'[c] <=> (c = v \/ vp[c])
      BY <3>1
    <3>4. vp' \in [Channel -> BOOLEAN]
      BY <3>1, Zenon
    <3> QED BY <1>2, <1>5, <2>0, <2>1, <3>1, <3>2, <3>3, <3>4
  <2>2. CASE ~ call[t].on
    <3>1. /\ vp' = [c \in Channel |-> c \notin {v} /\ vp[c]]
          /\ sensor' = [c \in Channel |-> IF c \in {v} THEN 0 ELSE sensor[c]]
          /\ volt' = [c \in Vdd |-> IF c \in {v} THEN initVdd[c] ELSE volt[c]]
          /\ autoControl' = autoControl
          /\ clocks' = [d \in Device |-> IF d \in {v} THEN Less(clocks[d], 1) ELSE clocks[d]]
      BY <1>0, <2>2 DEF SwitchMonitor, StopMonitor, DisableClocks
    <3>2. initVdd \in [Vdd -> Nat]
      BY <1>2 DEF VoltageTypeOK
    <3>0. Less(1, 1) = 0 /\ \A n \in Nat : Less(n, 1) \in Nat
      BY DEF Less
    <3>3. \A c \in Channel : vp'[c] <=> (c # v /\ vp[c])
      BY <3>1
    <3>4. vp' \in [Channel -> BOOLEAN]
      BY <3>1, Zenon
    <3> QED BY <1>2, <1>5, <2>0, <2>2, <3>0, <3>1, <3>2, <3>3, <3>4
  <2> QED BY <2>1, <2>2
<1>10. VoltageTypeOK'
  BY <1>1, <1>2, <1>3, <1>7, <1>9 DEF VoltageTypeOK, SameWork
<1>11. CallOK(t)' /\ ControlOf(t)'
  <2>1. Kept(v)' <=> ~ call[t].on
    BY <1>2, <1>6
  <2>2. CallOK(t)'
    BY <1>1, <1>2, <1>3, <2>1 DEF CallOK, Switching, Changing, SameWork, Idle
  <2>3. call[t].op \in {"opp", "monitor", "retention"}
    BY <1>1, <1>2, CallFields DEF CallOK
  <2>4. ControlOf(t)'
    BY <1>0, <1>1, <1>2, <1>3, <1>6, <2>3, Constants DEF ControlOf, Switching, Changing, SameWork
  <2> QED BY <2>2, <2>4
<1>12. CallsOK' /\ ControlOK'
  BY <1>11, OnlyCaller DEF CallsOK, ControlOK
<1>13. LocksOK'
  <2>1. \A c \in Channel : srLock'[c] = t <=> c = v
    BY <1>1, <1>2, <1>4, <1>5 DEF VoltageTypeOK
  <2> QED BY <1>3, <2>1, OnlyCaller DEF LocksOK
<1>14. HardwareOK'
  BY <1>5, <1>8, <1>9 DEF IInv, HardwareOK
<1>15. RestOK'
  BY <1>1, <1>6 DEF IInv, RestOK
<1>16. SupplyOK'
  <2>1. ASSUME NEW w \in Vdd PROVE SupplyOf(t, w)'
    <3>1. Steady(w)
      BY <1>1 DEF IInv, SupplyOK, SupplyOf, Changing
    <3>2. Steady(w)'
      BY <1>1, <1>5, <1>9, <3>1 DEF Steady
    <3> QED BY <1>3, <3>2 DEF SupplyOf, Changing
  <2> QED BY <2>1, OnlyCaller DEF SupplyOK
<1>17. MonitorMatchesOpp' /\ NoAutoUnderMonitor'
  BY <1>1, <1>5, <1>9 DEF IInv, MonitorMatchesOpp, NoAutoUnderMonitor
<1> QED BY <1>10, <1>12, <1>13, <1>14, <1>15, <1>16, <1>17 DEF IInv

LEMMA FlagMonitorStep ==
    ASSUME OneCaller, IInv, NEW t \in Caller, FlagMonitor(t), Running
    PROVE  IInv'
<1>0. PICK v \in Channel : v = Vd(t)
  BY Known DEF FlagMonitor, CallOK
<1>1. /\ call[t].pc = "flag" /\ srLock' = [srLock EXCEPT ![v] = NoCaller]
      /\ bEnabled' = [bEnabled EXCEPT ![v] = call[t].on] /\ Goto(t, call[t].back)
      /\ UNCHANGED <<cpu, clocks, autoControl, oppVdd, volt, initVdd, freq, vp, sensor, resumeSR, control>>
      /\ cpu = "running"
  BY <1>0 DEF FlagMonitor, latencyVars, sleepVars, deviceVars, supplyVars, Running
<1>2. /\ CallOK(t) /\ VoltageTypeOK /\ Capable /\ (Kept(v) <=> ~ call[t].on)
      /\ call[t].back \in {"change", "drop"} /\ call[t].on \in BOOLEAN
  BY <1>0, <1>1, Known, CallFields DEF CallOK, Switching
<1>3. /\ SameWork(t) /\ call'[t].pc = call[t].back /\ call'[t].restore = call[t].restore
      /\ call'[t].on = call[t].on /\ call'[t].back = call[t].back /\ Vd(t)' = v
  BY <1>0, <1>1, <1>2, GotoFields, SameDomain DEF Pc
<1>4. /\ srLock[v] = t /\ \A c \in Channel \ {v} : srLock[c] = NoCaller
  BY <1>0, <1>1, <1>2, OnlyCaller DEF IInv, LocksOK, VoltageTypeOK
<1>5. /\ srLock' \in [Channel -> Caller \cup {NoCaller}] /\ \A c \in Channel : srLock'[c] = NoCaller
      /\ bEnabled' \in [Channel -> BOOLEAN] /\ bEnabled'[v] = call[t].on
      /\ \A c \in Channel \ {v} : bEnabled'[c] = bEnabled[c]
  BY <1>1, <1>2, <1>4 DEF VoltageTypeOK
<1>6. NoCaller # t
  BY Constants
<1>7. /\ \A c \in Channel : Lit(c)' <=> Lit(c)
      /\ \A c \in Channel \ {v} : Kept(c)' <=> Kept(c)
      /\ \A c \in Channel : c = v => (Kept(c)' <=> call[t].on)
  BY <1>1, <1>2, <1>4, <1>5, <1>6 DEF Lit, Kept
<1>8. CallOK(t)' /\ ControlOf(t)'
  <2>1. Kept(Vd(t))' <=> call[t].on /\ Capable
    BY <1>2, <1>3, <1>7
  <2>2. \A c \in Channel : c # Vd(t) => (Kept(c)' <=> Kept(c))
    BY <1>0, <1>7
  <2> QED BY <1>1, <1>3, <2>1, <2>2, AfterSwitch DEF Switching
<1>9. VoltageTypeOK'
  BY <1>1, <1>2, <1>3, <1>5 DEF VoltageTypeOK, SameWork
<1>10. CallsOK' /\ ControlOK'
  BY <1>8, OnlyCaller DEF CallsOK, ControlOK
<1>11. LocksOK'
  BY <1>2, <1>3, <1>5, <1>6, OnlyCaller DEF LocksOK
<1>12. HardwareOK'
  BY <1>1, <1>7 DEF IInv, HardwareOK
<1>13. RestOK'
  BY <1>1, <1>2 DEF RestOK
<1>14. SupplyOK'
  <2>1. ASSUME NEW w \in Vdd PROVE SupplyOf(t, w)'
    <3>1. Steady(w)
      BY <1>1 DEF IInv, SupplyOK, SupplyOf, Changing
    <3>2. Steady(w)'
      BY <1>1, <3>1 DEF Steady
    <3> QED BY <1>2, <1>3, <3>2 DEF SupplyOf, Changing
  <2> QED BY <2>1, OnlyCaller DEF SupplyOK
<1>15. MonitorMatchesOpp' /\ NoAutoUnderMonitor'
  BY <1>1 DEF IInv, MonitorMatchesOpp, NoAutoUnderMonitor
<1> QED BY <1>9, <1>10, <1>11, <1>12, <1>13, <1>14, <1>15 DEF IInv

-----------------------------------------------------------------------------
(***************************************************************************)
(* A change of voltage, frequency or operating point, while the channel of *)
(* the domain does not monitor.                                            *)
(***************************************************************************)
LEMMA ChangeFrame ==
    ASSUME OneCaller, IInv, NEW t \in Caller, NEW v \in Vdd, v = Vd(t),
           call[t].pc \in Changing \cup {"change"}, call'[t].pc # "flag",
           UNCHANGED <<cpu, clocks, autoControl, sensor, bEnabled, srLock, resumeSR, control>>,
           vp' = vp \/ vp' = [vp EXCEPT ![v] = FALSE],
           oppVdd' \in [Vdd -> Nat \ {0}], volt' \in [Vdd -> Nat], initVdd' \in [Vdd -> Nat],
           freq' \in [Vdd -> Nat], call' \in [Caller -> CallType],
           \A w \in Vdd \ {v} : /\ oppVdd'[w] = oppVdd[w] /\ volt'[w] = volt[w]
                                /\ initVdd'[w] = initVdd[w] /\ freq'[w] = freq[w],
           CallOK(t)', ControlOf(t)', SupplyOf(t, v)', Vd(t)' = v
    PROVE  IInv'
<1>1. CallOK(t) /\ VoltageTypeOK /\ Channel = Vdd
  BY Known, Constants
<1>2. ~ Kept(v) /\ \A c \in Channel : (Kept(c)' <=> Kept(c))
  BY <1>1 DEF CallOK, Kept
<1>3. \A c \in Channel : srLock[c] = NoCaller
  BY LockFree DEF Changing
<1>4. ~ Lit(v) /\ \A c \in Channel : (Lit(c)' <=> Lit(c))
  BY <1>1, <1>2, <1>3 DEF Lit, Kept, IInv, RestOK
<1>5. sensor[v] = 0 /\ ~ vp[v] /\ vp' \in [Channel -> BOOLEAN] /\ \A c \in Channel : vp'[c] <=> vp[c]
  <2>1. sensor[v] = 0 /\ ~ vp[v] /\ vp \in [Channel -> BOOLEAN]
    BY <1>1, <1>4 DEF IInv, HardwareOK, VoltageTypeOK
  <2> QED BY <1>1, <2>1
<1>6. VoltageTypeOK'
  BY <1>1, <1>5 DEF VoltageTypeOK
<1>7. CallsOK' /\ ControlOK'
  BY OnlyCaller DEF CallsOK, ControlOK
<1>8. LocksOK'
  BY <1>1, <1>3, OnlyCaller, Constants DEF LocksOK
<1>9. HardwareOK'
  BY <1>4, <1>5 DEF IInv, HardwareOK
<1>10. RestOK'
  BY <1>2 DEF IInv, RestOK
<1>11. SupplyOK'
  <2>1. ASSUME NEW w \in Vdd \ {v} PROVE SupplyOf(t, w)'
    <3>1. Steady(w)
      BY <2>1 DEF IInv, SupplyOK, SupplyOf
    <3>2. Steady(w)'
      BY <2>1, <3>1 DEF Steady
    <3> QED BY <2>1, <3>2 DEF SupplyOf
  <2> QED BY <2>1, OnlyCaller DEF SupplyOK
<1>12. MonitorMatchesOpp' /\ NoAutoUnderMonitor'
  BY <1>1, <1>5 DEF IInv, MonitorMatchesOpp, NoAutoUnderMonitor
<1> QED BY <1>6, <1>7, <1>8, <1>9, <1>10, <1>11, <1>12 DEF IInv

(* What is known of a caller that goes on in a change. *)
LEMMA ChangeGoesOn ==
    ASSUME IInv, NEW t \in Caller, NEW pc \in Changing, Goto(t, pc),
           call[t].pc \in Changing \cup {"change"}, call[t].op = "opp",
           UNCHANGED <<cpu, bEnabled, resumeSR, control>>
    PROVE  /\ SameWork(t) /\ call'[t].pc = pc /\ CallOK(t)' /\ ControlOf(t)'
           /\ Vd(t)' = Vd(t) /\ Head(call'[t].todo).opp = Head(call[t].todo).opp
<1>1. CallOK(t) /\ ControlOf(t) /\ VoltageTypeOK /\ call[t].todo # <<>> /\ Vd(t) \in Channel
  BY Known DEF CallOK, Changing
<1>2. pc \in Pc
  BY DEF Changing, Pc
<1>3. /\ SameWork(t) /\ call'[t].pc = pc /\ call'[t].restore = call[t].restore
      /\ call'[t].on = call[t].on /\ call'[t].back = call[t].back
      /\ Vd(t)' = Vd(t) /\ Head(call'[t].todo).opp = Head(call[t].todo).opp
  BY <1>1, <1>2, GotoFields, SameDomain
<1>4. (Wanted' <=> Wanted) /\ \A c \in Channel : (Kept(c)' <=> Kept(c))
  BY DEF Kept, Wanted
<1>5. ~ Kept(Vd(t))'
  BY <1>1, <1>3, <1>4 DEF CallOK
<1>6. CallOK(t)'
  BY <1>1, <1>3, <1>5 DEF CallOK, Switching, Changing, SameWork, Idle
<1>7. ControlOf(t)'
  BY <1>1, <1>3, <1>4 DEF ControlOf, Switching, Changing, SameWork
<1> QED BY <1>3, <1>6, <1>7

LEMMA ChangeVoltageStep ==
    ASSUME OneCaller, IInv, NEW t \in Caller, ChangeVoltage(t), Running
    PROVE  IInv'
<1>0. PICK v \in Vdd : v = Vd(t)
  BY Known, Constants DEF ChangeVoltage, CallOK
<1>1. PICK opp \in Nat \ {0} : opp = Head(call[t].todo).opp
  BY Known, Working DEF ChangeVoltage, CallOK
<1>2. PICK pc \in Changing :
        /\ Goto(t, pc) /\ pc # "lowered"
        /\ \/ call[t].pc = "change" /\ pc = "raised" /\ opp > oppVdd[v]
           \/ call[t].pc = "lowered" /\ pc = "note"
  BY <1>0, <1>1 DEF ChangeVoltage, Raising, Changing
<1>3. /\ call[t].op = "opp" /\ volt' = [volt EXCEPT ![v] = opp] /\ initVdd' = [initVdd EXCEPT ![v] = opp]
      /\ vp' = [vp EXCEPT ![v] = FALSE]
      /\ UNCHANGED <<cpu, clocks, autoControl, oppVdd, freq, sensor, bEnabled, srLock, resumeSR, control>>
  BY <1>0, <1>1 DEF ChangeVoltage, SetVoltage, latencyVars, sleepVars, deviceVars
<1>4. /\ SameWork(t) /\ call'[t].pc = pc /\ CallOK(t)' /\ ControlOf(t)'
      /\ Vd(t)' = v /\ Head(call'[t].todo).opp = opp
  BY <1>0, <1>1, <1>2, <1>3, ChangeGoesOn DEF Changing
<1>5. VoltageTypeOK
  BY DEF IInv
<1>6. SupplyOf(t, v)'
  <2>1. IF call[t].pc \in Changing THEN Changes(t, v) ELSE Steady(v)
    BY <1>0 DEF IInv, SupplyOK, SupplyOf
  <2>2. volt'[v] = opp /\ initVdd'[v] = opp /\ freq'[v] = freq[v] /\ oppVdd'[v] = oppVdd[v]
        /\ opp \in Nat /\ oppVdd[v] \in Nat
    BY <1>3, <1>5 DEF VoltageTypeOK
  <2>3. CASE call[t].pc = "change" /\ pc = "raised" /\ opp > oppVdd[v]
    <3>1. freq[v] = oppVdd[v]
      BY <2>1, <2>3 DEF Changing, Steady
    <3>2. Changes(t, v)'
      BY <1>4, <2>2, <2>3, <3>1 DEF Changes
    <3> QED BY <1>4, <3>2 DEF SupplyOf
  <2>4. CASE call[t].pc = "lowered" /\ pc = "note"
    <3>1. freq[v] = opp
      BY <1>1, <2>1, <2>4 DEF Changing, Changes
    <3>2. Changes(t, v)'
      BY <1>4, <2>2, <2>4, <3>1 DEF Changes
    <3> QED BY <1>4, <3>2 DEF SupplyOf
  <2> QED BY <1>2, <2>3, <2>4
<1>7. /\ oppVdd' \in [Vdd -> Nat \ {0}] /\ volt' \in [Vdd -> Nat] /\ initVdd' \in [Vdd -> Nat]
      /\ freq' \in [Vdd -> Nat]
      /\ \A w \in Vdd \ {v} : /\ oppVdd'[w] = oppVdd[w] /\ volt'[w] = volt[w]
                              /\ initVdd'[w] = initVdd[w] /\ freq'[w] = freq[w]
  BY <1>3, <1>5 DEF VoltageTypeOK
<1>8. call[t].pc \in Changing \cup {"change"} /\ pc # "flag" /\ call' \in [Caller -> CallType]
  BY <1>2, <1>4 DEF Changing, SameWork
<1> QED BY <1>0, <1>3, <1>4, <1>6, <1>7, <1>8, ChangeFrame

LEMMA ChangeFrequencyStep ==
    ASSUME OneCaller, IInv, NEW t \in Caller, ChangeFrequency(t), Running
    PROVE  IInv'
<1>0. PICK v \in Vdd : v = Vd(t)
  BY Known, Constants DEF ChangeFrequency, CallOK
<1>1. PICK opp \in Nat \ {0} : opp = Head(call[t].todo).opp
  BY Known, Working DEF ChangeFrequency, CallOK
<1>2. PICK pc \in Changing :
        /\ Goto(t, pc)
        /\ \/ call[t].pc = "change" /\ pc = "lowered" /\ ~ (opp > oppVdd[v])
           \/ call[t].pc = "raised" /\ pc = "note"
  BY <1>0, <1>1 DEF ChangeFrequency, Raising, Changing
<1>3. /\ call[t].op = "opp" /\ freq' = [freq EXCEPT ![v] = opp]
      /\ UNCHANGED <<cpu, clocks, autoControl, oppVdd, volt, initVdd, vp, sensor, bEnabled, srLock,
                     resumeSR, control>>
  BY <1>0, <1>1 DEF ChangeFrequency, latencyVars, sleepVars, deviceVars, monitorVars
<1>4. /\ SameWork(t) /\ call'[t].pc = pc /\ CallOK(t)' /\ ControlOf(t)'
      /\ Vd(t)' = v /\ Head(call'[t].todo).opp = opp
  BY <1>0, <1>1, <1>2, <1>3, ChangeGoesOn DEF Changing
<1>5. VoltageTypeOK
  BY DEF IInv
<1>6. SupplyOf(t, v)'
  <2>1. IF call[t].pc \in Changing THEN Changes(t, v) ELSE Steady(v)
    BY <1>0 DEF IInv, SupplyOK, SupplyOf
  <2>2. volt'[v] = volt[v] /\ initVdd'[v] = initVdd[v] /\ freq'[v] = opp /\ oppVdd'[v] = oppVdd[v]
        /\ opp \in Nat /\ oppVdd[v] \in Nat
    BY <1>3, <1>5 DEF VoltageTypeOK
  <2>3. CASE call[t].pc = "change" /\ pc = "lowered" /\ ~ (opp > oppVdd[v])
    <3>1. volt[v] \in {RETENTION, oppVdd[v]} /\ initVdd[v] \in {RETENTION, oppVdd[v]}
      BY <2>1, <2>3 DEF Changing, Steady
    <3>2. opp <= oppVdd[v]
      BY <2>2, <2>3
    <3>3. Changes(t, v)'
      BY <1>4, <2>2, <2>3, <3>1, <3>2 DEF Changes
    <3> QED BY <1>4, <3>3 DEF SupplyOf
  <2>4. CASE call[t].pc = "raised" /\ pc = "note"
    <3>1. volt[v] = opp /\ initVdd[v] = opp
      BY <1>1, <2>1, <2>4 DEF Changing, Changes
    <3>2. Changes(t, v)'
      BY <1>4, <2>2, <2>4, <3>1 DEF Changes
    <3> QED BY <1>4, <3>2 DEF SupplyOf
  <2> QED BY <1>2, <2>3, <2>4
<1>7. /\ oppVdd' \in [Vdd -> Nat \ {0}] /\ volt' \in [Vdd -> Nat] /\ initVdd' \in [Vdd -> Nat]
      /\ freq' \in [Vdd -> Nat]
      /\ \A w \in Vdd \ {v} : /\ oppVdd'[w] = oppVdd[w] /\ volt'[w] = volt[w]
                              /\ initVdd'[w] = initVdd[w] /\ freq'[w] = freq[w]
  BY <1>3, <1>5 DEF VoltageTypeOK
<1>8. call[t].pc \in Changing \cup {"change"} /\ pc # "flag" /\ call' \in [Caller -> CallType]
  BY <1>2, <1>4 DEF Changing, SameWork
<1> QED BY <1>0, <1>3, <1>4, <1>6, <1>7, <1>8, ChangeFrame

(* What is known of a caller that ends a change, and restores the monitor. *)
LEMMA ChangeEnds ==
    ASSUME IInv, NEW t \in Caller,
           call[t].pc \in {"note", "change"}, call[t].op \in {"opp", "retention"},
           IF call[t].restore THEN Monitor(t, TRUE, "drop") ELSE Goto(t, "drop"),
           UNCHANGED <<cpu, bEnabled, resumeSR, control>>
    PROVE  /\ SameWork(t) /\ call'[t].pc \in {"test", "drop"} /\ CallOK(t)' /\ ControlOf(t)'
           /\ Vd(t)' = Vd(t)
<1>1. CallOK(t) /\ ControlOf(t) /\ VoltageTypeOK /\ call[t].todo # <<>> /\ Vd(t) \in Channel
  BY Known DEF CallOK
<1>2. /\ (Wanted' <=> Wanted) /\ \A c \in Channel : (Kept(c)' <=> Kept(c))
  BY DEF Kept, Wanted
<1>3. /\ ~ Kept(Vd(t)) /\ (call[t].restore <=> Wanted)
      /\ \A c \in Channel : c # Vd(t) => (Kept(c) <=> Wanted)
  BY <1>1 DEF CallOK, ControlOf, Changing
<1>4. CASE call[t].restore
  <2>1. /\ SameWork(t) /\ call'[t].pc = "test" /\ call'[t].restore = call[t].restore
        /\ call'[t].on = TRUE /\ call'[t].back = "drop"
    BY <1>1, <1>4, MonitorFields
  <2>2. Vd(t)' = Vd(t)
    BY <2>1, SameDomain
  <2>3. CallOK(t)'
    BY <1>1, <1>4, <2>1 DEF CallOK, Changing, Switching, SameWork, Idle
  <2>4. ControlOf(t)'
    BY <1>1, <1>2, <1>3, <1>4, <2>1, <2>2 DEF ControlOf, Changing, Switching, SameWork
  <2> QED BY <2>1, <2>2, <2>3, <2>4
<1>5. CASE ~ call[t].restore
  <2>1. SameWork(t) /\ call'[t].pc = "drop" /\ call'[t].restore = call[t].restore
    BY <1>1, <1>5, GotoFields DEF Pc
  <2>2. Vd(t)' = Vd(t)
    BY <2>1, SameDomain
  <2>3. CallOK(t)'
    BY <1>1, <1>5, <2>1 DEF CallOK, Changing, Switching, SameWork, Idle
  <2>4. \A c \in Channel : Kept(c)' <=> Wanted
    BY <1>2, <1>3, <1>5
  <2>5. ControlOf(t)'
    BY <1>1, <1>2, <1>5, <2>1, <2>2, <2>4 DEF ControlOf, Changing, Switching, SameWork
  <2> QED BY <2>1, <2>2, <2>3, <2>5
<1> QED BY <1>4, <1>5

LEMMA NoteOppStep ==
    ASSUME OneCaller, IInv, NEW t \in Caller, NoteOpp(t)
    PROVE  IInv'
<1>0. PICK v \in Vdd : v = Vd(t)
  BY Known, Constants DEF NoteOpp, CallOK
<1>1. PICK opp \in Nat \ {0} : opp = Head(call[t].todo).opp
  BY Known, Working DEF NoteOpp, CallOK
<1>2. /\ call[t].pc = "note" /\ call[t].op = "opp" /\ oppVdd' = [oppVdd EXCEPT ![v] = opp]
      /\ IF call[t].restore THEN Monitor(t, TRUE, "drop") ELSE Goto(t, "drop")
      /\ UNCHANGED <<cpu, clocks, autoControl, volt, initVdd, freq, vp, sensor, bEnabled, srLock,
                     resumeSR, control>>
  BY <1>0, <1>1, Known
  DEF NoteOpp, CallOK, Changing, latencyVars, sleepVars, deviceVars, monitorVars, supplyVars
<1>3. /\ SameWork(t) /\ call'[t].pc \in {"test", "drop"} /\ CallOK(t)' /\ ControlOf(t)'
      /\ Vd(t)' = v
  BY <1>0, <1>2, ChangeEnds
<1>4. VoltageTypeOK
  BY DEF IInv
<1>5. SupplyOf(t, v)'
  <2>1. Changes(t, v)
    BY <1>0, <1>2 DEF IInv, SupplyOK, SupplyOf, Changing
  <2>2. volt[v] = opp /\ initVdd[v] = opp /\ freq[v] = opp
    BY <1>1, <1>2, <2>1 DEF Changes
  <2>3. oppVdd'[v] = opp
    BY <1>2, <1>4 DEF VoltageTypeOK
  <2>4. Steady(v)'
    BY <1>2, <2>2, <2>3 DEF Steady
  <2> QED BY <1>3, <2>4 DEF SupplyOf, Changing
<1>6. /\ oppVdd' \in [Vdd -> Nat \ {0}] /\ volt' \in [Vdd -> Nat] /\ initVdd' \in [Vdd -> Nat]
      /\ freq' \in [Vdd -> Nat]
      /\ \A w \in Vdd \ {v} : /\ oppVdd'[w] = oppVdd[w] /\ volt'[w] = volt[w]
                              /\ initVdd'[w] = initVdd[w] /\ freq'[w] = freq[w]
  BY <1>2, <1>4 DEF VoltageTypeOK
<1>7. /\ call[t].pc \in Changing \cup {"change"} /\ call'[t].pc # "flag"
      /\ call' \in [Caller -> CallType]
  BY <1>2, <1>3 DEF Changing, SameWork
<1> QED BY <1>0, <1>2, <1>3, <1>5, <1>6, <1>7, ChangeFrame

LEMMA ChangeRetentionStep ==
    ASSUME OneCaller, IInv, NEW t \in Caller, ChangeRetention(t)
    PROVE  IInv'
<1>0. PICK v \in Vdd : v = Vd(t)
  BY Known, Constants DEF ChangeRetention, CallOK
<1>2. /\ call[t].pc = "change" /\ call[t].op = "retention"
      /\ volt' = [volt EXCEPT ![v] = RETENTION] /\ initVdd' = [initVdd EXCEPT ![v] = RETENTION]
      /\ vp' = [vp EXCEPT ![v] = FALSE]
      /\ IF call[t].restore THEN Monitor(t, TRUE, "drop") ELSE Goto(t, "drop")
      /\ UNCHANGED <<cpu, clocks, autoControl, oppVdd, freq, sensor, bEnabled, srLock,
                     resumeSR, control>>
  BY <1>0 DEF ChangeRetention, SetVoltage, latencyVars, sleepVars, deviceVars
<1>3. /\ SameWork(t) /\ call'[t].pc \in {"test", "drop"} /\ CallOK(t)' /\ ControlOf(t)'
      /\ Vd(t)' = v
  BY <1>0, <1>2, ChangeEnds
<1>4. VoltageTypeOK /\ RETENTION \in Nat
  BY DEF IInv, RETENTION
<1>5. SupplyOf(t, v)'
  <2>1. Steady(v)
    BY <1>2 DEF IInv, SupplyOK, SupplyOf, Changing
  <2>2. volt'[v] = RETENTION /\ initVdd'[v] = RETENTION
    BY <1>2, <1>4 DEF VoltageTypeOK
  <2>3. Steady(v)'
    BY <1>2, <2>1, <2>2 DEF Steady
  <2> QED BY <1>3, <2>3 DEF SupplyOf, Changing
<1>6. /\ oppVdd' \in [Vdd -> Nat \ {0}] /\ volt' \in [Vdd -> Nat] /\ initVdd' \in [Vdd -> Nat]
      /\ freq' \in [Vdd -> Nat]
      /\ \A w \in Vdd \ {v} : /\ oppVdd'[w] = oppVdd[w] /\ volt'[w] = volt[w]
                              /\ initVdd'[w] = initVdd[w] /\ freq'[w] = freq[w]
  BY <1>2, <1>4 DEF VoltageTypeOK
<1>7. /\ call[t].pc \in Changing \cup {"change"} /\ call'[t].pc # "flag"
      /\ call' \in [Caller -> CallType]
  BY <1>2, <1>3 DEF Changing, SameWork
<1> QED BY <1>0, <1>2, <1>3, <1>5, <1>6, <1>7, ChangeFrame

-----------------------------------------------------------------------------
(***************************************************************************)
(* Suspend and resume.  Neither disturbs a change: the channel of its      *)
(* domain did not monitor.                                                 *)
(***************************************************************************)
LEMMA SuspendFrame ==
    ASSUME IInv, NEW cs \in SUBSET Channel, \A c \in cs : Kept(c),
           UNCHANGED <<oppVdd, initVdd, freq, call>>,
           volt' \in [Vdd -> Nat],
           \A w \in Vdd : volt'[w] = volt[w] \/ (w \in cs /\ volt'[w] \in {RETENTION, oppVdd[w]})
    PROVE  SupplyOK'
<1>1. ASSUME NEW t \in Caller, NEW v \in Vdd PROVE SupplyOf(t, v)'
  <2>1. Vd(t)' = Vd(t) /\ SupplyOf(t, v)
    BY DEF Vd, IInv, SupplyOK
  <2>2. CASE call[t].pc \in Changing /\ Vd(t) = v
    <3>1. Changes(t, v) /\ v \notin cs
      BY <2>1, <2>2, Known DEF SupplyOf, CallOK
    <3>2. volt'[v] = volt[v]
      BY <3>1
    <3>3. Changes(t, v)'
      BY <3>1, <3>2 DEF Changes
    <3> QED BY <2>1, <2>2, <3>3 DEF SupplyOf
  <2>3. CASE ~ (call[t].pc \in Changing /\ Vd(t) = v)
    <3>1. Steady(v)
      BY <2>1, <2>3 DEF SupplyOf
    <3>2. Steady(v)'
      BY <3>1 DEF Steady
    <3> QED BY <2>1, <2>3, <3>2 DEF SupplyOf
  <2> QED BY <2>2, <2>3
<1> QED BY <1>1 DEF SupplyOK

LEMMA BSPPowerOffStep ==
    ASSUME OneCaller, IInv, BSPPowerOff
    PROVE  IInv'
<1>1. /\ cpu = "running" /\ cpu' = "off" /\ ~ InMonitor
      /\ resumeSR' = [c \in Channel |-> bEnabled[c]]
      /\ bEnabled' = [c \in Channel |-> bEnabled[c] /\ c \notin Suspending]
      /\ vp' = [c \in Channel |-> c \notin Suspending /\ vp[c]]
      /\ sensor' = [c \in Channel |-> IF c \in Suspending THEN 0 ELSE sensor[c]]
      /\ volt' = [c \in Vdd |-> IF c \in Suspending THEN initVdd[c] ELSE volt[c]]
      /\ clocks' = [d \in Device |-> IF d \in Suspending THEN Less(clocks[d], 1) ELSE clocks[d]]
      /\ UNCHANGED <<autoControl, oppVdd, initVdd, freq, srLock, call, control>>
  BY DEF OneCaller, BSPPowerOff, StopMonitor, DisableClocks, Running, IsSmartReflexMonitoringEnabled
<1>2. VoltageTypeOK /\ Channel \subseteq Device /\ Channel = Vdd
  BY Constants DEF IInv
<1>3. \A c \in Channel : srLock[c] = NoCaller
  BY <1>1 DEF InMonitor
<1>4. \A c \in Channel : (c \in Suspending <=> bEnabled[c]) /\ (Kept(c) <=> bEnabled[c]) /\ (Lit(c) <=> bEnabled[c])
  BY <1>1, <1>3 DEF IInv, RestOK, Suspending, IsSmartReflexMonitoringEnabled, Kept, Lit
<1>5. /\ bEnabled' \in [Channel -> BOOLEAN] /\ resumeSR' \in [Channel -> BOOLEAN]
      /\ vp' \in [Channel -> BOOLEAN]
  <2>1. bEnabled \in [Channel -> BOOLEAN]
    BY <1>2 DEF VoltageTypeOK
  <2>2. resumeSR' \in [Channel -> BOOLEAN]
    BY <1>1, <2>1
  <2>3. bEnabled' \in [Channel -> BOOLEAN] /\ vp' \in [Channel -> BOOLEAN]
    BY <1>1, Zenon
  <2> QED BY <2>2, <2>3
<1>6. \A c \in Channel : ~ bEnabled'[c] /\ (resumeSR'[c] <=> bEnabled[c]) /\ ~ vp'[c] /\ sensor'[c] = 0
  BY <1>1, <1>4 DEF IInv, HardwareOK
<1>7. \A c \in Channel : (Kept(c)' <=> Kept(c)) /\ ~ Lit(c)'
  BY <1>1, <1>3, <1>4, <1>6 DEF Kept, Lit
<1>8. sensor' \in [Channel -> Nat] /\ volt' \in [Vdd -> Nat]
  BY <1>1, <1>2 DEF VoltageTypeOK
<1>9. clocks' \in [Device -> Nat] /\ \A c \in Channel : clocks'[c] = 0
  <2>1. Less(1, 1) = 0 /\ \A n \in Nat : Less(n, 1) \in Nat
    BY DEF Less
  <2>2. \A c \in Channel : clocks[c] = IF bEnabled[c] THEN 1 ELSE 0
    BY <1>4 DEF IInv, HardwareOK
  <2>3. clocks \in [Device -> Nat]
    BY <1>2 DEF VoltageTypeOK
  <2> QED BY <1>1, <1>2, <1>4, <2>1, <2>2, <2>3
<1>10. VoltageTypeOK'
  BY <1>1, <1>2, <1>5, <1>8, <1>9 DEF VoltageTypeOK
<1>11. CallsOK' /\ ControlOK'
  BY <1>1, <1>7, RecordFrame
<1>12. LocksOK'
  BY <1>1 DEF IInv, LocksOK, Vd
<1>13. HardwareOK'
  BY <1>6, <1>7, <1>9 DEF HardwareOK
<1>14. RestOK'
  BY <1>1, <1>3, <1>6, <1>7 DEF IInv, RestOK
<1>15. SupplyOK'
  <2>1. \A v \in Vdd : Kept(v) => Steady(v)
    BY Known, <1>2 DEF IInv, SupplyOK, SupplyOf, CallOK, OneCaller
  <2>2. \A v \in Suspending : v \in Vdd /\ Kept(v) /\ volt'[v] \in {RETENTION, oppVdd[v]}
    BY <1>1, <1>2, <1>4, <2>1 DEF Suspending, Steady
  <2>3. \A v \in Vdd : v \notin Suspending => volt'[v] = volt[v]
    BY <1>1
  <2>4. Suspending \in SUBSET Channel
    BY DEF Suspending
  <2> HIDE DEF Suspending
  <2> QED BY <1>1, <1>8, <2>2, <2>3, <2>4, SuspendFrame
<1>16. MonitorMatchesOpp' /\ NoAutoUnderMonitor'
  BY <1>6 DEF MonitorMatchesOpp, NoAutoUnderMonitor
<1> QED BY <1>10, <1>11, <1>12, <1>13, <1>14, <1>15, <1>16 DEF IInv

LEMMA BSPPowerOnStep ==
    ASSUME IInv, BSPPowerOn
    PROVE  IInv'
<1>1. /\ cpu = "suspended" /\ cpu' = "running"
      /\ bEnabled' = [c \in Channel |-> bEnabled[c] \/ c \in Resuming]
      /\ vp' = [c \in Channel |-> c \in Resuming \/ vp[c]]
      /\ sensor' = [c \in Channel |-> IF c \in Resuming THEN oppVdd[c] ELSE sensor[c]]
      /\ volt' = [c \in Vdd |-> IF c \in Resuming THEN oppVdd[c] ELSE volt[c]]
      /\ autoControl' = IF Resuming = {} THEN autoControl ELSE "off"
      /\ clocks' = [d \in Device |-> IF d \in Resuming THEN clocks[d] + 1 ELSE clocks[d]]
      /\ UNCHANGED <<oppVdd, initVdd, freq, srLock, resumeSR, call, control>>
  BY DEF BSPPowerOn, StartMonitor, EnableClocks
<1>2. VoltageTypeOK /\ Channel \subseteq Device /\ Channel = Vdd
  BY Constants DEF IInv
<1>3. \A c \in Channel : srLock[c] = NoCaller /\ ~ bEnabled[c] /\ ~ Lit(c)
  BY <1>1 DEF IInv, RestOK, Lit
<1>4. \A c \in Channel : sensor[c] = 0 /\ ~ vp[c] /\ clocks[c] = 0
  BY <1>3 DEF IInv, HardwareOK
<1>5. \A c \in Channel : c \in Resuming <=> Kept(c)
  BY <1>1, <1>3 DEF IInv, RestOK, Resuming, Kept
<1>6. bEnabled' \in [Channel -> BOOLEAN] /\ vp' \in [Channel -> BOOLEAN]
  BY <1>1, Zenon
<1>7. \A c \in Channel : (bEnabled'[c] <=> Kept(c)) /\ (vp'[c] <=> Kept(c))
  BY <1>1, <1>3, <1>4, <1>5
<1>8. \A c \in Channel : (Kept(c)' <=> Kept(c)) /\ (Lit(c)' <=> Kept(c))
  BY <1>1, <1>3, <1>7 DEF Kept, Lit
<1>9. /\ sensor' \in [Channel -> Nat] /\ volt' \in [Vdd -> Nat] /\ clocks' \in [Device -> Nat]
      /\ \A c \in Channel : /\ sensor'[c] = IF Kept(c) THEN oppVdd[c] ELSE 0
                            /\ clocks'[c] = IF Kept(c) THEN 1 ELSE 0
                            /\ oppVdd[c] \in Nat \ {0}
  BY <1>1, <1>2, <1>4, <1>5 DEF VoltageTypeOK
<1>10. VoltageTypeOK'
  BY <1>1, <1>2, <1>6, <1>9 DEF VoltageTypeOK
<1>11. CallsOK' /\ ControlOK'
  BY <1>1, <1>8, RecordFrame
<1>12. LocksOK'
  BY <1>1 DEF IInv, LocksOK, Vd
<1>13. HardwareOK'
  BY <1>7, <1>8, <1>9 DEF HardwareOK
<1>14. RestOK'
  BY <1>1, <1>7, <1>8 DEF IInv, RestOK
<1>15. SupplyOK'
  <2>1. \A v \in Vdd : volt'[v] = volt[v] \/ (v \in Resuming /\ volt'[v] \in {RETENTION, oppVdd[v]})
    BY <1>1
  <2>2. Resuming \in SUBSET Channel /\ \A c \in Resuming : Kept(c)
    BY <1>5 DEF Resuming
  <2> HIDE DEF Resuming
  <2> QED BY <1>1, <1>9, <2>1, <2>2, SuspendFrame
<1>16. MonitorMatchesOpp' /\ NoAutoUnderMonitor'
  <2>1. MonitorMatchesOpp'
    BY <1>1, <1>9 DEF MonitorMatchesOpp
  <2>2. \A c \in Channel : sensor'[c] # 0 => Resuming # {}
    BY <1>5, <1>9
  <2> QED BY <1>1, <2>1, <2>2 DEF NoAutoUnderMonitor
<1> QED BY <1>10, <1>11, <1>12, <1>13, <1>14, <1>15, <1>16 DEF IInv

-----------------------------------------------------------------------------
(***************************************************************************)
(* Every step.                                                             *)
(***************************************************************************)
LEMMA StepInvariant == OneCaller /\ IInv /\ [Next]_vars => IInv'
<1> SUFFICES ASSUME OneCaller, IInv, [Next]_vars PROVE IInv'
  OBVIOUS
<1>1. CASE UNCHANGED vars
  <2>1. UNCHANGED <<voltageVars, clocks, cpu, autoControl>>
    BY <1>1 DEF vars, latencyVars, deviceVars, sleepVars
  <2>2. clocks \in [Device -> Nat] /\ cpu \in {"running", "idle", "off", "suspended"}
    BY DEF IInv, VoltageTypeOK
  <2>3. NoAutoUnderMonitor'
    BY <2>1 DEF IInv, NoAutoUnderMonitor, voltageVars, monitorVars
  <2>4. cpu' # "running" => \A c \in Channel : srLock[c] = NoCaller
    BY <2>1 DEF IInv, RestOK
  <2> QED BY <2>1, <2>2, <2>3, <2>4, PowerFrame
<1>2. ASSUME NEW t \in Caller, Ioctl(t) PROVE IInv'
  BY <1>2, OppRequestStep, ControlRequestStep, UpdateRetentionStep DEF Ioctl
<1>3. ASSUME NEW t \in Caller, Step(t) PROVE IInv'
  BY <1>3, NextDomainStep, DropStep, ReturnCallStep, TestMonitorStep, SwitchMonitorStep,
     FlagMonitorStep, ChangeVoltageStep, ChangeFrequencyStep, NoteOppStep, ChangeRetentionStep
  DEF Step
<1>4. ASSUME NEW d \in CoreDevices \cup OtherDevices, SwitchDevice(d) PROVE IInv'
  BY <1>4, SwitchDeviceStep
<1>5. CASE Settings
  BY <1>5, SettingsStep
<1>6. CASE Power
  BY <1>6, OEMIdleStep, WakeFromIdleStep, BSPPowerOffStep, OEMPowerOffStep, BSPPowerOnStep DEF Power
<1> QED BY <1>1, <1>2, <1>3, <1>4, <1>5, <1>6 DEF Next

(***************************************************************************)
(* The invariant holds of every behaviour.                                 *)
(***************************************************************************)
THEOREM InductiveInvariant == OneCaller => (Spec => []IInv)
<1> SUFFICES ASSUME OneCaller PROVE Spec => []IInv
  OBVIOUS
<1>1. Init => IInv
  BY InitInvariant
<1>2. IInv /\ [Next]_vars => IInv'
  BY StepInvariant
<1> QED BY <1>1, <1>2, PTL DEF Spec

(***************************************************************************)
(* No domain ever runs faster than its supply allows, through any changes  *)
(* of the operating point, of SmartReflex and of the system's power.       *)
(***************************************************************************)
THEOREM SupplySuffices == OneCaller => (Spec => []VoltageSuffices)
<1> SUFFICES ASSUME OneCaller PROVE Spec => []VoltageSuffices
  OBVIOUS
<1>1. IInv => VoltageSuffices
  <2> SUFFICES ASSUME IInv, NEW v \in Vdd, volt[v] # RETENTION PROVE freq[v] <= volt[v]
    BY DEF VoltageSuffices
  <2>1. PICK t \in Caller : TRUE
    BY DEF OneCaller
  <2>2. /\ SupplyOf(t, v) /\ VoltageTypeOK /\ CallOK(t)
        /\ oppVdd[v] \in Nat /\ volt[v] \in Nat /\ freq[v] \in Nat
    BY Known DEF IInv, SupplyOK, VoltageTypeOK
  <2>3. CASE call[t].pc \in Changing /\ Vd(t) = v
    <3>1. Changes(t, v)
      BY <2>2, <2>3 DEF SupplyOf
    <3>2. PICK opp \in Nat : opp = Head(call[t].todo).opp
      BY <2>2, <2>3, Working DEF CallOK, Changing
    <3> QED BY <2>2, <3>1, <3>2 DEF Changes
  <2>4. CASE ~ (call[t].pc \in Changing /\ Vd(t) = v)
    BY <2>2, <2>4 DEF SupplyOf, Steady
  <2> QED BY <2>3, <2>4
<1> QED BY <1>1, InductiveInvariant, PTL

(***************************************************************************)
(* A channel that monitors always refers to the operating point its domain *)
(* is at.                                                                  *)
(***************************************************************************)
THEOREM MonitorAtOpp == OneCaller => (Spec => []MonitorMatchesOpp)
<1> SUFFICES ASSUME OneCaller PROVE Spec => []MonitorMatchesOpp
  OBVIOUS
<1>1. IInv => MonitorMatchesOpp
  BY DEF IInv
<1> QED BY <1>1, InductiveInvariant, PTL

(***************************************************************************)
(* Outside of SmartReflex_EnableMonitor the flag of a channel agrees with  *)
(* its sensor, its voltage processor and its clocks.                       *)
(***************************************************************************)
THEOREM FlagIsTrue == OneCaller => (Spec => []FlagTellsHardware)
<1> SUFFICES ASSUME OneCaller PROVE Spec => []FlagTellsHardware
  OBVIOUS
<1>1. IInv => FlagTellsHardware
  BY DEF IInv, HardwareOK, Lit, FlagTellsHardware
<1> QED BY <1>1, InductiveInvariant, PTL

(***************************************************************************)
(* When nobody is in an ioctl, the monitors are as the last control        *)
(* request wanted them, whatever changes and suspensions came after it.    *)
(***************************************************************************)
THEOREM ControlIsKept == OneCaller => (Spec => []ControlKept)
<1> SUFFICES ASSUME OneCaller PROVE Spec => []ControlKept
  OBVIOUS
<1>1. IInv => ControlKept
  <2> SUFFICES ASSUME IInv, cpu = "running", \A t \in Caller : call[t] = Idle, NEW c \in Channel
               PROVE  bEnabled[c] = (control /\ Capable)
    BY DEF ControlKept
  <2>1. PICK t \in Caller : TRUE
    BY DEF OneCaller
  <2>2. ControlOf(t) /\ call[t].op = "none"
    BY Known, IdleFields
  <2>3. bEnabled[c] <=> (control /\ Capable)
    BY <2>2 DEF ControlOf, Kept, Wanted
  <2>4. bEnabled[c] \in BOOLEAN
    BY DEF IInv, VoltageTypeOK
  <2> QED BY <2>3, <2>4, Zenon
<1> QED BY <1>1, InductiveInvariant, PTL

(***************************************************************************)
(* While a channel adapts the voltage, the voltage controller does not     *)
(* lower it by itself.                                                     *)
(***************************************************************************)
THEOREM NoAutoControl == OneCaller => (Spec => []NoAutoUnderMonitor)
<1> SUFFICES ASSUME OneCaller PROVE Spec => []NoAutoUnderMonitor
  OBVIOUS
<1>1. IInv => NoAutoUnderMonitor
  BY DEF IInv
<1> QED BY <1>1, InductiveInvariant, PTL

(***************************************************************************)
(* Suspended, also in the middle of a change, no channel monitors.         *)
(***************************************************************************)
THEOREM QuietWhenSuspended == OneCaller => (Spec => []SuspendedQuietly)
<1> SUFFICES ASSUME OneCaller PROVE Spec => []SuspendedQuietly
  OBVIOUS
<1>1. IInv => SuspendedQuietly
  <2> SUFFICES ASSUME IInv, cpu = "suspended", NEW c \in Channel PROVE sensor[c] = 0
    BY DEF SuspendedQuietly
  <2>1. srLock[c] = NoCaller /\ ~ bEnabled[c]
    BY DEF IInv, RestOK
  <2> QED BY <2>1 DEF IInv, HardwareOK, Lit
<1> QED BY <1>1, InductiveInvariant, PTL

-----------------------------------------------------------------------------
(***************************************************************************)
(* The choice of a sleep: counters, notes and registers, for any number of *)
(* callers.                                                                *)
(***************************************************************************)
LEMMA CardinalityAdd ==
    ASSUME NEW S, NEW T, IsFiniteSet(S), IsFiniteSet(T), S \cap T = {}
    PROVE  Cardinality(S \cup T) = Cardinality(S) + Cardinality(T)
<1>1. Cardinality(S \cap T) = 0
  BY FS_EmptySet
<1>2. Cardinality(S) \in Nat /\ Cardinality(T) \in Nat
  BY FS_CardinalityType
<1>3. Cardinality(S \cup T) = Cardinality(S) + Cardinality(T) - Cardinality(S \cap T)
  BY FS_Union, Zenon
<1> QED BY <1>1, <1>2, <1>3

LEMMA DeviceSets ==
    /\ IsFiniteSet(CoreDevices \cup Channel) /\ IsFiniteSet(OtherDevices)
    /\ Device = (CoreDevices \cup Channel) \cup OtherDevices
    /\ (CoreDevices \cup Channel) \cap OtherDevices = {}
<1>1. /\ Device = (CoreDevices \cup Channel) \cup OtherDevices
      /\ (CoreDevices \cup Channel) \cap OtherDevices = {}
  BY DeviceAssumption DEF Device
<1>2. IsFiniteSet(Device)
  BY DeviceAssumption
<1> QED BY <1>1, <1>2, FS_Subset

(* The devices of X that have their clocks, when those of ds get or lose them. *)
LEMMA ClockedMore ==
    ASSUME NEW X \in SUBSET Device, IsFiniteSet(X), clocks \in [Device -> Nat],
           NEW ds \in SUBSET Device, EnableClocks(ds)
    PROVE  Cardinality(Clocked(X)') =
              Cardinality(Clocked(X)) + Cardinality({d \in ds : clocks[d] = 0} \cap X)
<1> DEFINE new == {d \in ds : clocks[d] = 0} \cap X
<1>1. Clocked(X)' = Clocked(X) \cup new
  BY DEF Clocked, EnableClocks
<1>2. Clocked(X) \cap new = {} /\ Clocked(X) \subseteq X /\ new \subseteq X
  BY DEF Clocked
<1>3. IsFiniteSet(Clocked(X)) /\ IsFiniteSet(new)
  BY <1>2, FS_Subset
<1> QED BY <1>1, <1>2, <1>3, CardinalityAdd

LEMMA ClockedLess ==
    ASSUME NEW X \in SUBSET Device, IsFiniteSet(X), clocks \in [Device -> Nat],
           NEW ds \in SUBSET Device, DisableClocks(ds)
    PROVE  Cardinality(Clocked(X)') =
              Less(Cardinality(Clocked(X)), Cardinality({d \in ds : clocks[d] = 1} \cap X))
<1> DEFINE old == {d \in ds : clocks[d] = 1} \cap X
           rest == Clocked(X) \ old
<1>1. Clocked(X)' = rest
  BY DEF Clocked, DisableClocks, Less
<1>2. Clocked(X) = rest \cup old /\ rest \cap old = {} /\ Clocked(X) \subseteq X
  BY DEF Clocked
<1>3. IsFiniteSet(rest) /\ IsFiniteSet(old)
  BY <1>2, FS_Subset
<1>4. Cardinality(rest) \in Nat /\ Cardinality(old) \in Nat
  BY <1>3, FS_CardinalityType
<1>5. Cardinality(Clocked(X)) = Cardinality(rest) + Cardinality(old)
  BY <1>2, <1>3, CardinalityAdd
<1> QED BY <1>1, <1>4, <1>5 DEF Less

LEMMA ClocksCounted ==
    ASSUME SleepTypeOK, DevicesCounted, NEW ds \in SUBSET Device,
           EnableClocks(ds) \/ DisableClocks(ds)
    PROVE  /\ DevicesCounted' /\ coreDevice' \in Nat /\ otherDevice' \in Nat
           /\ clocks' \in [Device -> Nat]
<1> DEFINE Core == CoreDevices \cup Channel
<1>1. /\ Core \subseteq Device /\ OtherDevices \subseteq Device
      /\ IsFiniteSet(Core) /\ IsFiniteSet(OtherDevices)
      /\ \A D \in SUBSET Device : D \ OtherDevices = D \cap Core
  BY DeviceSets
<1>2. clocks \in [Device -> Nat] /\ coreDevice \in Nat /\ otherDevice \in Nat
  BY DEF SleepTypeOK
<1>3. /\ coreDevice = Cardinality(Clocked(Core)) /\ otherDevice = Cardinality(Clocked(OtherDevices))
  BY DEF DevicesCounted
<1> HIDE DEF Core
<1>4. CASE EnableClocks(ds)
  <2> DEFINE new == {d \in ds : clocks[d] = 0}
  <2>1. /\ coreDevice' = coreDevice + Cardinality(new \cap Core)
        /\ otherDevice' = otherDevice + Cardinality(new \cap OtherDevices)
    BY <1>1, <1>4 DEF EnableClocks, DeviceEnabled
  <2>2. Cardinality(new \cap Core) \in Nat /\ Cardinality(new \cap OtherDevices) \in Nat
    BY <1>1, FS_Intersection, FS_CardinalityType
  <2>3. coreDevice' = Cardinality(Clocked(Core)') /\ otherDevice' = Cardinality(Clocked(OtherDevices)')
    BY <1>1, <1>2, <1>3, <1>4, <2>1, ClockedMore
  <2>4. clocks' \in [Device -> Nat]
    BY <1>2, <1>4 DEF EnableClocks
  <2> QED BY <1>2, <2>1, <2>2, <2>3, <2>4 DEF DevicesCounted, Core
<1>5. CASE DisableClocks(ds)
  <2> DEFINE old == {d \in ds : clocks[d] = 1}
  <2>1. /\ coreDevice' = Less(coreDevice, Cardinality(old \cap Core))
        /\ otherDevice' = Less(otherDevice, Cardinality(old \cap OtherDevices))
    BY <1>1, <1>5 DEF DisableClocks, DeviceEnabled
  <2>2. Cardinality(old \cap Core) \in Nat /\ Cardinality(old \cap OtherDevices) \in Nat
    BY <1>1, FS_Intersection, FS_CardinalityType
  <2>3. coreDevice' = Cardinality(Clocked(Core)') /\ otherDevice' = Cardinality(Clocked(OtherDevices)')
    BY <1>1, <1>2, <1>3, <1>5, <2>1, ClockedLess
  <2>4. clocks' \in [Device -> Nat]
    BY <1>2, <1>5 DEF DisableClocks, Less
  <2> QED BY <1>2, <2>1, <2>2, <2>3, <2>4 DEF DevicesCounted, Core, Less
<1> QED BY <1>4, <1>5

(* A device that has its clocks is counted. *)
LEMMA UsedCounted ==
    ASSUME SleepTypeOK, DevicesCounted
    PROVE  /\ Used(CoreDevices \cup Channel) => coreDevice # 0
           /\ Used(OtherDevices) => otherDevice # 0
<1>1. ASSUME NEW X, IsFiniteSet(X), Used(X) PROVE Cardinality(Clocked(X)) # 0
  <2>1. Clocked(X) \subseteq X /\ Clocked(X) # {}
    BY <1>1 DEF Clocked, Used
  <2> QED BY <1>1, <2>1, FS_Subset, FS_EmptySet
<1> QED BY <1>1, DeviceSets DEF DevicesCounted

-----------------------------------------------------------------------------
(* The state that the devices and domains allow. *)
LEMMA CurrentState ==
    ASSUME SleepTypeOK
    PROVE  /\ GetCurrentState \in LatencyState
           /\ coreDevice # 0 => GetCurrentState >= CORE_INACTIVE
           /\ otherDevice # 0 \/ inactiveMask # {} => GetCurrentState >= CORE_CSWR
           /\ retentionMask # {} \/ "retention" \in {domain["mpu"], domain["core"]} =>
                GetCurrentState # CHIP_OFF
BY DEF GetCurrentState, LatencyState, CHIP_OFF, CHIP_OSWR, CHIP_CSWR, CORE_CSWR,
       CORE_INACTIVE, MPU_INACTIVE

LEMMA LeastState ==
    ASSUME NEW S \in SUBSET LatencyState, S # {}
    PROVE  \E s \in S : \A t \in S : s <= t
<1>1. \A s \in S : s \in {0, 1, 2, 3, 4, 5}
  BY DEF LatencyState, CHIP_OFF, MPU_INACTIVE
<1>2. CASE 0 \in S
  BY <1>1, <1>2
<1>3. CASE 0 \notin S /\ 1 \in S
  BY <1>1, <1>3
<1>4. CASE 0 \notin S /\ 1 \notin S /\ 2 \in S
  BY <1>1, <1>4
<1>5. CASE 0 \notin S /\ 1 \notin S /\ 2 \notin S /\ 3 \in S
  BY <1>1, <1>5
<1>6. CASE S \subseteq {4, 5} /\ 4 \in S
  BY <1>6
<1>7. CASE S = {5}
  BY <1>7
<1> QED BY <1>1, <1>2, <1>3, <1>4, <1>5, <1>6, <1>7

LEMMA FoundState ==
    ASSUME SleepTypeOK, NEW limit, NEW s, s = FindStateByMaxDelayInTicks(limit), s # NOCPUIDLE
    PROVE  /\ s \in LatencyState /\ s >= GetCurrentState
           /\ Ticks[Opm(vddOpp["vdd1"], vddOpp["vdd2"])][s] <= limit
<1> DEFINE inTime == {u \in GetCurrentState .. MPU_INACTIVE :
                        GetDelayInTicks(vddOpp["vdd1"], vddOpp["vdd2"], u) <= limit}
<1>1. inTime # {} /\ s = CHOOSE u \in inTime : \A t \in inTime : u <= t
  BY DEF FindStateByMaxDelayInTicks
<1>2. GetCurrentState \in LatencyState
  BY CurrentState
<1>3. inTime \subseteq LatencyState
  BY <1>2 DEF LatencyState, CHIP_OFF, MPU_INACTIVE
<1>4. \E u \in inTime : \A t \in inTime : u <= t
  BY <1>1, <1>3, LeastState
<1>5. s \in inTime
  BY <1>1, <1>4
<1> QED BY <1>2, <1>5 DEF GetDelayInTicks, NOCPUIDLE, LatencyState, CHIP_OFF, MPU_INACTIVE

(* What sleeping does to the registers. *)
LEMMA Pushed ==
    ASSUME SleepTypeOK, NEW s \in LatencyState, NEW b, PushState(s, b)
    PROVE  /\ saved' = target /\ target' \in [Domain -> PowerState]
           /\ s >= CORE_INACTIVE => target'["core"] = "on"
           /\ s >= CORE_CSWR => target'["per"] = "on"
           /\ \A d \in Domain \ {"mpu", "core", "per", "neon"} : target'[d] = target[d]
BY DomainAssumption DEF SleepTypeOK, PushState, Domain, PowerState, LatencyState, CHIP_OFF,
   CHIP_CSWR, CORE_CSWR, CORE_INACTIVE, MPU_INACTIVE

LEMMA Popped ==
    ASSUME SleepTypeOK, PopState
    PROVE  /\ saved' \in [Domain -> PowerState] /\ target' \in [Domain -> PowerState]
           /\ \A d \in {"mpu", "core", "per", "neon"} : target'[d] = saved[d]
           /\ \A d \in Domain \ {"mpu", "core", "per", "neon"} : target'[d] = target[d]
BY DomainAssumption DEF SleepTypeOK, PopState, Domain, PowerState

LEMMA Domains ==
    /\ OtherDomain \subseteq Domain /\ {"mpu", "core", "per", "neon"} \subseteq Domain
    /\ "mpu" \notin OtherDomain /\ "core" \notin OtherDomain
    /\ "per" \in OtherDomain /\ "neon" \in OtherDomain
BY DomainAssumption DEF Domain

-----------------------------------------------------------------------------
LEMMA SleepInit == Init => SleepIInv
<1> SUFFICES ASSUME Init PROVE SleepIInv
  OBVIOUS
<1> USE DEF Init, LatencyInit
<1>1. SleepTypeOK
  BY DomainAssumption DEF SleepTypeOK, Domain, PowerState, LatencyState, CHIP_OFF, MPU_INACTIVE
<1>2. Clocked(CoreDevices \cup Channel) = {} /\ Clocked(OtherDevices) = {}
  BY DEF Clocked, Device
<1>3. DevicesCounted
  BY <1>2, FS_EmptySet DEF DevicesCounted
<1>4. NotesKept
  BY DomainAssumption DEF NotesKept, Awake, Sleeping, Domain
<1>5. SleepSparesUsed
  BY DEF SleepSparesUsed
<1>6. Idle \in CallType /\ Idle.pc = "out"
  BY DEF Idle, CallType
<1>7. WorkOK
  BY <1>6 DEF WorkOK
<1> QED BY <1>1, <1>3, <1>4, <1>5, <1>7 DEF SleepIInv

(* The clocks of some devices go on or off, or none do. *)
Switches ==
    \/ UNCHANGED deviceVars
    \/ \E ds \in SUBSET Device : EnableClocks(ds) \/ DisableClocks(ds)

LEMMA Switched ==
    ASSUME SleepTypeOK, DevicesCounted, Switches
    PROVE  /\ DevicesCounted' /\ coreDevice' \in Nat /\ otherDevice' \in Nat
           /\ clocks' \in [Device -> Nat]
<1>1. CASE UNCHANGED deviceVars
  BY <1>1 DEF deviceVars, SleepTypeOK, DevicesCounted, Clocked
<1>2. CASE \E ds \in SUBSET Device : EnableClocks(ds) \/ DisableClocks(ds)
  BY <1>2, ClocksCounted
<1> QED BY <1>1, <1>2 DEF Switches

notesVars == <<domain, logicCore, inactiveMask, retentionMask>>

(* A step of the processor at work. *)
LEMMA AwakeStep ==
    ASSUME SleepIInv, ~ Sleeping, cpu' \in {"running", "off"}, Switches,
           UNCHANGED <<notesVars, target, saved>>, suspendState' \in LatencyState, WorkOK'
    PROVE  SleepIInv'
<1>1. DevicesCounted' /\ coreDevice' \in Nat /\ otherDevice' \in Nat /\ clocks' \in [Device -> Nat]
  BY Switched DEF SleepIInv
<1>2. SleepTypeOK'
  BY <1>1 DEF SleepIInv, SleepTypeOK, notesVars
<1>3. ~ Sleeping'
  BY DEF Sleeping
<1>4. NotesKept'
  BY <1>3 DEF SleepIInv, NotesKept, Awake, notesVars
<1>5. SleepSparesUsed'
  BY DEF SleepSparesUsed
<1> QED BY <1>1, <1>2, <1>4, <1>5 DEF SleepIInv

(* Nothing of all this changes. *)
LEMMA SleepFrame ==
    ASSUME SleepIInv, UNCHANGED <<notesVars, suspendState, deviceVars, sleepVars, target>>, WorkOK'
    PROVE  SleepIInv'
BY DEF SleepIInv, SleepTypeOK, DevicesCounted, Clocked, NotesKept, Awake, Sleeping,
       SleepSparesUsed, Used, notesVars, deviceVars, sleepVars

(* The processor wakes up. *)
LEMMA WakeStep ==
    ASSUME SleepIInv, Sleeping, cpu' = "running", PopState, Switches,
           UNCHANGED <<notesVars, suspendState, call>>
    PROVE  SleepIInv'
<1>1. DevicesCounted' /\ coreDevice' \in Nat /\ otherDevice' \in Nat /\ clocks' \in [Device -> Nat]
  BY Switched DEF SleepIInv
<1>2. /\ saved' \in [Domain -> PowerState] /\ target' \in [Domain -> PowerState]
      /\ \A d \in {"mpu", "core", "per", "neon"} : target'[d] = saved[d]
      /\ \A d \in Domain \ {"mpu", "core", "per", "neon"} : target'[d] = target[d]
  BY Popped DEF SleepIInv
<1>3. SleepTypeOK'
  BY <1>1, <1>2 DEF SleepIInv, SleepTypeOK, notesVars
<1>4. \A d \in Domain : Awake(d)' = Awake(d)
  BY <1>2 DEF Awake, Sleeping
<1>5. NotesKept'
  BY <1>4, Domains DEF SleepIInv, NotesKept, notesVars
<1>6. SleepSparesUsed'
  BY DEF SleepSparesUsed
<1> QED BY <1>1, <1>3, <1>5, <1>6 DEF SleepIInv, WorkOK

(* The processor goes to sleep. *)
LEMMA SleepStep ==
    ASSUME SleepIInv, ~ Sleeping, NEW s \in LatencyState, NEW b, PushState(s, b),
           entered'.state = s, UNCHANGED <<notesVars, suspendState, deviceVars, call>>,
           \/ cpu' = "idle" /\ s >= GetCurrentState
           \/ cpu' = "suspended" /\ s = GetSuspendState
    PROVE  SleepIInv'
<1>1. /\ saved' = target /\ target' \in [Domain -> PowerState]
      /\ s >= CORE_INACTIVE => target'["core"] = "on"
      /\ s >= CORE_CSWR => target'["per"] = "on"
      /\ \A d \in Domain \ {"mpu", "core", "per", "neon"} : target'[d] = target[d]
  BY Pushed DEF SleepIInv
<1>2. SleepTypeOK'
  BY <1>1 DEF SleepIInv, SleepTypeOK, notesVars, deviceVars
<1>3. DevicesCounted'
  BY DEF SleepIInv, DevicesCounted, Clocked, deviceVars
<1>4. \A d \in Domain : Awake(d)' = Awake(d)
  BY <1>1 DEF Awake, Sleeping
<1>5. NotesKept'
  BY <1>4, Domains DEF SleepIInv, NotesKept, notesVars
<1>6. SleepSparesUsed'
  <2> DEFINE mask == (retentionMask \cup inactiveMask) \ {"per", "neon"}
             now == GetCurrentState
             Kept1 == "retention" \in {domain[d] : d \in {"mpu", "core"}}
  <2>1. /\ now \in LatencyState
        /\ coreDevice # 0 => now >= CORE_INACTIVE
        /\ otherDevice # 0 \/ inactiveMask # {} => now >= CORE_CSWR
        /\ retentionMask # {} \/ Kept1 => now # CHIP_OFF
    BY CurrentState DEF SleepIInv
  <2>2. mask # {} => now # CHIP_OFF
    BY <2>1 DEF CHIP_OFF, CORE_CSWR
  <2> HIDE DEF now
  <2>3. coreDevice # 0 \/ otherDevice # 0 \/ mask # {} \/ cpu' = "idle" => s >= now
    <3>1. CASE cpu' = "suspended"
      BY <2>1, <3>1 DEF GetSuspendState, now, LatencyState, CHIP_OFF, MPU_INACTIVE, SleepIInv, SleepTypeOK
    <3>2. CASE cpu' = "idle"
      BY <3>2 DEF now
    <3> QED BY <3>1, <3>2
  <2>4. /\ coreDevice # 0 => s >= CORE_INACTIVE
        /\ otherDevice # 0 => s >= CORE_CSWR
        /\ mask # {} => s # CHIP_OFF
        /\ cpu' = "idle" /\ Kept1 => s # CHIP_OFF
    BY <2>1, <2>2, <2>3 DEF LatencyState, CHIP_OFF, MPU_INACTIVE, CORE_INACTIVE, CORE_CSWR
  <2>5. /\ Used(CoreDevices \cup Channel)' => coreDevice # 0
        /\ Used(OtherDevices)' => otherDevice # 0
    BY UsedCounted DEF SleepIInv, Used, deviceVars
  <2> HIDE DEF mask, Kept1
  <2>6. /\ Used(CoreDevices \cup Channel)' => target'["core"] = "on"
        /\ Used(OtherDevices)' => target'["per"] = "on"
        /\ mask # {} => entered'.state # CHIP_OFF
        /\ cpu' = "idle" /\ Kept1 => entered'.state # CHIP_OFF
    BY <1>1, <2>4, <2>5
  <2> QED BY <2>6 DEF SleepSparesUsed, mask, Kept1, notesVars
<1> QED BY <1>2, <1>3, <1>5, <1>6 DEF SleepIInv, WorkOK

(* A client sets the state of a power domain. *)
LEMMA DomainStep ==
    ASSUME SleepIInv, NEW e \in DomainStates,
           OALIoCtlPrcmDomainSetPowerState(e.domain, e.state, e.logic)
    PROVE  SleepIInv'
<1> DEFINE d == e.domain
           st == e.state
           reg == IF st = "off" /\ d \in {"mpu", "neon", "per", "core"} THEN "retention" ELSE st
<1>1. /\ d \in Domain /\ st \in {"off", "retention", "on"} /\ e.logic \in {"on", "off"}
  BY SettingsAssumption DEF PowerState
<1>2. /\ cpu = "running" /\ target' = [target EXCEPT ![d] = reg]
      /\ UpdateDomainState(d, st, IF d = "core" /\ st = "off" THEN "off" ELSE e.logic)
      /\ UNCHANGED <<suspendState, deviceVars, sleepVars>>
  BY DEF OALIoCtlPrcmDomainSetPowerState, Running
<1>3. reg \in PowerState /\ (reg = "on" <=> st = "on") /\ (st = "retention" => reg = "retention")
  BY <1>1 DEF PowerState
<1> HIDE DEF reg
<1> DEFINE logic == IF d = "core" /\ st = "off" THEN "off" ELSE e.logic
<1>4. logic \in {"on", "off"}
  BY <1>1
<1>5. UpdateDomainState(d, st, logic)
  BY <1>2
<1> HIDE DEF logic, d, st
<1>6. SleepTypeOK'
  <2>1. domain' \in [{"mpu", "core"} -> PowerState] /\ logicCore' \in {"on", "off"}
    BY <1>1, <1>4, <1>5 DEF SleepIInv, SleepTypeOK, UpdateDomainState, PowerState
  <2>2. inactiveMask' \subseteq OtherDomain /\ retentionMask' \subseteq OtherDomain
    BY <1>5 DEF SleepIInv, SleepTypeOK, UpdateDomainState
  <2>3. target' \in [Domain -> PowerState]
    BY <1>2, <1>3 DEF SleepIInv, SleepTypeOK
  <2> QED BY <1>2, <2>1, <2>2, <2>3 DEF SleepIInv, SleepTypeOK, deviceVars, sleepVars
<1>7. \A x \in Domain : target'[x] = IF x = d THEN reg ELSE target[x]
  BY <1>2 DEF SleepIInv, SleepTypeOK
<1>8. \A x \in Domain : Awake(x) = target[x] /\ Awake(x)' = target'[x]
  BY <1>2 DEF Awake, Sleeping, sleepVars
<1>9. NotesKept'
  <2>1. /\ \A x \in {"mpu", "core"} : domain[x] = "inactive" <=> target[x] = "on"
        /\ \A x \in OtherDomain : /\ x \in inactiveMask <=> target[x] = "on"
                                  /\ x \in retentionMask => target[x] = "retention"
    BY <1>8, Domains DEF SleepIInv, NotesKept
  <2>2. \A x \in {"mpu", "core"} : domain'[x] = "inactive" <=> target'[x] = "on"
    <3>1. CASE d \in {"mpu", "core"}
      BY <1>1, <1>3, <1>5, <1>7, <2>1, <3>1, Domains DEF UpdateDomainState, SleepIInv, SleepTypeOK
    <3>2. CASE d \notin {"mpu", "core"}
      BY <1>5, <1>7, <2>1, <3>2, Domains DEF UpdateDomainState
    <3> QED BY <3>1, <3>2
  <2>3. \A x \in OtherDomain : /\ x \in inactiveMask' <=> target'[x] = "on"
                               /\ x \in retentionMask' => target'[x] = "retention"
    <3>1. CASE d \in OtherDomain
      BY <1>3, <1>5, <1>7, <2>1, <3>1, Domains DEF UpdateDomainState
    <3>2. CASE d \notin OtherDomain
      <4>1. UNCHANGED <<inactiveMask, retentionMask>>
        BY <1>5, <3>2 DEF UpdateDomainState
      <4>2. \A x \in OtherDomain : target'[x] = target[x]
        BY <1>7, <3>2, Domains
      <4> QED BY <2>1, <4>1, <4>2
    <3> QED BY <3>1, <3>2
  <2> QED BY <1>8, <2>2, <2>3, Domains DEF NotesKept
<1>10. DevicesCounted' /\ SleepSparesUsed'
  BY <1>2 DEF SleepIInv, DevicesCounted, Clocked, SleepSparesUsed, deviceVars, sleepVars
<1>11. UNCHANGED call
  BY DEF OALIoCtlPrcmDomainSetPowerState, voltageVars
<1> QED BY <1>6, <1>9, <1>10, <1>11 DEF SleepIInv, WorkOK

(* The work of callers. *)
LEMMA WorkChange ==
    ASSUME WorkOK, NEW t \in Caller, NEW rec \in CallType,
           rec.pc \notin {"out", "next"} => rec.todo # <<>>,
           call' = [call EXCEPT ![t] = rec]
    PROVE  WorkOK'
BY DEF WorkOK

LEMMA WorkGoto ==
    ASSUME WorkOK, NEW t \in Caller, call[t].todo # <<>>,
           NEW pc \in {"drop", "switch", "flag", "change", "raised", "lowered", "note", "out"},
           Goto(t, pc)
    PROVE  WorkOK'
<1> DEFINE rec == [call[t] EXCEPT !.pc = pc]
<1>1. rec \in CallType /\ rec.todo = call[t].todo
  BY DEF WorkOK, CallType
<1> QED BY <1>1, WorkChange DEF Goto

LEMMA WorkMonitor ==
    ASSUME WorkOK, NEW t \in Caller, call[t].todo # <<>>, NEW on \in BOOLEAN,
           NEW back \in {"change", "drop"},
           Monitor(t, on, back) \/ MonitorRestored(t, FALSE, "change")
    PROVE  WorkOK'
<1>1. call[t] \in CallType /\ DOMAIN call = Caller
  BY DEF WorkOK
<1>2. CASE Monitor(t, on, back)
  <2> DEFINE rec == [call[t] EXCEPT !.pc = "test", !.on = on, !.back = back]
  <2>1. rec \in CallType /\ rec.todo = call[t].todo
    BY <1>1 DEF CallType
  <2>2. call' = [call EXCEPT ![t] = rec]
    BY <1>1, <1>2 DEF Monitor
  <2> QED BY <2>1, <2>2, WorkChange
<1>3. CASE MonitorRestored(t, FALSE, "change")
  <2> DEFINE rec == [call[t] EXCEPT !.pc = "test", !.on = FALSE, !.back = "change", !.restore = TRUE]
  <2>1. (call[t].restore \/ ~ FALSE) = TRUE
    OBVIOUS
  <2>2. call' = [call EXCEPT ![t] = rec]
    BY <1>3, <2>1, Zenon DEF MonitorRestored
  <2>3. rec \in CallType /\ rec.todo = call[t].todo
    BY <1>1 DEF CallType
  <2> QED BY <2>2, <2>3, WorkChange
<1> QED BY <1>2, <1>3

LEMMA WorkStep ==
    ASSUME WorkOK, NEW t \in Caller, Ioctl(t) \/ Step(t)
    PROVE  WorkOK'
<1>1. /\ call[t] \in CallType /\ call[t].todo \in Seq(Asked) /\ call[t].on \in BOOLEAN
      /\ call[t].back \in {"out", "change", "drop"} /\ DOMAIN call = Caller
      /\ call[t].pc \notin {"out", "next"} => call[t].todo # <<>>
  BY DEF WorkOK, CallType
<1>2. Idle \in CallType /\ Idle.pc = "out"
  BY DEF Idle, CallType
<1>3. CASE Ioctl(t)
  <2>1. CASE \E r \in Requests : OALIoCtlOppRequest(t, r)
    <3>1. PICK r \in Requests : OALIoCtlOppRequest(t, r)
      BY <2>1
    <3>2. r \in Seq(Asked)
      BY OppAssumption DEF Asked
    <3> DEFINE rec == [Idle EXCEPT !.op = "opp", !.pc = "next", !.todo = r, !.request = r]
    <3>3. rec \in CallType /\ rec.pc = "next"
      BY <1>2, <3>2 DEF CallType
    <3> QED BY <3>1, <3>3, WorkChange DEF OALIoCtlOppRequest
  <2>2. CASE \E b \in BOOLEAN : OALIoCtlSmartReflexControl(t, b)
    <3>1. PICK b \in BOOLEAN : OALIoCtlSmartReflexControl(t, b)
      BY <2>2
    <3> DEFINE rec == [Idle EXCEPT !.op = "monitor", !.pc = "next", !.todo = Both, !.on = b]
    <3>2. rec \in CallType /\ rec.pc = "next"
      BY <1>2, BothParts DEF CallType
    <3> QED BY <3>1, <3>2, WorkChange DEF OALIoCtlSmartReflexControl
  <2>3. CASE OALIoCtlUpdateRetentionVoltages(t)
    <3> DEFINE rec == [Idle EXCEPT !.op = "retention", !.pc = "next", !.todo = Both]
    <3>1. rec \in CallType /\ rec.pc = "next"
      BY <1>2, BothParts DEF CallType
    <3> QED BY <2>3, <3>1, WorkChange DEF OALIoCtlUpdateRetentionVoltages
  <2> QED BY <1>3, <2>1, <2>2, <2>3 DEF Ioctl
<1>4. CASE NextDomain(t)
  BY <1>1, <1>4, WorkGoto, WorkMonitor DEF NextDomain
<1>5. CASE Drop(t)
  <2> DEFINE rec == [call[t] EXCEPT !.pc = "next", !.todo = Tail(call[t].todo)]
  <2>1. Tail(call[t].todo) \in Seq(Asked)
    BY <1>1, <1>5, HeadTailProperties DEF Drop
  <2>2. rec \in CallType /\ rec.pc = "next"
    BY <1>1, <2>1 DEF CallType
  <2>3. call' = [call EXCEPT ![t] = rec]
    BY <1>1, <1>5 DEF Drop
  <2> QED BY <2>2, <2>3, WorkChange
<1>6. CASE ReturnCall(t)
  BY <1>2, <1>6, WorkChange DEF ReturnCall
<1>7. CASE TestMonitor(t)
  BY <1>1, <1>7, WorkGoto DEF TestMonitor
<1>8. CASE SwitchMonitor(t)
  BY <1>1, <1>8, WorkGoto DEF SwitchMonitor
<1>9. CASE FlagMonitor(t)
  BY <1>1, <1>9, WorkGoto DEF FlagMonitor
<1>10. CASE ChangeVoltage(t)
  BY <1>1, <1>10, WorkGoto DEF ChangeVoltage
<1>11. CASE ChangeFrequency(t)
  BY <1>1, <1>11, WorkGoto DEF ChangeFrequency
<1>12. CASE NoteOpp(t)
  BY <1>1, <1>12, WorkGoto, WorkMonitor DEF NoteOpp
<1>13. CASE ChangeRetention(t)
  BY <1>1, <1>13, WorkGoto, WorkMonitor DEF ChangeRetention
<1> QED BY <1>3, <1>4, <1>5, <1>6, <1>7, <1>8, <1>9, <1>10, <1>11, <1>12, <1>13 DEF Step

(* A caller: only SmartReflex_EnableMonitor touches the devices. *)
LEMMA CallerStep ==
    ASSUME SleepIInv, NEW t \in Caller, Ioctl(t) \/ Step(t)
    PROVE  SleepIInv'
<1>1. cpu = "running"
  BY DEF Ioctl, Step, Running, OALIoCtlOppRequest, OALIoCtlSmartReflexControl,
         OALIoCtlUpdateRetentionVoltages
<1>2. WorkOK'
  BY WorkStep DEF SleepIInv
<1>3. CASE SwitchMonitor(t)
  <2>1. UNCHANGED <<promiseVars, sleepVars, target>>
    BY <1>3 DEF SwitchMonitor
  <2>2. StartMonitor({Vd(t)}) \/ StopMonitor({Vd(t)})
    BY <1>3 DEF SwitchMonitor
  <2>3. call[t].todo \in Seq(Asked) /\ call[t].todo # <<>>
    BY <1>3 DEF SwitchMonitor, SleepIInv, WorkOK, CallType
  <2>7. Head(call[t].todo) \in Asked
    BY <2>3, HeadTailProperties
  <2>4. Vd(t) \in Vdd
    BY <2>7 DEF Vd, Asked
  <2>5. {Vd(t)} \in SUBSET Device
    BY <2>4 DEF Device, Channel
  <2>6. Switches
    BY <2>2, <2>5 DEF StartMonitor, StopMonitor, Switches
  <2> QED BY <1>1, <1>2, <2>1, <2>6, AwakeStep
          DEF Sleeping, promiseVars, sleepVars, notesVars, SleepIInv, SleepTypeOK
<1>4. CASE ~ SwitchMonitor(t)
  <2>1. UNCHANGED <<notesVars, suspendState, deviceVars, sleepVars, target>>
    BY <1>4 DEF Ioctl, Step, OALIoCtlOppRequest, OALIoCtlSmartReflexControl,
       OALIoCtlUpdateRetentionVoltages, NextDomain, Drop, ReturnCall, TestMonitor, FlagMonitor,
       ChangeVoltage, ChangeFrequency, NoteOpp, ChangeRetention, latencyVars, promiseVars, notesVars
  <2> QED BY <1>2, <2>1, SleepFrame
<1> QED BY <1>3, <1>4

(* The processor. *)
LEMMA PowerStep ==
    ASSUME SleepIInv, Power
    PROVE  SleepIInv'
<1>1. CASE \E delay \in Delays : OEMIdle(delay)
  <2>1. PICK delay \in Delays : OEMIdle(delay)
    BY <1>1
  <2> DEFINE limit == IF delay < constraint THEN delay ELSE constraint
             s == FindStateByMaxDelayInTicks(limit)
  <2>2. /\ s # NOCPUIDLE /\ PushState(s, Monitored) /\ cpu = "running" /\ cpu' = "idle"
        /\ entered' = [state |-> s, limit |-> limit]
        /\ UNCHANGED <<promiseVars, deviceVars, voltageVars>>
    BY <2>1 DEF OEMIdle, Running
  <2>3. SleepTypeOK
    BY DEF SleepIInv
  <2>4. s \in LatencyState /\ s >= GetCurrentState
    BY <2>2, <2>3, FoundState
  <2> HIDE DEF s, limit
  <2>5. entered'.state = s
    BY <2>2
  <2> QED BY <2>2, <2>4, <2>5, SleepStep DEF Sleeping, promiseVars, notesVars, voltageVars
<1>2. CASE WakeFromIdle
  <2>1. /\ cpu = "idle" /\ PopState /\ cpu' = "running"
        /\ UNCHANGED <<promiseVars, deviceVars, voltageVars>>
    BY <1>2 DEF WakeFromIdle
  <2> QED BY <2>1, WakeStep DEF Sleeping, promiseVars, notesVars, voltageVars, Switches
<1>3. CASE BSPPowerOff
  <2>1. /\ cpu = "running" /\ cpu' = "off" /\ StopMonitor(Suspending)
        /\ UNCHANGED <<promiseVars, saved, target, call>>
    BY <1>3 DEF BSPPowerOff, Running
  <2>2. Suspending \in SUBSET Device
    BY DEF Suspending, Device
  <2>3. Switches
    BY <2>1, <2>2 DEF StopMonitor, Switches
  <2> QED BY <2>1, <2>3, AwakeStep
          DEF Sleeping, promiseVars, notesVars, SleepIInv, SleepTypeOK, WorkOK
<1>4. CASE OEMPowerOff
  <2> DEFINE s == GetSuspendState
  <2>1. /\ cpu = "off" /\ PushState(s, Monitored) /\ cpu' = "suspended"
        /\ entered' = [state |-> s, limit |-> MAX_INT]
        /\ UNCHANGED <<promiseVars, deviceVars, voltageVars>>
    BY <1>4 DEF OEMPowerOff
  <2>2. s \in LatencyState
    BY CurrentState DEF GetSuspendState, SleepIInv, SleepTypeOK
  <2>3. entered'.state = s
    BY <2>1
  <2> QED BY <2>1, <2>2, <2>3, SleepStep DEF Sleeping, promiseVars, notesVars, voltageVars
<1>5. CASE BSPPowerOn
  <2>1. /\ cpu = "suspended" /\ PopState /\ cpu' = "running" /\ StartMonitor(Resuming)
        /\ UNCHANGED <<promiseVars, call>>
    BY <1>5 DEF BSPPowerOn
  <2>2. Resuming \in SUBSET Device
    BY DEF Resuming, Device
  <2>3. Switches
    BY <2>1, <2>2 DEF StartMonitor, Switches
  <2> QED BY <2>1, <2>3, WakeStep DEF Sleeping, promiseVars, notesVars
<1> QED BY <1>1, <1>2, <1>3, <1>4, <1>5 DEF Power

LEMMA SleepSettingsStep ==
    ASSUME SleepIInv, Settings
    PROVE  SleepIInv'
<1>1. CASE \E e \in DomainStates : OALIoCtlPrcmDomainSetPowerState(e.domain, e.state, e.logic)
  BY <1>1, DomainStep
<1>2. CASE \E s \in SuspendStates : OALIoCtlPrcmSetSuspendState(s)
  <2>1. suspendState' \in LatencyState
    BY <1>2, SettingsAssumption DEF OALIoCtlPrcmSetSuspendState
  <2>2. cpu = "running" /\ UNCHANGED <<notesVars, deviceVars, sleepVars, target, call>>
    BY <1>2 DEF OALIoCtlPrcmSetSuspendState, Running, notesVars, voltageVars
  <2> QED BY <2>1, <2>2, AwakeStep DEF Sleeping, sleepVars, Switches, SleepIInv, WorkOK
<1>3. CASE \E ticks \in Constraints \cup {MAX_INT} : OALIoCtlInterruptLatencyConstraint(ticks)
  <2>1. UNCHANGED <<notesVars, suspendState, deviceVars, sleepVars, target, call>>
    BY <1>3 DEF OALIoCtlInterruptLatencyConstraint, notesVars, voltageVars
  <2> QED BY <2>1, SleepFrame DEF SleepIInv, WorkOK
<1> QED BY <1>1, <1>2, <1>3 DEF Settings

LEMMA SleepInvariantStep == SleepIInv /\ [Next]_vars => SleepIInv'
<1> SUFFICES ASSUME SleepIInv, [Next]_vars PROVE SleepIInv'
  OBVIOUS
<1>1. CASE \E t \in Caller : Ioctl(t) \/ Step(t)
  BY <1>1, CallerStep
<1>2. CASE \E d \in CoreDevices \cup OtherDevices : SwitchDevice(d)
  <2>1. PICK d \in CoreDevices \cup OtherDevices : SwitchDevice(d)
    BY <1>2
  <2>2. {d} \in SUBSET Device
    BY DEF Device
  <2>3. /\ cpu = "running" /\ Switches /\ UNCHANGED <<promiseVars, sleepVars, target, call>>
    BY <2>1, <2>2 DEF SwitchDevice, Switches, Running, voltageVars
  <2> QED BY <2>3, AwakeStep
          DEF Sleeping, promiseVars, sleepVars, notesVars, SleepIInv, SleepTypeOK, WorkOK
<1>3. CASE Settings
  BY <1>3, SleepSettingsStep
<1>4. CASE Power
  BY <1>4, PowerStep
<1>5. CASE UNCHANGED vars
  <2>1. UNCHANGED <<notesVars, suspendState, deviceVars, sleepVars, target, call>>
    BY <1>5 DEF vars, latencyVars, promiseVars, notesVars, voltageVars
  <2> QED BY <2>1, SleepFrame DEF SleepIInv, WorkOK
<1> QED BY <1>1, <1>2, <1>3, <1>4, <1>5 DEF Next

THEOREM SleepInvariant == Spec => []SleepIInv
BY SleepInit, SleepInvariantStep, PTL DEF Spec

(***************************************************************************)
(* Whatever sleep the idle loop or a suspend chooses, the domains of the   *)
(* devices that have their clocks stay on, and no domain that was asked to *)
(* keep its state is lost: for any number of callers, however they race.   *)
(***************************************************************************)
THEOREM SleepSpares == Spec => []SleepSparesUsed
<1>1. SleepIInv => SleepSparesUsed
  BY DEF SleepIInv
<1> QED BY <1>1, SleepInvariant, PTL

(***************************************************************************)
(* Sleeping leaves no trace: while no sleep is on, the framework's notes   *)
(* on the power domains agree with the registers.                          *)
(***************************************************************************)
THEOREM NotesAreRight == Spec => []NotesMatchRegisters
<1>1. SleepIInv => NotesMatchRegisters
  BY Domains DEF SleepIInv, NotesKept, Awake, Sleeping, NotesMatchRegisters
<1> QED BY <1>1, SleepInvariant, PTL

-----------------------------------------------------------------------------
(***************************************************************************)
(* Waking up in time, for one caller and requests for points that exist.   *)
(***************************************************************************)
LEMMA MaxIntNat == MAX_INT \in Nat
<1> DEFINE m == CHOOSE m \in Delays : \A d \in Delays : d <= m
<1>1. m \in Nat
  BY DelaysAssumption
<1> HIDE DEF m
<1>2. MAX_INT = 1 + m
  BY DEF MAX_INT, m
<1> QED BY <1>1, <1>2

(* At higher points the table's row is not a lower one. *)
LEMMA OpmGrows ==
    ASSUME NEW a \in Nat \ {0}, NEW b \in Nat \ {0}, NEW c \in Nat \ {0}, NEW d \in Nat \ {0},
           a <= c, b <= d
    PROVE  Opm(a, b) \in OPM /\ Opm(c, d) \in OPM /\ Opm(a, b) <= Opm(c, d)
BY DEF Opm, OPM

(* The queue of work and the request that it is the rest of. *)
LEMMA RestOfRequest ==
    ASSUME VoltageTypeOK, NEW t \in Caller
    PROVE  /\ Len(call[t].request) \in Nat /\ Len(call[t].todo) \in Nat
           /\ DOMAIN call[t].request = 1 .. Len(call[t].request)
           /\ DOMAIN call[t].todo = 1 .. Len(call[t].todo)
           /\ call[t].todo = <<>> => Len(call[t].todo) = 0
           /\ call[t].todo # <<>> => /\ Len(call[t].todo) >= 1
                                     /\ Head(call[t].todo) = call[t].todo[1]
BY CallFields, LenProperties, EmptySeq, HeadTailProperties

(* A step in which no domain of the request is done. *)
LEMMA NoneDone ==
    ASSUME NEW t \in Caller, call[t].op = "opp", ToBeNoted(t),
           SameWork(t), UNCHANGED <<oppVdd, vddOpp>>, Done(t)' = Done(t),
           call'[t].pc # "next" => call[t].todo # <<>>
    PROVE  ToBeNoted(t)'
<1>1. TodoIsRest(t)'
  BY DEF ToBeNoted, TodoIsRest, SameWork
<1>2. \A v \in Vdd : LastDone(t, v)' = LastDone(t, v) /\ Noted(v)' = Noted(v)
  BY DEF LastDone, SameWork, Noted
<1> QED BY <1>1, <1>2 DEF ToBeNoted, SameWork

(* A step after which the domain at the head of the rest is done. *)
LEMMA OneDone ==
    ASSUME VoltageTypeOK, NEW t \in Caller, call[t].op = "opp", ToBeNoted(t), SameWork(t),
           call[t].todo # <<>>, UNCHANGED vddOpp,
           Done(t) = Len(call[t].request) - Len(call[t].todo), Done(t)' = Done(t) + 1,
           oppVdd'[Vd(t)] = Head(call[t].todo).opp,
           \A v \in Vdd \ {Vd(t)} : oppVdd'[v] = oppVdd[v]
    PROVE  ToBeNoted(t)'
<1> DEFINE req == call[t].request
           k == Done(t)
           e == Head(call[t].todo)
<1> DEFINE n == Len(call[t].request) - Len(call[t].todo)
<1>5. k = n /\ n \in Nat /\ \A i \in DOMAIN call[t].todo : call[t].todo[i] = req[n + i]
  BY DEF ToBeNoted, TodoIsRest
<1>6. 1 \in DOMAIN call[t].todo /\ e = call[t].todo[1]
  BY RestOfRequest
<1>1. /\ k \in Nat /\ req[k + 1] = e /\ Vd(t) = e.vdd
      /\ call'[t].request = req /\ call'[t].op = "opp"
  <2> HIDE DEF k, n, e
  <2>1. call[t].todo[1] = req[n + 1]
    BY <1>5, <1>6
  <2> QED BY <1>5, <1>6, <2>1 DEF SameWork, Vd, e
<1>2. TodoIsRest(t)'
  BY DEF ToBeNoted, TodoIsRest, SameWork
<1>3. Done(t)' = k + 1
  OBVIOUS
<1> HIDE DEF k, e, req
<1>4. ASSUME NEW v \in Vdd
      PROVE  LastDone(t, v)' \/ (Noted(v)' /\ \A j \in 1 .. (k + 1) : req[j].vdd # v)
  <2>1. CASE v = e.vdd
    <3>1. k + 1 \in 1 .. (k + 1)
      BY <1>1
    <3>2. req[k + 1].vdd = v /\ req[k + 1].opp = oppVdd'[v]
      BY <1>1, <2>1 DEF e
    <3>3. \A j \in 1 .. (k + 1) : j <= k + 1
      BY <1>1
    <3> QED BY <1>1, <1>3, <3>1, <3>2, <3>3 DEF LastDone
  <2>2. CASE v # e.vdd
    <3>1. oppVdd'[v] = oppVdd[v] /\ vddOpp'[v] = vddOpp[v] /\ req[k + 1].vdd # v
      BY <1>1, <2>2
    <3>2. CASE LastDone(t, v)
      <4>1. PICK i \in 1 .. k : /\ req[i].vdd = v /\ req[i].opp = oppVdd[v]
                                /\ \A j \in 1 .. k : req[j].vdd = v => j <= i
        BY <3>2 DEF LastDone, k, req
      <4>2. i \in 1 .. (k + 1)
        BY <1>1
      <4>3. \A j \in 1 .. (k + 1) : req[j].vdd = v => j <= i
        BY <1>1, <3>1, <4>1
      <4> QED BY <1>1, <1>3, <3>1, <4>1, <4>2, <4>3 DEF LastDone
    <3>3. CASE ~ LastDone(t, v)
      <4>1. Noted(v) /\ \A j \in 1 .. k : req[j].vdd # v
        BY <3>3 DEF ToBeNoted, k, req
      <4>2. \A j \in 1 .. (k + 1) : req[j].vdd # v
        BY <1>1, <3>1, <4>1
      <4> QED BY <3>1, <4>1, <4>2 DEF Noted
    <3> QED BY <3>2, <3>3
  <2> QED BY <2>1, <2>2
<1> QED BY <1>1, <1>2, <1>3, <1>4 DEF ToBeNoted

(* A step of another ioctl. *)
LEMMA NotedFrame ==
    ASSUME NEW t \in Caller, call[t].op # "opp", call'[t].op # "opp", ToBeNoted(t),
           UNCHANGED <<oppVdd, vddOpp>>
    PROVE  ToBeNoted(t)'
BY DEF ToBeNoted, Noted
LEMMA TimeInit ==
    OneCaller /\ TableFalls /\ Init => TimeIInv
<1> SUFFICES ASSUME TableFalls, Init PROVE TimeIInv
  OBVIOUS
<1> USE DEF Init, LatencyInit
<1>1. \A t \in Caller : call[t] = Idle
  OBVIOUS
<1>2. NoteTypeOK
  BY IdleFields, MaxIntNat, Constants DEF NoteTypeOK, LatencyState, CHIP_OFF, MPU_INACTIVE, NOCPUIDLE
<1>3. WakesInTime
  BY DEF WakesInTime
<1>4. \A v \in Vdd : Noted(v)
  BY Constants DEF Noted, TableFalls
<1>5. \A t \in Caller : ToBeNoted(t) /\ (call[t].op = "none" <=> call[t].pc = "out")
  BY <1>1, <1>4, IdleFields DEF ToBeNoted
<1> QED BY <1>1, <1>2, <1>3, <1>5 DEF TimeIInv

(* A step of a caller leaves the types and the sleep alone. *)
LEMMA WorkingFrame ==
    ASSUME OneCaller, IInv, IInv', TimeIInv, NEW t \in Caller, cpu = "running",
           UNCHANGED <<sleepVars, constraint>>, vddOpp' \in [Vdd -> Nat \ {0}], ToBeNoted(t)'
    PROVE  TimeIInv'
<1>1. \A u \in Caller : u = t
  BY OnlyCaller
<1>2. /\ oppVdd' \in [Vdd -> Nat \ {0}] /\ call' \in [Caller -> CallType]
      /\ call'[t].op = "none" <=> call'[t].pc = "out"
  BY DEF IInv, VoltageTypeOK, CallsOK, CallOK
<1>3. NoteTypeOK'
  BY <1>2 DEF TimeIInv, NoteTypeOK, sleepVars
<1>4. cpu' = "running"
  BY DEF sleepVars
<1>5. WakesInTime'
  BY <1>4 DEF WakesInTime
<1> QED BY <1>1, <1>2, <1>3, <1>4, <1>5 DEF TimeIInv

(* The steps of SetOpp, and of the other ioctls. *)
LEMMA TimeMoves ==
    ASSUME OneCaller, IInv, IInv', TimeIInv, NEW t \in Caller, cpu = "running",
           UNCHANGED <<sleepVars, constraint, oppVdd, vddOpp>>, SameWork(t),
           call[t].op = "opp" =>
               Done(t)' = Done(t) /\ (call'[t].pc # "next" => call[t].todo # <<>>)
    PROVE  TimeIInv'
<1>1. vddOpp' \in [Vdd -> Nat \ {0}] /\ ToBeNoted(t)
  BY DEF TimeIInv, NoteTypeOK
<1>2. CASE call[t].op = "opp"
  BY <1>1, <1>2, NoneDone, WorkingFrame
<1>3. CASE call[t].op # "opp"
  BY <1>1, <1>3, NotedFrame, WorkingFrame DEF SameWork
<1> QED BY <1>2, <1>3

LEMMA TimeGoto ==
    ASSUME OneCaller, IInv, IInv', TimeIInv, NEW t \in Caller, cpu = "running",
           UNCHANGED <<sleepVars, constraint, oppVdd, vddOpp>>,
           NEW pc \in Pc \ {"out", "next"}, Goto(t, pc), call[t].todo # <<>>,
           call[t].op = "opp" =>
               (pc = "drop" \/ (pc \in Switching /\ call[t].back = "drop")
                 <=> call[t].pc = "drop" \/ (call[t].pc \in Switching /\ call[t].back = "drop"))
    PROVE  TimeIInv'
<1>1. SameWork(t) /\ call'[t].pc = pc /\ call'[t].back = call[t].back
  BY GotoFields DEF IInv
<1>2. call[t].op = "opp" => Done(t)' = Done(t)
  BY <1>1 DEF Done, SameWork
<1> QED BY <1>1, <1>2, TimeMoves

LEMMA TimeRequest ==
    ASSUME OneCaller, RequestsInRange, IInv, IInv', TimeIInv, NEW t \in Caller, Ioctl(t)
    PROVE  TimeIInv'
<1>1. /\ cpu = "running" /\ call[t] = Idle
      /\ UNCHANGED <<sleepVars, constraint, oppVdd, vddOpp>>
  BY DEF Ioctl, Running, OALIoCtlOppRequest, OALIoCtlSmartReflexControl,
         OALIoCtlUpdateRetentionVoltages, latencyVars, promiseVars
<1>2. /\ call[t].op # "opp" /\ \A v \in Vdd : Noted(v)
      /\ vddOpp' \in [Vdd -> Nat \ {0}] /\ call \in [Caller -> CallType]
  BY <1>1, IdleFields DEF TimeIInv, ToBeNoted, NoteTypeOK
<1>3. \A v \in Vdd : Noted(v)'
  BY <1>1, <1>2 DEF Noted
<1>4. CASE \E r \in Requests : OALIoCtlOppRequest(t, r)
  <2>1. PICK r \in Requests : OALIoCtlOppRequest(t, r)
    BY <1>4
  <2>2. /\ call'[t].op = "opp" /\ call'[t].pc = "next"
        /\ call'[t].todo = r /\ call'[t].request = r
    BY <1>2, <2>1 DEF OALIoCtlOppRequest, Idle
  <2>3. Len(r) \in Nat
    BY Constants, LenProperties
  <2>4. Done(t)' = 0
    BY <2>2, <2>3 DEF Done, Switching
  <2>5. TodoIsRest(t)'
    <3>1. \A i \in DOMAIN r : 0 + i = i
      BY <2>3, Constants, LenProperties
    <3>2. Len(call'[t].request) - Len(call'[t].todo) = 0
      BY <2>2, <2>3
    <3> QED BY <2>2, <3>1, <3>2 DEF TodoIsRest
  <2>6. \A j \in 1 .. Done(t)' : FALSE
    BY <2>4
  <2>7. ToBeNoted(t)'
    BY <1>3, <2>2, <2>5, <2>6 DEF ToBeNoted
  <2> QED BY <1>1, <1>2, <2>7, WorkingFrame
<1>5. CASE \E b \in BOOLEAN : OALIoCtlSmartReflexControl(t, b)
  <2>1. call'[t].op = "monitor"
    BY <1>2, <1>5 DEF OALIoCtlSmartReflexControl, Idle
  <2> QED BY <1>1, <1>2, <2>1, NotedFrame, WorkingFrame DEF TimeIInv
<1>6. CASE OALIoCtlUpdateRetentionVoltages(t)
  <2>1. call'[t].op = "retention"
    BY <1>2, <1>6 DEF OALIoCtlUpdateRetentionVoltages, Idle
  <2> QED BY <1>1, <1>2, <2>1, NotedFrame, WorkingFrame DEF TimeIInv
<1> QED BY <1>4, <1>5, <1>6 DEF Ioctl

(* The update of the latency table, when every domain is done. *)
LEMMA TimeReturn ==
    ASSUME OneCaller, IInv, IInv', TimeIInv, NEW t \in Caller, cpu = "running", ReturnCall(t)
    PROVE  TimeIInv'
<1>1. /\ call[t].pc = "next" /\ call[t].todo = <<>>
      /\ IF call[t].op = "opp" THEN UpdateOpp(call[t].request) ELSE UNCHANGED vddOpp
      /\ UNCHANGED <<sleepVars, constraint, oppVdd>>
  BY DEF ReturnCall
<1>2. call \in [Caller -> CallType] /\ vddOpp \in [Vdd -> Nat \ {0}] /\ ToBeNoted(t)
      /\ oppVdd \in [Vdd -> Nat \ {0}]
  BY DEF TimeIInv, NoteTypeOK
<1>3. call'[t].op = "none"
  BY <1>2, IdleFields DEF ReturnCall
<1>4. CASE call[t].op # "opp"
  <2>1. UNCHANGED vddOpp
    BY <1>1, <1>4
  <2> QED BY <1>1, <1>2, <1>3, <1>4, <2>1, NotedFrame, WorkingFrame
<1>5. CASE call[t].op = "opp"
  <2> DEFINE req == call[t].request
             last(v) == {i \in DOMAIN req : /\ req[i].vdd = v
                                            /\ \A j \in DOMAIN req : req[j].vdd = v => j <= i}
  <2>1. Done(t) = Len(req) /\ Len(req) \in Nat /\ DOMAIN req = 1 .. Done(t)
    BY <1>1, RestOfRequest DEF Done, Switching, IInv
  <2>2. vddOpp' = [v \in Vdd |-> IF last(v) = {} THEN vddOpp[v]
                                  ELSE req[CHOOSE i \in last(v) : TRUE].opp]
    BY <1>1, <1>5 DEF UpdateOpp
  <2> HIDE DEF req
  <2>3. ASSUME NEW v \in Vdd PROVE vddOpp'[v] \in Nat \ {0} /\ Noted(v)'
    <3>1. vddOpp'[v] = IF last(v) = {} THEN vddOpp[v] ELSE req[CHOOSE i \in last(v) : TRUE].opp
      BY <2>2
    <3>2. CASE LastDone(t, v)
      <4>1. PICK i \in DOMAIN req : /\ req[i].vdd = v /\ req[i].opp = oppVdd[v]
                                    /\ \A j \in DOMAIN req : req[j].vdd = v => j <= i
        BY <2>1, <3>2 DEF LastDone, req
      <4>2. \A j \in last(v) : j = i
        BY <2>1, <4>1
      <4>3. i \in last(v)
        BY <4>1
      <4>4. vddOpp'[v] = oppVdd[v]
        BY <3>1, <4>1, <4>2, <4>3
      <4> QED BY <1>1, <1>2, <4>4 DEF Noted
    <3>3. CASE ~ LastDone(t, v)
      <4>1. Noted(v) /\ \A j \in DOMAIN req : req[j].vdd # v
        BY <1>2, <1>5, <2>1, <3>3 DEF ToBeNoted, req
      <4>2. vddOpp'[v] = vddOpp[v]
        BY <3>1, <4>1
      <4> QED BY <1>1, <1>2, <4>1, <4>2 DEF Noted
    <3> QED BY <3>2, <3>3
  <2>4. vddOpp' \in [Vdd -> Nat \ {0}]
    BY <2>2, <2>3
  <2>5. ToBeNoted(t)'
    BY <1>3, <2>3 DEF ToBeNoted
  <2> QED BY <1>1, <2>4, <2>5, WorkingFrame
<1> QED BY <1>4, <1>5

LEMMA TimeWork ==
    ASSUME IInv, TimeIInv, NEW t \in Caller
    PROVE  /\ VoltageTypeOK /\ CallOK(t) /\ call[t].pc \in Pc
           /\ ToBeNoted(t) /\ vddOpp \in [Vdd -> Nat \ {0}] /\ oppVdd \in [Vdd -> Nat \ {0}]
           /\ call[t].pc = "drop" => Done(t) = Len(call[t].request) - Len(call[t].todo) + 1
           /\ call[t].pc \in {"next", "change", "raised", "lowered", "note"} =>
                Done(t) = Len(call[t].request) - Len(call[t].todo)
           /\ Len(call[t].request) \in Nat /\ Len(call[t].todo) \in Nat
<1>1. VoltageTypeOK /\ CallOK(t) /\ ToBeNoted(t)
  BY DEF IInv, CallsOK, TimeIInv
<1>2. Len(call[t].request) \in Nat /\ Len(call[t].todo) \in Nat
  BY <1>1, RestOfRequest
<1>3. /\ call[t].pc = "drop" => Done(t) = Len(call[t].request) - Len(call[t].todo) + 1
      /\ call[t].pc \in {"next", "change", "raised", "lowered", "note"} =>
           Done(t) = Len(call[t].request) - Len(call[t].todo)
  <2> DEFINE k == Len(call[t].request) - Len(call[t].todo)
  <2>1. k \in Int
    BY <1>2
  <2>2. call[t].pc = "drop" => Done(t) = k + 1
    BY DEF Done
  <2>3. call[t].pc \in {"next", "change", "raised", "lowered", "note"} => Done(t) = k + 0
    BY DEF Done, Switching
  <2> HIDE DEF k
  <2>4. call[t].pc \in {"next", "change", "raised", "lowered", "note"} => Done(t) = k
    BY <2>1, <2>3
  <2> QED BY <2>2, <2>4 DEF k
<1> QED BY <1>1, <1>2, <1>3, CallFields DEF TimeIInv, NoteTypeOK

(* The domain at the head is done: SetOpp noted its point, or skipped it. *)
LEMMA TimeDone ==
    ASSUME OneCaller, IInv, IInv', TimeIInv, NEW t \in Caller, cpu = "running",
           UNCHANGED <<sleepVars, constraint, vddOpp>>, SameWork(t), call[t].todo # <<>>,
           call[t].op = "opp", call[t].pc \in {"next", "note"},
           call'[t].pc = "drop" \/ (call'[t].pc = "test" /\ call'[t].back = "drop"),
           oppVdd'[Vd(t)] = Head(call[t].todo).opp,
           \A v \in Vdd \ {Vd(t)} : oppVdd'[v] = oppVdd[v]
    PROVE  TimeIInv'
<1>1. /\ VoltageTypeOK /\ ToBeNoted(t) /\ vddOpp' \in [Vdd -> Nat \ {0}]
      /\ Done(t) = Len(call[t].request) - Len(call[t].todo)
      /\ Len(call[t].request) \in Nat /\ Len(call[t].todo) \in Nat
  BY TimeWork
<1>2. Done(t)' = Done(t) + 1
  BY <1>1 DEF Done, SameWork, Switching
<1> QED BY <1>1, <1>2, OneDone, WorkingFrame

LEMMA TimeNext ==
    ASSUME OneCaller, RequestsInRange, IInv, IInv', TimeIInv, NEW t \in Caller,
           cpu = "running", NextDomain(t)
    PROVE  TimeIInv'
<1>1. /\ call[t].pc = "next" /\ call[t].todo # <<>>
      /\ UNCHANGED <<sleepVars, constraint, oppVdd, vddOpp>>
  BY DEF NextDomain, latencyVars, promiseVars
<1>2. VoltageTypeOK /\ ToBeNoted(t) /\ call[t].on \in BOOLEAN
  BY TimeWork, CallFields
<1>3. CASE call[t].op = "monitor" /\ Monitor(t, call[t].on, "drop")
  <2>1. SameWork(t)
    BY <1>2, <1>3, MonitorFields
  <2> QED BY <1>1, <1>3, <2>1, TimeMoves
<1>4. CASE call[t].op = "opp" /\ Skipped(Head(call[t].todo)) /\ Goto(t, "drop")
  <2> DEFINE e == Head(call[t].todo)
             k == Len(call[t].request) - Len(call[t].todo)
  <2>1. SameWork(t) /\ call'[t].pc = "drop"
    BY <1>2, <1>4, GotoFields DEF Pc
  <2>2. e.opp <= MaxOpp[e.vdd]
    <3>1. /\ k \in Nat /\ call[t].request \in Requests
          /\ \A i \in DOMAIN call[t].todo : call[t].todo[i] = call[t].request[k + i]
      BY <1>2, <1>4 DEF ToBeNoted, TodoIsRest
    <3>2. 1 \in DOMAIN call[t].todo /\ e = call[t].todo[1] /\ k + 1 \in DOMAIN call[t].request
      <4>1. /\ Len(call[t].request) \in Nat /\ Len(call[t].todo) \in Nat
            /\ DOMAIN call[t].request = 1 .. Len(call[t].request)
            /\ DOMAIN call[t].todo = 1 .. Len(call[t].todo)
            /\ Len(call[t].todo) >= 1 /\ e = call[t].todo[1]
        BY <1>1, <1>2, RestOfRequest
      <4>2. k + 1 \in Nat /\ 1 <= k + 1 /\ k + 1 <= Len(call[t].request)
        BY <3>1, <4>1
      <4>3. 1 \in 1 .. Len(call[t].todo)
        BY <4>1
      <4>4. \A n \in Nat, m \in Nat : 1 <= n /\ n <= m => n \in 1 .. m
        OBVIOUS
      <4>5. k + 1 \in 1 .. Len(call[t].request)
        BY <4>1, <4>2, <4>4, Zenon
      <4> QED BY <4>1, <4>3, <4>5, Zenon
    <3>3. e = call[t].request[k + 1]
      BY <3>1, <3>2
    <3> QED BY <3>1, <3>2, <3>3 DEF RequestsInRange
  <2>3. e.opp \in Nat /\ Vd(t) = e.vdd /\ MaxOpp[e.vdd] \in Nat
    BY <1>1, <1>2, Working, OppAssumption DEF Vd
  <2>4. oppVdd[e.vdd] = e.opp
    BY <1>4, <2>2, <2>3 DEF Skipped
  <2> QED BY <1>1, <1>4, <2>1, <2>3, <2>4, TimeDone
<1>5. CASE MonitorRestored(t, FALSE, "change")
  <2>1. SameWork(t) /\ call'[t].pc = "test" /\ call'[t].back = "change"
    BY <1>2, <1>5, MonitorRestoredFields
  <2>2. Done(t)' = Done(t)
    BY <1>1, <2>1 DEF Done, SameWork, Switching
  <2> QED BY <1>1, <2>1, <2>2, TimeMoves
<1>6. CASE Goto(t, "change")
  BY <1>1, <1>6, TimeGoto DEF Pc, Switching
<1> QED BY <1>3, <1>4, <1>5, <1>6 DEF NextDomain

LEMMA TimeDrop ==
    ASSUME OneCaller, IInv, IInv', TimeIInv, NEW t \in Caller, cpu = "running", Drop(t)
    PROVE  TimeIInv'
<1>1. /\ call[t].pc = "drop" /\ UNCHANGED <<sleepVars, constraint, oppVdd, vddOpp>>
  BY DEF Drop, latencyVars, promiseVars
<1>2. /\ VoltageTypeOK /\ CallOK(t) /\ ToBeNoted(t) /\ vddOpp' \in [Vdd -> Nat \ {0}]
      /\ Done(t) = Len(call[t].request) - Len(call[t].todo) + 1
  BY <1>1, TimeWork
<1>3. call[t].todo # <<>> /\ call[t].todo \in Seq(Asked) /\ call \in [Caller -> CallType]
  BY <1>1, <1>2, CallFields DEF CallOK, VoltageTypeOK
<1>4. /\ call'[t].pc = "next" /\ call'[t].todo = Tail(call[t].todo)
      /\ call'[t].op = call[t].op /\ call'[t].request = call[t].request
  BY <1>3 DEF Drop, CallType
<1>5. CASE call[t].op # "opp"
  BY <1>1, <1>2, <1>4, <1>5, NotedFrame, WorkingFrame
<1>6. CASE call[t].op = "opp"
  <2> DEFINE req == call[t].request
             todo == call[t].todo
             k == Len(req) - Len(todo)
  <2>1. /\ Len(Tail(todo)) = Len(todo) - 1 /\ DOMAIN Tail(todo) = 1 .. (Len(todo) - 1)
        /\ \A i \in 1 .. (Len(todo) - 1) : Tail(todo)[i] = todo[i + 1]
    BY <1>3, HeadTailProperties, LenProperties
  <2>2. /\ k \in Nat /\ Len(todo) \in Nat /\ Len(req) \in Nat /\ DOMAIN todo = 1 .. Len(todo)
        /\ req \in Requests /\ \A i \in DOMAIN todo : todo[i] = req[k + i]
    BY <1>2, <1>6, RestOfRequest DEF ToBeNoted, TodoIsRest
  <2> DEFINE kk == Len(call'[t].request) - Len(call'[t].todo)
  <2>3. kk = k + 1 /\ Done(t)' = k + 1 /\ Done(t) = k + 1
    <3>1. kk = Len(req) - (Len(todo) - 1)
      BY <1>4, <2>1
    <3>2. kk = k + 1
      <4>1. \A a, b \in Nat : a - (b - 1) = (a - b) + 1
        OBVIOUS
      <4> QED BY <2>2, <3>1, <4>1
    <3>3. Done(t)' = kk + 0
      BY <1>4 DEF Done, Switching
    <3> HIDE DEF kk, k
    <3>4. kk + 0 = kk
      BY <2>2, <3>2
    <3> QED BY <1>2, <3>2, <3>3, <3>4 DEF k
  <2>4. ASSUME NEW i \in 1 .. (Len(todo) - 1) PROVE Tail(todo)[i] = req[kk + i]
    <3>1. Tail(todo)[i] = todo[i + 1] /\ i + 1 \in DOMAIN todo
      BY <2>1, <2>2
    <3> HIDE DEF kk, k
    <3>2. k + (i + 1) = kk + i
      BY <2>2, <2>3
    <3> QED BY <2>2, <3>1, <3>2 DEF k
  <2>5. TodoIsRest(t)'
    <3>1. kk \in Nat
      <4> HIDE DEF kk, k
      <4> QED BY <2>2, <2>3
    <3>2. \A i \in DOMAIN call'[t].todo : call'[t].todo[i] = call'[t].request[kk + i]
      BY <1>4, <2>1, <2>4
    <3> QED BY <1>4, <2>2, <3>1, <3>2 DEF TodoIsRest
  <2>6. \A v \in Vdd : Noted(v)' = Noted(v) /\ LastDone(t, v)' = LastDone(t, v)
    BY <1>1, <1>4, <2>3 DEF Noted, LastDone
  <2>7. ToBeNoted(t)'
    BY <1>2, <1>4, <1>6, <2>3, <2>5, <2>6 DEF ToBeNoted
  <2> QED BY <1>1, <1>2, <2>7, WorkingFrame
<1> QED BY <1>5, <1>6

(* SmartReflex_EnableMonitor notes nothing. *)
LEMMA TimeSwitch ==
    ASSUME OneCaller, IInv, IInv', TimeIInv, NEW t \in Caller, cpu = "running",
           TestMonitor(t) \/ SwitchMonitor(t) \/ FlagMonitor(t)
    PROVE  TimeIInv'
<1>1. /\ call[t].pc \in Switching /\ UNCHANGED <<sleepVars, constraint, oppVdd, vddOpp>>
  BY DEF TestMonitor, SwitchMonitor, FlagMonitor, Switching, latencyVars, promiseVars
<1>2. VoltageTypeOK /\ CallOK(t)
  BY TimeWork
<1>3. call[t].todo # <<>> /\ call[t].back \in {"change", "drop"}
  BY <1>1, <1>2 DEF CallOK, Switching
<1>4. Goto(t, "switch") \/ Goto(t, "flag") \/ Goto(t, call[t].back)
  BY DEF TestMonitor, SwitchMonitor, FlagMonitor
<1>5. CASE Goto(t, "switch") \/ Goto(t, "flag")
  BY <1>1, <1>3, <1>5, TimeGoto DEF Pc, Switching
<1>6. CASE Goto(t, call[t].back)
  BY <1>1, <1>3, <1>6, TimeGoto DEF Pc, Switching
<1> QED BY <1>4, <1>5, <1>6

LEMMA TimeChange ==
    ASSUME OneCaller, IInv, IInv', TimeIInv, NEW t \in Caller, cpu = "running",
           ChangeVoltage(t) \/ ChangeFrequency(t)
    PROVE  TimeIInv'
<1>1. /\ call[t].pc \in {"change", "raised", "lowered"}
      /\ UNCHANGED <<sleepVars, constraint, oppVdd, vddOpp>>
  BY DEF ChangeVoltage, ChangeFrequency, latencyVars, promiseVars
<1>2. call[t].todo # <<>>
  BY <1>1, TimeWork DEF CallOK
<1>3. Goto(t, "raised") \/ Goto(t, "lowered") \/ Goto(t, "note")
  BY DEF ChangeVoltage, ChangeFrequency
<1> QED BY <1>1, <1>2, <1>3, TimeGoto DEF Pc, Switching

LEMMA TimeNote ==
    ASSUME OneCaller, IInv, IInv', TimeIInv, NEW t \in Caller, cpu = "running", NoteOpp(t)
    PROVE  TimeIInv'
<1>1. /\ call[t].pc = "note" /\ UNCHANGED <<sleepVars, constraint, vddOpp>>
      /\ oppVdd' = [oppVdd EXCEPT ![Vd(t)] = Head(call[t].todo).opp]
      /\ IF call[t].restore THEN Monitor(t, TRUE, "drop") ELSE Goto(t, "drop")
  BY DEF NoteOpp, latencyVars, promiseVars
<1>2. VoltageTypeOK /\ CallOK(t) /\ oppVdd \in [Vdd -> Nat \ {0}]
  BY TimeWork
<1>3. call[t].todo # <<>> /\ call[t].op = "opp"
  BY <1>1, <1>2 DEF CallOK, Changing
<1>4. Vd(t) \in Vdd
  BY <1>2, <1>3, Working
<1>5. /\ SameWork(t)
      /\ call'[t].pc = "drop" \/ (call'[t].pc = "test" /\ call'[t].back = "drop")
  <2>1. CASE call[t].restore
    BY <1>1, <1>2, <2>1, MonitorFields
  <2>2. CASE ~ call[t].restore
    BY <1>1, <1>2, <2>2, GotoFields DEF Pc
  <2> QED BY <2>1, <2>2
<1>6. /\ oppVdd'[Vd(t)] = Head(call[t].todo).opp
      /\ \A v \in Vdd \ {Vd(t)} : oppVdd'[v] = oppVdd[v]
  BY <1>1, <1>2, <1>4
<1> QED BY <1>1, <1>3, <1>5, <1>6, TimeDone

LEMMA TimeRetention ==
    ASSUME OneCaller, IInv, IInv', TimeIInv, NEW t \in Caller, cpu = "running", ChangeRetention(t)
    PROVE  TimeIInv'
<1>1. /\ call[t].op = "retention" /\ UNCHANGED <<sleepVars, constraint, oppVdd, vddOpp>>
      /\ IF call[t].restore THEN Monitor(t, TRUE, "drop") ELSE Goto(t, "drop")
  BY DEF ChangeRetention, latencyVars, promiseVars
<1>2. VoltageTypeOK
  BY TimeWork
<1>3. SameWork(t)
  <2>1. CASE call[t].restore
    BY <1>1, <1>2, <2>1, MonitorFields
  <2>2. CASE ~ call[t].restore
    BY <1>1, <1>2, <2>2, GotoFields DEF Pc
  <2> QED BY <2>1, <2>2
<1> QED BY <1>1, <1>3, TimeMoves

LEMMA TimeStep ==
    ASSUME OneCaller, RequestsInRange, IInv, IInv', TimeIInv, NEW t \in Caller, Step(t)
    PROVE  TimeIInv'
<1>1. cpu = "running"
  BY DEF Step, Running
<1> QED BY <1>1, TimeNext, TimeDrop, TimeReturn, TimeSwitch, TimeChange, TimeNote,
           TimeRetention DEF Step

(* The notes and the points stay; the processor may wake up. *)
LEMMA TimeFrame ==
    ASSUME TimeIInv, UNCHANGED <<vddOpp, oppVdd, call>>, constraint' \in Nat,
           entered' \in [state : LatencyState \cup {NOCPUIDLE}, limit : Nat],
           cpu' # "idle" \/ UNCHANGED <<cpu, entered>>
    PROVE  TimeIInv'
<1>1. NoteTypeOK'
  BY DEF TimeIInv, NoteTypeOK
<1>2. WakesInTime'
  BY DEF TimeIInv, WakesInTime
<1>3. \A t \in Caller : ToBeNoted(t)'
  <2> SUFFICES ASSUME NEW t \in Caller PROVE ToBeNoted(t)'
    OBVIOUS
  <2>1. ToBeNoted(t)
    BY DEF TimeIInv
  <2>2. Done(t)' = Done(t) /\ TodoIsRest(t)' = TodoIsRest(t)
    BY DEF Done, TodoIsRest
  <2>3. \A v \in Vdd : Noted(v)' = Noted(v) /\ LastDone(t, v)' = LastDone(t, v)
    BY <2>2 DEF Noted, LastDone
  <2> QED BY <2>1, <2>2, <2>3 DEF ToBeNoted
<1> QED BY <1>1, <1>2, <1>3 DEF TimeIInv

(* The processor idles in a state that the notes say it leaves in time. *)
LEMMA TimeIdle ==
    ASSUME OneCaller, TableFalls, SleepTypeOK, TimeIInv, NEW delay \in Delays, OEMIdle(delay)
    PROVE  TimeIInv'
<1> DEFINE limit == IF delay < constraint THEN delay ELSE constraint
           s == FindStateByMaxDelayInTicks(limit)
<1>1. /\ \A t \in Caller : call[t] = Idle
      /\ s # NOCPUIDLE /\ cpu' = "idle" /\ entered' = [state |-> s, limit |-> limit]
      /\ UNCHANGED <<vddOpp, oppVdd, call, constraint>>
  BY DEF OEMIdle, promiseVars, voltageVars
<1>2. limit \in Nat
  BY DelaysAssumption DEF TimeIInv, NoteTypeOK
<1>3. s \in LatencyState /\ Ticks[Opm(vddOpp["vdd1"], vddOpp["vdd2"])][s] <= limit
  BY <1>1, FoundState
<1> HIDE DEF s, limit
<1>4. \A v \in Vdd : Noted(v)
  BY <1>1, IdleFields DEF OneCaller, TimeIInv, ToBeNoted
<1>5. entered' \in [state : LatencyState \cup {NOCPUIDLE}, limit : Nat]
  BY <1>1, <1>2, <1>3
<1>6. Ticks[Opm(oppVdd["vdd1"], oppVdd["vdd2"])][s] <= limit
  <2> DEFINE note == Opm(vddOpp["vdd1"], vddOpp["vdd2"])
             point == Opm(oppVdd["vdd1"], oppVdd["vdd2"])
  <2>1. note \in OPM /\ point \in OPM /\ note <= point
    <3>1. /\ \A v \in Vdd : vddOpp[v] \in Nat \ {0} /\ oppVdd[v] \in Nat \ {0}
          /\ \A v \in Vdd : vddOpp[v] <= oppVdd[v]
      BY <1>4 DEF TimeIInv, NoteTypeOK, Noted
    <3> QED BY <3>1, OpmGrows DEF Vdd
  <2> HIDE DEF note, point
  <2>2. Ticks[point][s] <= Ticks[note][s]
    BY <1>3, <2>1 DEF TableFalls
  <2>3. Ticks[point][s] \in Nat /\ Ticks[note][s] \in Nat
    BY <1>3, <2>1, TicksAssumption
  <2>4. Ticks[note][s] <= limit
    BY <1>3 DEF note
  <2>5. Ticks[point][s] <= limit
    BY <1>2, <2>2, <2>3, <2>4
  <2> QED BY <2>5 DEF point
<1>7. WakesInTime'
  BY <1>1, <1>6 DEF WakesInTime
<1>8. NoteTypeOK'
  BY <1>1, <1>5 DEF TimeIInv, NoteTypeOK
<1>9. \A t \in Caller : ToBeNoted(t)'
  BY <1>1, <1>4, IdleFields DEF ToBeNoted, Noted
<1> QED BY <1>1, <1>7, <1>8, <1>9 DEF TimeIInv

LEMMA TimeSettings ==
    ASSUME TimeIInv, Settings
    PROVE  TimeIInv'
<1>1. UNCHANGED <<vddOpp, oppVdd, call, cpu, entered>>
  BY DEF Settings, OALIoCtlPrcmDomainSetPowerState, OALIoCtlPrcmSetSuspendState,
         OALIoCtlInterruptLatencyConstraint, sleepVars, voltageVars
<1>2. constraint' \in Nat
  BY SettingsAssumption, MaxIntNat
     DEF TimeIInv, NoteTypeOK, Settings, OALIoCtlPrcmDomainSetPowerState,
         OALIoCtlPrcmSetSuspendState, OALIoCtlInterruptLatencyConstraint
<1>3. entered' \in [state : LatencyState \cup {NOCPUIDLE}, limit : Nat]
  BY <1>1 DEF TimeIInv, NoteTypeOK
<1> QED BY <1>1, <1>2, <1>3, TimeFrame

LEMMA TimePower ==
    ASSUME OneCaller, TableFalls, SleepTypeOK, TimeIInv, Power
    PROVE  TimeIInv'
<1>1. CASE \E delay \in Delays : OEMIdle(delay)
  BY <1>1, TimeIdle
<1>2. CASE ~ \E delay \in Delays : OEMIdle(delay)
  <2>1. /\ UNCHANGED <<vddOpp, oppVdd, call, constraint>> /\ cpu' # "idle"
    BY <1>2 DEF Power, WakeFromIdle, BSPPowerOff, OEMPowerOff, BSPPowerOn, promiseVars, voltageVars
  <2>2. GetSuspendState \in LatencyState
    BY CurrentState DEF GetSuspendState, SleepTypeOK
  <2>3. entered' \in [state : LatencyState \cup {NOCPUIDLE}, limit : Nat]
    <3>1. CASE OEMPowerOff
      BY <2>2, <3>1, MaxIntNat DEF OEMPowerOff
    <3>2. CASE BSPPowerOff
      BY <3>2 DEF BSPPowerOff, TimeIInv, NoteTypeOK
    <3>3. CASE WakeFromIdle \/ BSPPowerOn
      BY <3>3 DEF WakeFromIdle, BSPPowerOn
    <3> QED BY <1>2, <3>1, <3>2, <3>3 DEF Power
  <2>4. constraint' \in Nat
    BY <2>1 DEF TimeIInv, NoteTypeOK
  <2> QED BY <2>1, <2>3, <2>4, TimeFrame
<1> QED BY <1>1, <1>2

LEMMA TimeInvariantStep ==
    OneCaller /\ RequestsInRange /\ TableFalls
    /\ IInv /\ IInv' /\ SleepIInv /\ TimeIInv /\ [Next]_vars => TimeIInv'
<1> SUFFICES ASSUME OneCaller, RequestsInRange, TableFalls, IInv, IInv', SleepIInv, TimeIInv,
                    [Next]_vars
             PROVE  TimeIInv'
  OBVIOUS
<1>1. CASE \E t \in Caller : Ioctl(t) \/ Step(t)
  BY <1>1, TimeRequest, TimeStep
<1>2. CASE (\E d \in CoreDevices \cup OtherDevices : SwitchDevice(d)) \/ UNCHANGED vars
  <2>1. UNCHANGED <<vddOpp, oppVdd, call, cpu, entered, constraint>>
    BY <1>2 DEF SwitchDevice, vars, latencyVars, promiseVars, sleepVars, voltageVars
  <2> QED BY <2>1, TimeFrame DEF TimeIInv, NoteTypeOK
<1>3. CASE Settings
  BY <1>3, TimeSettings
<1>4. CASE Power
  BY <1>4, TimePower DEF SleepIInv
<1> QED BY <1>1, <1>2, <1>3, <1>4 DEF Next

(***************************************************************************)
(* With one caller, requests for points that exist and a table that falls, *)
(* an idle processor is back in time at the operating points the domains   *)
(* really are at, although the choice was made from the notes: these are   *)
(* written only at the end of SetOpp, and never promise a higher point.    *)
(***************************************************************************)
THEOREM AwakeInTime == OneCaller /\ RequestsInRange /\ TableFalls => (Spec => []WakesInTime)
<1> SUFFICES ASSUME OneCaller, RequestsInRange, TableFalls PROVE Spec => []WakesInTime
  OBVIOUS
<1>1. Init => TimeIInv
  BY TimeInit
<1>2. IInv /\ IInv' /\ SleepIInv /\ TimeIInv /\ [Next]_vars => TimeIInv'
  BY TimeInvariantStep
<1>3. TimeIInv => WakesInTime
  BY DEF TimeIInv
<1>4. Spec => []IInv
  BY InductiveInvariant
<1> QED BY <1>1, <1>2, <1>3, <1>4, SleepInvariant, PTL DEF Spec
=============================================================================
