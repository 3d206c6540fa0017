----------------------------- MODULE OALVoltage -----------------------------
(***************************************************************************)
(* Voltage and frequency scaling in the OAL (opp_map.c), the ioctls that   *)
(* drive it (oem_pm.c), and its part in suspend and resume (power.c).      *)
(*                                                                         *)
(* A voltage domain has an operating point, a supply voltage and a         *)
(* frequency.  Voltages and frequencies are represented by the number of   *)
(* the operating point that they belong to; voltage 0 is the retention     *)
(* voltage.  A SmartReflex channel adapts the voltage of its domain to the *)
(* sensor reference of an operating point while it monitors.               *)
(*                                                                         *)
(* SetOpp, OALIoCtlSmartReflexControl and UpdateRetentionVoltages run in   *)
(* the thread of a caller, one step after the other; the kernel may        *)
(* suspend the system between any two of them, devices come and go.        *)
(***************************************************************************)
EXTENDS OALLatency, Sequences

CONSTANTS
    Caller,         \* threads that issue the ioctls
    NoCaller,
    MaxOpp,         \* _Max_Vdd1_OPP and MAX_VDD2_OPP
    InitialOpp,     \* Opp_init
    Requests,       \* bound: requests of clients, sequences of domains with operating points
    Capable,        \* _bSmartreflexCapable
    PreemptMonitor, \* the system may suspend while a caller is in SmartReflex_EnableMonitor
    DomainStates,   \* bound: domains with the states that clients set
    SuspendStates,  \* bound: suspend states that clients set
    Constraints     \* bound: latency constraints that clients set, besides none

ASSUME CallerAssumption == NoCaller \notin Caller
ASSUME OppAssumption ==
    /\ MaxOpp \in [Vdd -> Nat \ {0}] /\ InitialOpp \in [Vdd -> Nat \ {0}]
    /\ \A v \in Vdd : InitialOpp[v] <= MaxOpp[v]
    /\ Requests \subseteq Seq([vdd : Vdd, opp : Nat \ {0}])
ASSUME SettingsAssumption ==
    /\ DomainStates \subseteq [domain : Domain, state : PowerState \ {"inactive"}, logic : {"on", "off"}]
    /\ SuspendStates \subseteq LatencyState
    /\ Constraints \subseteq Nat
ASSUME FlagAssumption == Capable \in BOOLEAN /\ PreemptMonitor \in BOOLEAN

VARIABLES
    oppVdd,         \* _rgOppVdd
    volt,           \* the supply voltage
    initVdd,        \* the voltage the voltage processor starts from (SetInitVddLevel)
    freq,           \* the frequency of the DPLLs
    vp,             \* the voltage processor is enabled
    sensor,         \* the operating point the channel's sensor refers to, 0 when disabled
    bEnabled,       \* _rgSmartReflexInfo[].bEnabled
    srLock,         \* _rgSmartReflexInfo[].cs
    resumeSR,       \* s_enableSmartReflex1 and 2
    call,           \* what each caller is doing
    control         \* history: the last value given to OALIoCtlSmartReflexControl

supplyVars == <<volt, initVdd, freq>>
monitorVars == <<vp, sensor, bEnabled, srLock>>
voltageVars == <<oppVdd, supplyVars, monitorVars, resumeSR, call, control>>
vars == <<latencyVars, voltageVars>>

RETENTION == 0
Idle == [op |-> "none", pc |-> "out", todo |-> <<>>, request |-> <<>>,
         restore |-> FALSE, on |-> FALSE, back |-> "out"]

Init ==
    /\ LatencyInit
    /\ oppVdd = InitialOpp /\ volt = InitialOpp /\ initVdd = InitialOpp /\ freq = InitialOpp
    /\ vp = [c \in Channel |-> FALSE] /\ sensor = [c \in Channel |-> 0]
    /\ bEnabled = [c \in Channel |-> FALSE]
    /\ srLock = [c \in Channel |-> NoCaller]
    /\ resumeSR = [c \in Channel |-> FALSE]
    /\ call = [t \in Caller |-> Idle]
    /\ control = FALSE

-----------------------------------------------------------------------------
(* Slips: monitoring that is never noticed, a stop that leaves the clocks  *)
(* on, SetOpp that forgets to switch the monitor on again, and one that    *)
(* changes voltage and frequency in the wrong order.                       *)
MonitoringNever(c) == FALSE

StopMonitorClocked(cs) ==
    /\ vp' = [c \in Channel |-> c \notin cs /\ vp[c]]
    /\ sensor' = [c \in Channel |-> IF c \in cs THEN 0 ELSE sensor[c]]
    /\ volt' = [c \in Vdd |-> IF c \in cs THEN initVdd[c] ELSE volt[c]]
    /\ UNCHANGED <<autoControl, deviceVars>>

MonitorForgotten(t, on, back) ==
    call' = [call EXCEPT ![t].pc = "test", ![t].on = on, ![t].back = back]

Falling(v, opp) == opp < oppVdd[v]

-----------------------------------------------------------------------------
IsSmartReflexMonitoringEnabled(c) == bEnabled[c]

(* What SmartReflex_EnableMonitor does to the hardware of the channels in cs. *)

StartMonitor(cs) ==
    /\ vp' = [c \in Channel |-> c \in cs \/ vp[c]]
    /\ sensor' = [c \in Channel |-> IF c \in cs THEN oppVdd[c] ELSE sensor[c]]
    /\ volt' = [c \in Vdd |-> IF c \in cs THEN oppVdd[c] ELSE volt[c]]
    /\ autoControl' = IF cs = {} THEN autoControl ELSE "off"
    /\ EnableClocks(cs)

(* Ends with SmartReflex_VoltageFlush. *)
StopMonitor(cs) ==
    /\ vp' = [c \in Channel |-> c \notin cs /\ vp[c]]
    /\ sensor' = [c \in Channel |-> IF c \in cs THEN 0 ELSE sensor[c]]
    /\ volt' = [c \in Vdd |-> IF c \in cs THEN initVdd[c] ELSE volt[c]]
    /\ UNCHANGED autoControl
    /\ DisableClocks(cs)

-----------------------------------------------------------------------------
(* A caller's steps.  Vd(t) is the domain it works on. *)

Vd(t) == Head(call[t].todo).vdd
Goto(t, pc) == call' = [call EXCEPT ![t].pc = pc]
Running == cpu = "running"

(***************************************************************************)
(* The ioctls.  The two channels are controlled one after the other; the   *)
(* retention voltages of the two domains are set likewise.                 *)
(***************************************************************************)
Both == <<[vdd |-> "vdd1", opp |-> 1], [vdd |-> "vdd2", opp |-> 1]>>

OALIoCtlOppRequest(t, r) ==
    /\ Running /\ call[t] = Idle
    /\ call' = [call EXCEPT ![t] = [Idle EXCEPT !.op = "opp", !.pc = "next", !.todo = r, !.request = r]]
    /\ UNCHANGED <<latencyVars, oppVdd, supplyVars, monitorVars, resumeSR, control>>

OALIoCtlSmartReflexControl(t, b) ==
    /\ Running /\ call[t] = Idle
    /\ call' = [call EXCEPT ![t] = [Idle EXCEPT !.op = "monitor", !.pc = "next", !.todo = Both, !.on = b]]
    /\ control' = b
    /\ UNCHANGED <<latencyVars, oppVdd, supplyVars, monitorVars, resumeSR>>

OALIoCtlUpdateRetentionVoltages(t) ==
    /\ Running /\ call[t] = Idle
    /\ Capable
    /\ call' = [call EXCEPT ![t] = [Idle EXCEPT !.op = "retention", !.pc = "next", !.todo = Both]]
    /\ UNCHANGED <<latencyVars, oppVdd, supplyVars, monitorVars, resumeSR, control>>

(***************************************************************************)
(* The head of each loop.  SetOpp passes over the domains that are at the  *)
(* operating point already and over points that are too high.              *)
(***************************************************************************)
Skipped(e) == e.opp > MaxOpp[e.vdd] \/ oppVdd[e.vdd] = e.opp

Monitor(t, on, back) ==
    call' = [call EXCEPT ![t].pc = "test", ![t].on = on, ![t].back = back]

MonitorRestored(t, on, back) ==
    call' = [call EXCEPT ![t] = [@ EXCEPT !.pc = "test", !.on = on, !.back = back,
                                          !.restore = @ \/ ~ on]]

NextDomain(t) ==
    /\ call[t].pc = "next" /\ call[t].todo # <<>>
    /\ \/ /\ call[t].op = "monitor"
          /\ Monitor(t, call[t].on, "drop")
       \/ /\ call[t].op = "opp" /\ Skipped(Head(call[t].todo))
          /\ Goto(t, "drop")
       \/ /\ call[t].op = "opp" => ~ Skipped(Head(call[t].todo))
          /\ call[t].op # "monitor"
          /\ IF IsSmartReflexMonitoringEnabled(Vd(t)) THEN MonitorRestored(t, FALSE, "change") ELSE Goto(t, "change")
    /\ UNCHANGED <<latencyVars, oppVdd, supplyVars, monitorVars, resumeSR, control>>

Drop(t) ==
    /\ call[t].pc = "drop"
    /\ call' = [call EXCEPT ![t].pc = "next", ![t].todo = Tail(@)]
    /\ UNCHANGED <<latencyVars, oppVdd, supplyVars, monitorVars, resumeSR, control>>

(* SetOpp ends with the update of the latency table. *)
ReturnCall(t) ==
    /\ call[t].pc = "next" /\ call[t].todo = <<>>
    /\ IF call[t].op = "opp" THEN UpdateOpp(call[t].request) ELSE UNCHANGED vddOpp
    /\ call' = [call EXCEPT ![t] = Idle]
    /\ UNCHANGED <<domain, logicCore, inactiveMask, retentionMask, suspendState, constraint>>
    /\ UNCHANGED <<deviceVars, sleepVars, target, autoControl>>
    /\ UNCHANGED <<oppVdd, supplyVars, monitorVars, resumeSR, control>>

(***************************************************************************)
(* SmartReflex_EnableMonitor: the test, then under the lock the hardware   *)
(* and after it the flag.                                                  *)
(***************************************************************************)
TestMonitor(t) ==
    /\ call[t].pc = "test"
    /\ Goto(t, IF ~ Capable \/ bEnabled[Vd(t)] = call[t].on THEN call[t].back ELSE "switch")
    /\ UNCHANGED <<latencyVars, oppVdd, supplyVars, monitorVars, resumeSR, control>>

SwitchMonitor(t) ==
    /\ call[t].pc = "switch"
    /\ srLock[Vd(t)] = NoCaller
    /\ srLock' = [srLock EXCEPT ![Vd(t)] = t]
    /\ IF call[t].on THEN StartMonitor({Vd(t)}) ELSE StopMonitor({Vd(t)})
    /\ Goto(t, "flag")
    /\ UNCHANGED <<promiseVars, sleepVars, target, oppVdd, initVdd, freq, bEnabled, resumeSR, control>>

FlagMonitor(t) ==
    /\ call[t].pc = "flag"
    /\ bEnabled' = [bEnabled EXCEPT ![Vd(t)] = call[t].on]
    /\ srLock' = [srLock EXCEPT ![Vd(t)] = NoCaller]
    /\ Goto(t, call[t].back)
    /\ UNCHANGED <<latencyVars, oppVdd, supplyVars, vp, sensor, resumeSR, control>>

(***************************************************************************)
(* SetOpp: to a higher point the voltage is changed first, to a lower one  *)
(* the frequency.                                                          *)
(***************************************************************************)
SetVoltage(v, level) ==
    /\ volt' = [volt EXCEPT ![v] = level]
    /\ initVdd' = [initVdd EXCEPT ![v] = level]
    /\ vp' = [vp EXCEPT ![v] = FALSE]

Raising(v, opp) == opp > oppVdd[v]

ChangeVoltage(t) ==
    LET v == Vd(t)
        opp == Head(call[t].todo).opp
    IN /\ call[t].op = "opp"
       /\ \/ call[t].pc = "change" /\ Raising(v, opp) /\ Goto(t, "raised")
          \/ call[t].pc = "lowered" /\ Goto(t, "note")
       /\ SetVoltage(v, opp)
       /\ UNCHANGED <<latencyVars, oppVdd, freq, sensor, bEnabled, srLock, resumeSR, control>>

ChangeFrequency(t) ==
    LET v == Vd(t)
        opp == Head(call[t].todo).opp
    IN /\ call[t].op = "opp"
       /\ \/ call[t].pc = "change" /\ ~ Raising(v, opp) /\ Goto(t, "lowered")
          \/ call[t].pc = "raised" /\ Goto(t, "note")
       /\ freq' = [freq EXCEPT ![v] = opp]
       /\ UNCHANGED <<latencyVars, oppVdd, volt, initVdd, monitorVars, resumeSR, control>>

NoteOpp(t) ==
    /\ call[t].pc = "note"
    /\ oppVdd' = [oppVdd EXCEPT ![Vd(t)] = Head(call[t].todo).opp]
    /\ IF call[t].restore THEN Monitor(t, TRUE, "drop") ELSE Goto(t, "drop")
    /\ UNCHANGED <<latencyVars, supplyVars, monitorVars, resumeSR, control>>

(* UpdateRetentionVoltages writes the voltage of the "on" state too. *)
ChangeRetention(t) ==
    /\ call[t].op = "retention" /\ call[t].pc = "change"
    /\ SetVoltage(Vd(t), RETENTION)
    /\ IF call[t].restore THEN Monitor(t, TRUE, "drop") ELSE Goto(t, "drop")
    /\ UNCHANGED <<latencyVars, oppVdd, freq, sensor, bEnabled, srLock, resumeSR, control>>

Step(t) ==
    /\ Running
    /\ \/ NextDomain(t) \/ Drop(t) \/ ReturnCall(t)
       \/ TestMonitor(t) \/ SwitchMonitor(t) \/ FlagMonitor(t)
       \/ ChangeVoltage(t) \/ ChangeFrequency(t) \/ NoteOpp(t) \/ ChangeRetention(t)

-----------------------------------------------------------------------------
(***************************************************************************)
(* Drivers: a device's clocks go on and off, at most once each.  Clients   *)
(* of the power domain, suspend state and latency ioctls.                  *)
(***************************************************************************)
SwitchDevice(d) ==
    /\ Running
    /\ d \in CoreDevices \cup OtherDevices
    /\ IF clocks[d] = 0 THEN EnableClocks({d}) ELSE DisableClocks({d})
    /\ UNCHANGED <<promiseVars, sleepVars, target, autoControl, voltageVars>>

(***************************************************************************)
(* OALIoCtlPrcmDomainSetPowerState.  PrcmDomainSetPowerState writes the    *)
(* register and calls UpdateDomainState; for "off" the domain is put into  *)
(* retention and UpdateDomainState called again, so that its last call     *)
(* counts.                                                                 *)
(***************************************************************************)
OALIoCtlPrcmDomainSetPowerState(d, st, logic) ==
    /\ Running
    /\ target' = [target EXCEPT ![d] =
                    IF st = "off" /\ d \in {"mpu", "neon", "per", "core"} THEN "retention" ELSE st]
    /\ UpdateDomainState(d, st, IF d = "core" /\ st = "off" THEN "off" ELSE logic)
    /\ UNCHANGED <<vddOpp, suspendState, constraint, deviceVars, sleepVars, autoControl, voltageVars>>

OALIoCtlPrcmSetSuspendState(s) ==
    /\ Running
    /\ suspendState' = s
    /\ UNCHANGED <<vddOpp, domain, logicCore, inactiveMask, retentionMask, constraint>>
    /\ UNCHANGED <<deviceVars, sleepVars, target, autoControl, voltageVars>>

OALIoCtlInterruptLatencyConstraint(ticks) ==
    /\ Running
    /\ constraint' = ticks
    /\ UNCHANGED <<vddOpp, domain, logicCore, inactiveMask, retentionMask, suspendState>>
    /\ UNCHANGED <<deviceVars, sleepVars, target, autoControl, voltageVars>>

-----------------------------------------------------------------------------
(***************************************************************************)
(* The idle loop: nobody is in an ioctl, none of which blocks.  The time   *)
(* that is left is that of the next timer, or the constraint if shorter.   *)
(***************************************************************************)
Monitored == \E c \in Channel : IsSmartReflexMonitoringEnabled(c)

OEMIdle(delay) ==
    LET limit == IF delay < constraint THEN delay ELSE constraint
        s == FindStateByMaxDelayInTicks(limit)
    IN /\ Running
       /\ \A t \in Caller : call[t] = Idle
       /\ s # NOCPUIDLE
       /\ PushState(s, Monitored)
       /\ cpu' = "idle"
       /\ entered' = [state |-> s, limit |-> limit]
       /\ UNCHANGED <<promiseVars, deviceVars, voltageVars>>

WakeFromIdle ==
    /\ cpu = "idle"
    /\ PopState
    /\ cpu' = "running"
    /\ entered' = [state |-> NOCPUIDLE, limit |-> 0]
    /\ UNCHANGED <<promiseVars, deviceVars, autoControl, voltageVars>>

(***************************************************************************)
(* Suspend and resume.  BSPPowerOff and BSPPowerOn take no lock and call   *)
(* SmartReflex_EnableMonitor for each channel, which does nothing to one   *)
(* that is in the wanted state.                                            *)
(***************************************************************************)
InMonitor == \E c \in Channel : srLock[c] # NoCaller

Suspending == {c \in Channel : Capable /\ IsSmartReflexMonitoringEnabled(c)}

BSPPowerOff ==
    /\ Running
    /\ PreemptMonitor \/ ~ InMonitor
    /\ cpu' = "off"
    /\ resumeSR' = [c \in Channel |-> IsSmartReflexMonitoringEnabled(c)]
    /\ StopMonitor(Suspending)
    /\ bEnabled' = [c \in Channel |-> bEnabled[c] /\ c \notin Suspending]
    /\ UNCHANGED <<promiseVars, saved, entered, target, oppVdd, initVdd, freq, srLock, call, control>>

OEMPowerOff ==
    /\ cpu = "off"
    /\ PushState(GetSuspendState, Monitored)
    /\ cpu' = "suspended"
    /\ entered' = [state |-> GetSuspendState, limit |-> MAX_INT]
    /\ UNCHANGED <<promiseVars, deviceVars, voltageVars>>

Resuming == {c \in Channel : Capable /\ resumeSR[c] /\ ~ bEnabled[c]}

BSPPowerOn ==
    /\ cpu = "suspended"
    /\ PopState
    /\ cpu' = "running"
    /\ entered' = [state |-> NOCPUIDLE, limit |-> 0]
    /\ StartMonitor(Resuming)
    /\ bEnabled' = [c \in Channel |-> bEnabled[c] \/ c \in Resuming]
    /\ UNCHANGED <<promiseVars, oppVdd, initVdd, freq, srLock, resumeSR, call, control>>

-----------------------------------------------------------------------------
Ioctl(t) ==
    \/ \E r \in Requests : OALIoCtlOppRequest(t, r)
    \/ \E b \in BOOLEAN : OALIoCtlSmartReflexControl(t, b)
    \/ OALIoCtlUpdateRetentionVoltages(t)

Settings ==
    \/ \E e \in DomainStates : OALIoCtlPrcmDomainSetPowerState(e.domain, e.state, e.logic)
    \/ \E s \in SuspendStates : OALIoCtlPrcmSetSuspendState(s)
    \/ \E ticks \in Constraints \cup {MAX_INT} : OALIoCtlInterruptLatencyConstraint(ticks)

Power ==
    \/ \E delay \in Delays : OEMIdle(delay)
    \/ WakeFromIdle \/ BSPPowerOff \/ OEMPowerOff \/ BSPPowerOn

Next ==
    \/ \E t \in Caller : Ioctl(t) \/ Step(t)
    \/ \E d \in CoreDevices \cup OtherDevices : SwitchDevice(d)
    \/ Settings
    \/ Power

Spec == Init /\ [][Next]_vars

-----------------------------------------------------------------------------
(* Every variable has its type. *)
Asked == [vdd : Vdd, opp : Nat \ {0}]

CallType ==
    [op : {"none", "opp", "monitor", "retention"},
     pc : {"out", "next", "drop", "test", "switch", "flag", "change", "raised", "lowered", "note"},
     todo : Seq(Asked), request : Seq(Asked),
     restore : BOOLEAN, on : BOOLEAN, back : {"out", "change", "drop"}]

TypeOK ==
    /\ vddOpp \in [Vdd -> Nat] /\ oppVdd \in [Vdd -> Nat]
    /\ domain \in [{"mpu", "core"} -> PowerState] /\ logicCore \in {"on", "off"}
    /\ inactiveMask \subseteq OtherDomain /\ retentionMask \subseteq OtherDomain
    /\ coreDevice \in Nat /\ otherDevice \in Nat /\ clocks \in [Device -> Nat]
    /\ suspendState \in LatencyState /\ constraint \in Nat
    /\ target \in [Domain -> PowerState] /\ saved \in [Domain -> PowerState]
    /\ autoControl \in {"off", "retention", "sleep"}
    /\ cpu \in {"running", "idle", "off", "suspended"}
    /\ entered \in [state : LatencyState \cup {NOCPUIDLE}, limit : Nat]
    /\ volt \in [Vdd -> Nat] /\ initVdd \in [Vdd -> Nat] /\ freq \in [Vdd -> Nat]
    /\ vp \in [Channel -> BOOLEAN] /\ sensor \in [Channel -> Nat]
    /\ bEnabled \in [Channel -> BOOLEAN] /\ resumeSR \in [Channel -> BOOLEAN]
    /\ srLock \in [Channel -> Caller \cup {NoCaller}]
    /\ call \in [Caller -> CallType]
    /\ control \in BOOLEAN

(***************************************************************************)
(* No domain ever runs faster than its supply allows, whenever SmartReflex *)
(* is switched and the system suspends in the middle of a change; only the *)
(* retention voltage that an ioctl may have put in is not enough.          *)
(***************************************************************************)
VoltageSuffices == \A v \in Vdd : volt[v] # RETENTION => freq[v] <= volt[v]

(* A channel that monitors refers to the operating point its domain is at. *)
MonitorMatchesOpp == \A c \in Channel : sensor[c] # 0 => sensor[c] = oppVdd[c]

(***************************************************************************)
(* Outside of SmartReflex_EnableMonitor the flag tells what the hardware   *)
(* does: sensor, voltage processor and the reference count of the clocks.  *)
(***************************************************************************)
FlagTellsHardware ==
    \A c \in Channel : srLock[c] = NoCaller =>
        /\ bEnabled[c] <=> sensor[c] # 0
        /\ bEnabled[c] <=> vp[c]
        /\ clocks[c] = IF bEnabled[c] THEN 1 ELSE 0

(***************************************************************************)
(* SetOpp, UpdateRetentionVoltages, suspend and resume switch SmartReflex  *)
(* off and on again, and leave it as the last control request wanted it.   *)
(***************************************************************************)
ControlKept ==
    cpu = "running" /\ (\A t \in Caller : call[t] = Idle) =>
        \A c \in Channel : bEnabled[c] = (control /\ Capable)

(***************************************************************************)
(* While SmartReflex adapts the voltage, the voltage controller does not   *)
(* lower it by itself when the processor waits.                            *)
(***************************************************************************)
NoAutoUnderMonitor == \A c \in Channel : sensor[c] # 0 => autoControl = "off"

(***************************************************************************)
(* A sleep, chosen or commanded, spares what is in use: the core domain is *)
(* on for a core device, the peripheral domain for another device, and the *)
(* chip is not off when a domain was asked to keep its state.  In a        *)
(* suspend "ignore peripheral and neon power state", and MPU and CORE.     *)
(***************************************************************************)
Used(ds) == \E d \in ds : clocks[d] # 0

SleepSparesUsed ==
    cpu \in {"idle", "suspended"} =>
        /\ Used(CoreDevices \cup Channel) => target["core"] = "on"
        /\ Used(OtherDevices) => target["per"] = "on"
        /\ (retentionMask \cup inactiveMask) \ {"per", "neon"} # {} => entered.state # CHIP_OFF
        /\ cpu = "idle" /\ "retention" \in {domain[d] : d \in {"mpu", "core"}} =>
             entered.state # CHIP_OFF

(***************************************************************************)
(* An idle processor is back in time: the state it is in takes no longer   *)
(* to leave, at the operating points the domains really are at, than the   *)
(* time that is left and the latency constraint allow.                     *)
(***************************************************************************)
WakesInTime ==
    cpu = "idle" => Ticks[Opm(oppVdd["vdd1"], oppVdd["vdd2"])][entered.state] <= entered.limit

(***************************************************************************)
(* While no sleep is on, the framework's notes on the power domains agree  *)
(* with the registers: sleeping leaves no trace in them.                   *)
(***************************************************************************)
NotesMatchRegisters ==
    cpu \in {"running", "off"} =>
        /\ \A d \in {"mpu", "core"} : domain[d] = "inactive" <=> target[d] = "on"
        /\ \A d \in OtherDomain : /\ d \in inactiveMask <=> target[d] = "on"
                                  /\ d \in retentionMask => target[d] = "retention"

(* Suspended, also in the middle of SetOpp, no channel monitors. *)
SuspendedQuietly == cpu = "suspended" => \A c \in Channel : sensor[c] = 0

-----------------------------------------------------------------------------
(***************************************************************************)
(* The inductive invariant behind the properties of voltages and monitors, *)
(* for one caller that is not preempted inside SmartReflex_EnableMonitor.  *)
(***************************************************************************)
OneCaller == (\E t \in Caller : Caller = {t}) /\ ~ PreemptMonitor

Changing == {"raised", "lowered", "note"}
Switching == {"test", "switch", "flag"}

(* What a channel does, or did before the system was suspended. *)
Kept(c) == IF cpu \in {"off", "suspended"} THEN resumeSR[c] ELSE bEnabled[c]

VoltageTypeOK ==
    /\ oppVdd \in [Vdd -> Nat \ {0}]
    /\ volt \in [Vdd -> Nat] /\ initVdd \in [Vdd -> Nat] /\ freq \in [Vdd -> Nat]
    /\ vp \in [Channel -> BOOLEAN] /\ sensor \in [Channel -> Nat]
    /\ bEnabled \in [Channel -> BOOLEAN] /\ resumeSR \in [Channel -> BOOLEAN]
    /\ srLock \in [Channel -> Caller \cup {NoCaller}]
    /\ clocks \in [Device -> Nat]
    /\ cpu \in {"running", "idle", "off", "suspended"}
    /\ call \in [Caller -> CallType]
    /\ control \in BOOLEAN

(* Where a caller stands, what it has and what it can rely on. *)
CallOK(t) ==
    /\ call[t].pc = "out" <=> call[t] = Idle
    /\ call[t].op = "none" <=> call[t].pc = "out"
    /\ call[t].pc \notin {"out", "next"} => call[t].todo # <<>>
    /\ call[t].pc \in Changing => call[t].op = "opp"
    /\ call[t].pc = "change" => call[t].op \in {"opp", "retention"}
    /\ call[t].pc \in Switching =>
         /\ call[t].back \in {"change", "drop"}
         /\ call[t].back = "change" => ~ call[t].on /\ call[t].op # "monitor"
    /\ call[t].pc \in {"switch", "flag"} => Capable /\ (Kept(Vd(t)) <=> ~ call[t].on)
    /\ call[t].pc \in Changing \cup {"change"} => ~ Kept(Vd(t))

CallsOK == \A t \in Caller : CallOK(t)

LocksOK ==
    \A t \in Caller, c \in Channel : srLock[c] = t <=> call[t].pc = "flag" /\ Vd(t) = c

(* Inside of SmartReflex_EnableMonitor the flag is behind the hardware. *)
Lit(c) == IF srLock[c] = NoCaller THEN bEnabled[c] ELSE ~ bEnabled[c]

HardwareOK ==
    \A c \in Channel :
        /\ sensor[c] # 0 <=> Lit(c)
        /\ vp[c] <=> Lit(c)
        /\ clocks[c] = IF Lit(c) THEN 1 ELSE 0

RestOK ==
    \A c \in Channel :
        /\ cpu # "running" => srLock[c] = NoCaller
        /\ cpu \in {"off", "suspended"} => ~ bEnabled[c]
        /\ ~ Capable => ~ bEnabled[c] /\ ~ Kept(c)

(* The supply of a domain that nobody changes, and of one in a change. *)
Steady(v) ==
    /\ freq[v] = oppVdd[v]
    /\ volt[v] \in {RETENTION, oppVdd[v]} /\ initVdd[v] \in {RETENTION, oppVdd[v]}

Changes(t, v) ==
    LET opp == Head(call[t].todo).opp
    IN \/ /\ call[t].pc = "raised"
          /\ volt[v] = opp /\ initVdd[v] = opp /\ freq[v] = oppVdd[v] /\ oppVdd[v] < opp
       \/ /\ call[t].pc = "lowered"
          /\ volt[v] \in {RETENTION, oppVdd[v]} /\ initVdd[v] \in {RETENTION, oppVdd[v]}
          /\ freq[v] = opp /\ opp <= oppVdd[v]
       \/ /\ call[t].pc = "note"
          /\ volt[v] = opp /\ initVdd[v] = opp /\ freq[v] = opp

SupplyOf(t, v) ==
    IF call[t].pc \in Changing /\ Vd(t) = v THEN Changes(t, v) ELSE Steady(v)

SupplyOK == \A t \in Caller, v \in Vdd : SupplyOf(t, v)

(* What is left to do for the monitors to be as the last request asked. *)
Wanted == control /\ Capable

ControlOf(t) ==
    /\ call[t].op = "none" => \A c \in Channel : (Kept(c) <=> Wanted)
    /\ call[t].op \in {"opp", "retention"} =>
         /\ \A c \in Channel : call[t].pc \in {"next", "drop"} \/ c # Vd(t) => (Kept(c) <=> Wanted)
         /\ call[t].restore => Wanted
         /\ call[t].pc \in Changing \cup {"change"} => (call[t].restore <=> Wanted)
         /\ call[t].pc \in Switching =>
              call[t].restore /\ (call[t].back = "drop" => call[t].on)
    /\ call[t].op = "monitor" =>
         /\ call[t].on <=> control
         /\ call[t].todo \in {Both, Tail(Both), <<>>}
         /\ call[t].todo # Both => (Kept("vdd1") <=> Wanted)
         /\ call[t].todo = <<>> => (Kept("vdd2") <=> Wanted)
         /\ call[t].pc = "drop" => (Kept(Vd(t)) <=> Wanted)

ControlOK == \A t \in Caller : ControlOf(t)

IInv ==
    /\ VoltageTypeOK /\ CallsOK /\ LocksOK /\ HardwareOK /\ RestOK /\ SupplyOK /\ ControlOK
    /\ MonitorMatchesOpp /\ NoAutoUnderMonitor

-----------------------------------------------------------------------------
(***************************************************************************)
(* The inductive invariant behind the choice of a sleep, for any callers.  *)
(***************************************************************************)
Sleeping == cpu \in {"idle", "suspended"}

SleepTypeOK ==
    /\ domain \in [{"mpu", "core"} -> PowerState] /\ logicCore \in {"on", "off"}
    /\ inactiveMask \subseteq OtherDomain /\ retentionMask \subseteq OtherDomain
    /\ coreDevice \in Nat /\ otherDevice \in Nat /\ clocks \in [Device -> Nat]
    /\ suspendState \in LatencyState
    /\ target \in [Domain -> PowerState] /\ saved \in [Domain -> PowerState]
    /\ cpu \in {"running", "idle", "off", "suspended"}

(* The framework's counters count the devices that have their clocks. *)
Clocked(ds) == {d \in ds : clocks[d] # 0}
DevicesCounted ==
    /\ coreDevice = Cardinality(Clocked(CoreDevices \cup Channel))
    /\ otherDevice = Cardinality(Clocked(OtherDevices))

(* What a domain's register says, or will say again after the sleep. *)
Awake(d) ==
    IF Sleeping /\ d \in {"mpu", "core", "per", "neon"} THEN saved[d] ELSE target[d]

NotesKept ==
    /\ \A d \in {"mpu", "core"} : domain[d] = "inactive" <=> Awake(d) = "on"
    /\ \A d \in OtherDomain : /\ d \in inactiveMask <=> Awake(d) = "on"
                              /\ d \in retentionMask => Awake(d) = "retention"

(* A caller inside a loop has a domain to work on. *)
WorkOK ==
    /\ call \in [Caller -> CallType]
    /\ \A t \in Caller : call[t].pc \notin {"out", "next"} => call[t].todo # <<>>

SleepIInv == SleepTypeOK /\ WorkOK /\ DevicesCounted /\ NotesKept /\ SleepSparesUsed

(***************************************************************************)
(* The one behind WakesInTime.  It needs a single caller, requests for     *)
(* points that exist, and the shape of the code's table: at a higher point *)
(* the chip wakes up no later.  The framework starts with its note of      *)
(* point 3, which must not be above the point set at boot.                 *)
(***************************************************************************)
RequestsInRange ==
    \A r \in Requests : \A i \in DOMAIN r : r[i].opp <= MaxOpp[r[i].vdd]
TableFalls ==
    /\ \A m, n \in OPM, s \in LatencyState : m <= n => Ticks[n][s] <= Ticks[m][s]
    /\ InitialOpp["vdd1"] >= 3

NoteTypeOK ==
    /\ vddOpp \in [Vdd -> Nat \ {0}] /\ oppVdd \in [Vdd -> Nat \ {0}]
    /\ constraint \in Nat
    /\ entered \in [state : LatencyState \cup {NOCPUIDLE}, limit : Nat]
    /\ call \in [Caller -> CallType]

(* The domains of a request that SetOpp is done with. *)
Done(t) ==
    Len(call[t].request) - Len(call[t].todo)
        + (IF call[t].pc = "drop" \/ (call[t].pc \in Switching /\ call[t].back = "drop")
             THEN 1 ELSE 0)

TodoIsRest(t) ==
    LET k == Len(call[t].request) - Len(call[t].todo)
    IN /\ call[t].request \in Requests
       /\ k \in Nat
       /\ \A i \in DOMAIN call[t].todo : call[t].todo[i] = call[t].request[k + i]
       /\ call[t].pc # "next" => call[t].todo # <<>>

(* A note is never above the point: it is of that point or of a lower one. *)
Noted(v) == vddOpp[v] <= oppVdd[v]

(* The last of the domains of a request that counts for v *)
LastDone(t, v) ==
    \E i \in 1 .. Done(t) :
        /\ call[t].request[i].vdd = v /\ call[t].request[i].opp = oppVdd[v]
        /\ \A j \in 1 .. Done(t) : call[t].request[j].vdd = v => j <= i

ToBeNoted(t) ==
    IF call[t].op = "opp"
      THEN /\ TodoIsRest(t)
           /\ \A v \in Vdd :
                LastDone(t, v)
                \/ (Noted(v) /\ \A j \in 1 .. Done(t) : call[t].request[j].vdd # v)
      ELSE \A v \in Vdd : Noted(v)

TimeIInv ==
    /\ NoteTypeOK /\ WakesInTime
    /\ \A t \in Caller : call[t].op = "none" <=> call[t].pc = "out"
    /\ \A t \in Caller : ToBeNoted(t)
    /\ cpu = "idle" => \A t \in Caller : call[t] = Idle
=============================================================================
