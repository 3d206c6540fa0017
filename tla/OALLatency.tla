----------------------------- MODULE OALLatency -----------------------------
(***************************************************************************)
(* The wake-up latency framework of the OAL (oem_latency.c).  It is told   *)
(* of the operating points of the two voltage domains, of the target       *)
(* states of the power domains and of the devices whose clocks run, and    *)
(* from these picks the state in which the processor may idle or suspend,  *)
(* and writes it to the power domains' registers.                          *)
(*                                                                         *)
(* States are numbered as in the code, 0 (chip off) to 5 (MPU inactive): a *)
(* greater number is a lighter sleep.  The clock and power domain library  *)
(* (PRCM) and the idle loop are not part of the repository and modelled as *)
(* they are used here; OALVoltage adds the operating points and SmartReflex.*)
(***************************************************************************)
EXTENDS Naturals, FiniteSets

CONSTANTS
    CoreDevices,    \* devices that DeviceEnabled counts in _coreDevice, without SR1 and SR2
    OtherDevices,   \* devices that DeviceEnabled counts in _otherDevice
    OtherDomain,    \* power domains besides "mpu" and "core": "per", "neon" and others
    BootDomain,     \* the states that OALPowerPostInit and the first drivers set
    Ticks,          \* _rgLatencyTable: for each OPM, the wake-up time of each state
    Delays          \* bound: time that may be left until the next timer is due

Vdd == {"vdd1", "vdd2"}
Channel == Vdd                          \* a SmartReflex channel for each
Device == CoreDevices \cup OtherDevices \cup Channel
Domain == {"mpu", "core"} \cup OtherDomain
PowerState == {"off", "retention", "inactive", "on"}

CHIP_OFF == 0
CHIP_OSWR == 1
CHIP_CSWR == 2
CORE_CSWR == 3
CORE_INACTIVE == 4
MPU_INACTIVE == 5
NOCPUIDLE == 6                          \* STATE_NOCPUIDLE
LatencyState == CHIP_OFF .. MPU_INACTIVE
OPM == 0 .. 6
MAX_INT == 1 + CHOOSE m \in Delays : \A d \in Delays : d <= m

ASSUME DomainAssumption ==
    /\ {"per", "neon"} \subseteq OtherDomain /\ {"mpu", "core"} \cap OtherDomain = {}
    /\ BootDomain \in [Domain -> {"off", "retention"}]
ASSUME DeviceAssumption ==
    /\ IsFiniteSet(Device)
    /\ CoreDevices \cap OtherDevices = {} /\ Channel \cap (CoreDevices \cup OtherDevices) = {}
ASSUME TicksAssumption == Ticks \in [OPM -> [LatencyState -> Nat]]
ASSUME DelaysAssumption == Delays \subseteq Nat /\ \E m \in Delays : \A d \in Delays : d <= m

VARIABLES
    vddOpp,         \* _vddMpu ("vdd1") and _vddCore ("vdd2")
    domain,         \* _domainMpu and _domainCore
    logicCore,      \* _logicCore: "on" for LOGICRET_DOMAINRET
    inactiveMask,   \* _domainInactiveMask
    retentionMask,  \* _domainRetentionMask
    coreDevice,     \* _coreDevice
    otherDevice,    \* _otherDevice
    suspendState,   \* _suspendState
    constraint,     \* g_wakeupLatencyConstraintTickCount
    clocks,         \* PRCM: how often the clocks of each device were asked for
    target,         \* PM_PWSTCTRL_xxx: the power state of each domain when the CPU waits
    saved,          \* _powerDomainXxxState
    autoControl,    \* PRM_VOLTCTRL: what the voltage controller does by itself
    cpu,            \* where the processor stands
    entered         \* the state that PushState was given, and the time it has

promiseVars == <<vddOpp, domain, logicCore, inactiveMask, retentionMask, suspendState, constraint>>
deviceVars == <<coreDevice, otherDevice, clocks>>
sleepVars == <<saved, cpu, entered>>
latencyVars == <<promiseVars, deviceVars, sleepVars, target, autoControl>>

LatencyInit ==
    /\ vddOpp = [v \in Vdd |-> IF v = "vdd1" THEN 3 ELSE 1]
    /\ domain = [d \in {"mpu", "core"} |-> BootDomain[d]]
    /\ logicCore = "on"
    /\ inactiveMask = {} /\ retentionMask = {d \in OtherDomain : BootDomain[d] = "retention"}
    /\ coreDevice = 0 /\ otherDevice = 0
    /\ suspendState = CHIP_OFF
    /\ constraint = MAX_INT
    /\ clocks = [d \in Device |-> 0]
    /\ target = BootDomain
    /\ saved = BootDomain
    /\ autoControl = "off"
    /\ cpu = "running"
    /\ entered = [state |-> NOCPUIDLE, limit |-> 0]

-----------------------------------------------------------------------------
(* Slips: a lost case, a search from the deepest state, a *)
(* test that is not made, a register that is not restored.                 *)
UpdateOppOfCore(request) ==
    vddOpp' = [vddOpp EXCEPT !["vdd2"] =
                 IF \E i \in DOMAIN request : request[i].vdd = "vdd2" THEN 2 ELSE vddOpp["vdd2"]]

FindDeepestState(delay) ==
    CHOOSE s \in LatencyState :
        /\ Ticks[6][s] <= delay
        /\ \A t \in LatencyState : Ticks[6][t] <= delay => s <= t

AutoControlAlways(s, monitored) ==
    IF s = CHIP_OFF THEN "off" ELSE IF s <= CHIP_CSWR THEN "retention" ELSE "sleep"

PopCoreState ==
    /\ target' = [target EXCEPT !["core"] = saved["core"], !["mpu"] = saved["mpu"]]
    /\ saved' = BootDomain

-----------------------------------------------------------------------------
(* What the framework knows and concludes.                                 *)

(* _mapLatencyIndex *)
Opm(mpu, core) ==
    IF mpu = 1 THEN (IF core = 1 THEN 0 ELSE 1) ELSE IF mpu > 6 THEN 6 ELSE mpu

GetCurrentState ==
    IF domain["mpu"] = "inactive" THEN MPU_INACTIVE
    ELSE IF domain["core"] = "inactive" \/ coreDevice # 0 THEN CORE_INACTIVE
    ELSE IF inactiveMask # {} \/ otherDevice # 0 THEN CORE_CSWR
    ELSE IF \/ "retention" \in {domain["core"], domain["mpu"]}
            \/ retentionMask # {} \/ vddOpp["vdd1"] > 2
         THEN IF logicCore = "on" THEN CHIP_CSWR ELSE CHIP_OSWR
    ELSE CHIP_OFF

GetDelayInTicks(mpu, core, s) == IF s = NOCPUIDLE THEN MAX_INT ELSE Ticks[Opm(mpu, core)][s]

(* The deepest state, from the current one upwards, that leaves in time. *)
FindStateByMaxDelayInTicks(delay) ==
    LET inTime == {s \in GetCurrentState .. MPU_INACTIVE :
                     GetDelayInTicks(vddOpp["vdd1"], vddOpp["vdd2"], s) <= delay}
    IN IF inTime = {} THEN NOCPUIDLE ELSE CHOOSE s \in inTime : \A t \in inTime : s <= t

GetSuspendState ==
    LET mask == (inactiveMask \cup retentionMask) \ {"neon", "per"}
        now == GetCurrentState
    IN IF (mask # {} \/ otherDevice # 0 \/ coreDevice # 0) /\ now > suspendState
       THEN now ELSE suspendState

-----------------------------------------------------------------------------
(* Notifications. *)

UpdateOpp(request) ==
    vddOpp' = [v \in Vdd |->
        LET last == {i \in DOMAIN request : /\ request[i].vdd = v
                                            /\ \A j \in DOMAIN request :
                                                 request[j].vdd = v => j <= i}
        IN IF last = {} THEN vddOpp[v] ELSE request[CHOOSE i \in last : TRUE].opp]

UpdateDomainState(d, st, logic) ==
    LET asked == IF st = "on" THEN "inactive" ELSE st
    IN \/ /\ d = "mpu"
          /\ domain' = [domain EXCEPT !["mpu"] =
                           IF st = "retention" /\ logic # "on" THEN "off" ELSE asked]
          /\ UNCHANGED <<logicCore, inactiveMask, retentionMask>>
       \/ /\ d = "core"
          /\ domain' = [domain EXCEPT !["core"] = asked]
          /\ logicCore' = logic
          /\ UNCHANGED <<inactiveMask, retentionMask>>
       \/ /\ d \in OtherDomain
          /\ inactiveMask' = IF st = "on" THEN inactiveMask \cup {d} ELSE inactiveMask \ {d}
          /\ retentionMask' = IF st = "retention" THEN retentionMask \cup {d}
                              ELSE retentionMask \ {d}
          /\ UNCHANGED <<domain, logicCore>>

Less(n, k) == IF k <= n THEN n - k ELSE 0

(* The clocks of the devices in ds go on, or off. *)
DeviceEnabled(ds, on) ==
    LET core == Cardinality(ds \ OtherDevices)
        other == Cardinality(ds \cap OtherDevices)
    IN /\ coreDevice' = IF on THEN coreDevice + core ELSE Less(coreDevice, core)
       /\ otherDevice' = IF on THEN otherDevice + other ELSE Less(otherDevice, other)

(* PrcmDeviceEnableClocks: counts the requests and notifies of the first and the last. *)
EnableClocks(ds) ==
    /\ clocks' = [d \in Device |-> IF d \in ds THEN clocks[d] + 1 ELSE clocks[d]]
    /\ DeviceEnabled({d \in ds : clocks[d] = 0}, TRUE)

DisableClocks(ds) ==
    /\ clocks' = [d \in Device |-> IF d \in ds THEN Less(clocks[d], 1) ELSE clocks[d]]
    /\ DeviceEnabled({d \in ds : clocks[d] = 1}, FALSE)

-----------------------------------------------------------------------------
(* The registers. *)

(* Set by the voltage controller unless SmartReflex monitors. *)
AutoControl(s, monitored) ==
    IF monitored THEN autoControl
    ELSE IF s = CHIP_OFF THEN "off" ELSE IF s <= CHIP_CSWR THEN "retention" ELSE "sleep"

PushState(s, monitored) ==
    LET chip == IF s = CHIP_OFF THEN "off" ELSE "retention"
        Pushed(d) == IF s <= CHIP_CSWR THEN chip
                     ELSE IF s = MPU_INACTIVE \/ d = "per" THEN "on"
                     ELSE IF d = "core" THEN IF s = CORE_CSWR THEN "retention" ELSE "on"
                     ELSE target[d]
    IN /\ saved' = target
       /\ target' = [d \in Domain |-> IF d \in {"mpu", "core", "per", "neon"}
                                      THEN Pushed(d) ELSE target[d]]
       /\ autoControl' = AutoControl(s, monitored)

(* What was saved is not used again; it is forgotten to keep the states few. *)
PopState ==
    /\ target' = [d \in Domain |-> IF d \in {"mpu", "core", "per", "neon"}
                                   THEN saved[d] ELSE target[d]]
    /\ saved' = BootDomain
=============================================================================
