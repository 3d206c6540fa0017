SPECIFICATION Spec
CONSTANTS
    CoreDevices = {"uart1"}
    OtherDevices = {"dss1"}
    OtherDomain = {"per", "neon", "dss"}
    BootDomain <- Boot
    Ticks <- Table
    Delays = {9}
    Caller = {dvfs}
    NoCaller = NoCaller
    MaxOpp <- ThreeAndTwo
    InitialOpp <- ThreeAndTwo
    Requests <- InRange
    Capable = TRUE
    PreemptMonitor = FALSE
    DomainStates <- CoreAndDss
    SuspendStates = {3}
    Constraints = {4}
INVARIANTS
    VoltageSuffices
    MonitorMatchesOpp
    FlagTellsHardware
    ControlKept
    NoAutoUnderMonitor
    SuspendedQuietly
    SleepSparesUsed
    WakesInTime
    NotesMatchRegisters
