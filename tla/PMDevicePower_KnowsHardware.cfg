SPECIFICATION Spec
CONSTANTS
    t1 = t1
    t2 = t2
    Thread = {t1, t2}
    NoThread = NoThread
    Supported = {0, 4}
    SystemState <- OnlyOn
    BootState <- On
    Requirement <- NoRequirement
    Dying <- NoRequirement
    Wishes = {0, 4}
    Sets <- NoSet
    Answers = {"done"}
    Removable = FALSE
    Present = TRUE
    MaxCalls = 4
SYMMETRY ThreadSymmetry
INVARIANT KnowsHardware
CHECK_DEADLOCK FALSE
