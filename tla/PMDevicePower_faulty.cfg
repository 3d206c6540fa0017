SPECIFICATION Spec
CONSTANTS
    t1 = t1
    t2 = t2
    Thread = {t1, t2}
    NoThread = NoThread
    Supported = {0, 3, 4}
    SystemState <- OnOff
    BootState <- On
    Requirement <- JustWhenOn
    Dying <- JustWhenOn
    Wishes = {0, 4}
    Sets <- SetOrUnset
    Answers = {"done", "other", "failed", "unopened"}
    Removable = TRUE
    Present = FALSE
    MaxCalls = 3
SYMMETRY ThreadSymmetry
INVARIANTS
    PendingCounted
    NeverBlamed
CHECK_DEADLOCK FALSE
