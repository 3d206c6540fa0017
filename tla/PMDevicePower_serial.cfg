SPECIFICATION Spec
CONSTANTS
    t1 = t1
    t2 = t2
    Thread = {t1, t2}
    NoThread = NoThread
    Supported = {0, 3, 4}
    SystemState <- AllStates
    BootState <- On
    Requirement <- Both
    Dying <- Both
    Wishes = {}
    Sets <- SetOrUnset
    Answers = {"done"}
    Removable = FALSE
    Present = TRUE
    MaxCalls = 8
SYMMETRY ThreadSymmetry
INVARIANTS
    LastWordWins
CHECK_DEADLOCK FALSE
