SPECIFICATION FairSpec
CONSTANTS
    t1 = t1
    t2 = t2
    Thread = {t1, t2}
    NoThread = NoThread
    Supported = {0, 3, 4}
    SystemState <- OnlyOn
    BootState <- On
    Requirement <- NoRequirement
    Dying <- NoRequirement
    Wishes = {0, 1, 4}
    Sets <- NoSet
    Answers = {"done"}
    Removable = FALSE
    Present = TRUE
    MaxCalls = 5
INVARIANTS
    RacesNoticed
    BooksFollowWishes
PROPERTY EveryCallReturns
CHECK_DEADLOCK FALSE
