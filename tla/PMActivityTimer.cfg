SPECIFICATION FairSpec
CONSTANTS
    N = 3
    Timeout <- TwoInUse
    Modulus = 100
    Late = 1
    MaxWait = 2
    MaxIdle = 2
    MaxResumes = 1
INVARIANTS
    NobodyForgotten
PROPERTIES
    NeverEarly
    UnusedExpires
    ResetRevives
