CONSTANTS
    Runners = {r1}
    Closers = {c1, c2}
    Groups = {g1, g2}
    NServices = 2
    Options <- MCAllPolicies
    MaxTicks = 3
    Nobody = nobody
    Second = 10
    HalfDuration = 4096
    Other = other
SPECIFICATION FairSpec
INVARIANTS
    ServicesOutliveWork
    FirstFailureIsCause
    FailureReturned
PROPERTIES
    CloseCompletes
    FailureEndsRun
CHECK_DEADLOCK FALSE
