CONSTANTS
    Runners = {r1, r2}
    Closers = {c1, c2}
    Groups = {g1}
    NServices = 1
    Options <- MCIntervals
    MaxTicks = 1
    Nobody = nobody
    Second = 10
    HalfDuration = 4096
    Other = other
SPECIFICATION Spec
SYMMETRY MCPairSymmetry
INVARIANTS
    WorkIsGuarded
    ClosedMeansIdle
CHECK_DEADLOCK FALSE
