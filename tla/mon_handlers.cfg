CONSTANTS
    Agents = {1, 2}
    Handlers = {h1, h2}
    MaxTime = 3
    DayLength = 1
    RetentionDays <- MCRetentionDays
    PerAgent <- MCPerAgent
    DefaultThreshold <- MCDefaultThreshold
    BuiltinThreshold = 3
    Ids = {1, 2, 99}
    Unset = unset
    Spaces = spaces
    Garbled = garbled
    AgentInterval = 1
    CheckInterval = 1
    NotifyTimeout = 1
    Skew = 1
    Retention = 9
    Multiplier = 3
    HalfDuration = 8
    Configs <- MCAllConfigured
    MaxCrashes = 0
    Faults = {"write"}
SPECIFICATION Spec
SYMMETRY MCHandlerSymmetry
INVARIANTS
    SnapshotOwned
    LastReportKept
    PageAgrees
