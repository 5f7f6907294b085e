CONSTANTS
    Agents = {1}
    Handlers = {h1}
    MaxTime = 4
    DayLength = 10
    RetentionDays <- MCRetentionDays
    PerAgent <- MCPerAgent
    DefaultThreshold <- MCDefaultThreshold
    BuiltinThreshold = 3
    Ids = {1, 2, 99}
    Unset = unset
    Spaces = spaces
    Garbled = garbled
    AgentInterval = 1
    CheckInterval = 1
    NotifyTimeout = 1
    Skew = 1
    Retention = 9
    Multiplier = 3
    HalfDuration = 8
    Configs <- MCConfigChanges
    MaxCrashes = 2
    Faults = {"save", "hook", "lost"}
SPECIFICATION FairSpec
INVARIANTS
    AlertsRecorded
PROPERTIES
    DownSinceStable
    ImplementsAlertChannel
    AlertsConverge
