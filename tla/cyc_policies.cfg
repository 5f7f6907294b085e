CONSTANTS
    Workers = {w1}
    NTasks = 3
    Disabled = {2}
    NTargets = 2
    Primary = 1
    StopOnCancel = {2}
    RetryCount = 1
    Options <- MCPolicies
    MaxEpoch = 2
    MaxFaults = 2
    MaxRestarts = 0
SPECIFICATION Spec
INVARIANTS
    NilMeansDelivered
    NoTaskVanishes
PROPERTIES
    SentOnce
\* A run that failed stops for good.
CHECK_DEADLOCK FALSE
