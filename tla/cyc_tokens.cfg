CONSTANTS
    Workers = {w1, w2}
    NTasks = 0
    Disabled = {}
    NTargets = 1
    Primary = 1
    StopOnCancel = {1}
    RetryCount = 0
    Options <- MCLicensed
    MaxEpoch = 2
    MaxFaults = 1
    MaxRestarts = 1
SPECIFICATION FairSpec
PROPERTIES
    DeliveryRecovers
    TokenRecovers
