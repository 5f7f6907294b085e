CONSTANTS
    Senders = {s1}
    Clients <- MCClients
    Keys <- MCKeys
    Ids <- MCIds
    AllowLists <- MCAllowLists
    TrustForwardedFor = TRUE
    Addr <- MCAddr
    Loopback = 1
    MaxBodyBytes = 1
    DefaultMaxBodyBytes = 9
    TimestampSkew = 0
    DefaultTimestampSkew = 2
    Timeout = 1
    RetryCount = 1
    Half = 32
    MaxTime = 3
    Faults = {"lost", "open", "save", "short"}
SPECIFICATION FairSpec
INVARIANTS
    IInv
    AcknowledgedStored
    StoredWithinSkew
PROPERTIES
    InStepNeverUnauthorized
    ImplementsReportChannel
    SendOneReturns
CHECK_DEADLOCK FALSE
