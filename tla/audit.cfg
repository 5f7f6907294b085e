CONSTANTS
    Days = 3
    MaxLines = 3
    maxEventsPerCollect = 2
    MaxResets = 1
    Faults = {"load", "save", "crash", "removed", "truncate"}
SPECIFICATION FairSpec
INVARIANTS
    IInv
    GivenOnceInOrder
    NothingPassedOver
PROPERTIES
    BacklogDrains
CHECK_DEADLOCK FALSE
