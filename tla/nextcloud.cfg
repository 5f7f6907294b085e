CONSTANTS
    maxResult = 2
    Sizes <- MCSizes
    HeadLines = 2
    MaxBytes = 2
    MaxLines = 3
    MaxRotations = 2
    MaxFaults = 1
SPECIFICATION Spec
INVARIANTS
    NothingTwice
    NothingSkipped
    LocalCopyExact
    PutOffOnce
CHECK_DEADLOCK FALSE
