CONSTANTS
    Kinds = {"ssh", "nginx", "fail2ban", "http_outcome"}
    MaxBytes = 2
    maxLines = 2
    MaxTime = 1
    Lines = 3
    MaxFaults = 2
    Faults = {"unread", "append", "rotate", "crash", "huge", "short", "renamed", "chmod"}
    Req = {1, 2}
    Shapes <- MCShapes
    Layouts <- MCLayouts
    Owners <- MCOwners
    Users <- MCUsers
SPECIFICATION FairSpec
INVARIANTS
    NothingOverlooked
    ReceiptsAccepted
PROPERTIES
    AgainOnlyIfForgotten
    CaughtUp
CHECK_DEADLOCK FALSE
