CONSTANTS
    Kinds = {"http_outcome"}
    MaxBytes = 2
    maxLines = 2
    MaxTime = 1
    Lines = 3
    MaxFaults = 0
    Faults = {}
    Req = {1, 2, 3}
    Shapes <- MCShapes
    Layouts <- MCLayouts
    Owners <- MCOwners
    Users <- MCUsers
SPECIFICATION FairSpec
PROPERTIES
    ReceiptSentOnce
CHECK_DEADLOCK FALSE
