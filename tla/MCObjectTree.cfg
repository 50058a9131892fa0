SPECIFICATION Spec
CONSTANTS
    a = a
    b = b
    long = long
    stem = stem
    Names = {a, b, long, stem}
    Wide = {long, stem}
    Cut <- MCCut
    NewNames = {a, b}
    MaxDepth = 2
    Disks <- MCDisks
    UserBound = 3
    HostBound = 1
    FailBound = 1
    RestartBound = 1
    ChangeBound = 3
INVARIANTS
    MapsAgree
    TreeIsDisk
PROPERTIES
    IdentityKept
    EventsDeleteNoFile
CHECK_DEADLOCK FALSE
