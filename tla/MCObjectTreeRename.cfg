SPECIFICATION Spec
CONSTANTS
    a = a
    b = b
    long = long
    stem = stem
    Names = {a, b, long, stem}
    Wide = {long, stem}
    Cut <- MCCut
    NewNames = {a, b}
    MaxDepth = 2
    Disks <- Folders
    UserBound = 0
    HostBound = 1
    FailBound = 0
    RestartBound = 0
    ChangeBound = 1
PROPERTIES
    RenamedAreWatched
CHECK_DEADLOCK FALSE
