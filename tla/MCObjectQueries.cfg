CONSTANTS
    Stores <- TwoStores
    Names = {"a", "b"}
    Pictures = {"a"}
    AtFirst <- FolderAndFile
    Settable = {"name", "title"}
    Single = {"sample"}
    HandleBound = 3
    HostBound = 1
    AskBound = 1
    UserBound = 1
    EditBound = 3
    StepBound = 4
    FailBound = 1
SPECIFICATION FairSpec
INVARIANTS CacheTruthful ChangesTold
PROPERTIES NoFetchAtWork RequestsFetched
CHECK_DEADLOCK FALSE
