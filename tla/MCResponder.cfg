CONSTANTS
    Ops = {"open", "close", "plain", "dataIn", "getObject", "getPartial", "copy", "setProp", "sendObject", "sendPartial"}
    Ends <- Undisturbed
    StreamErrors = {"sendPartial"}
    TxnBound = 4
    SegmentBound = 2
    WireBound = 3
    IdWrap = 65536
    SignalBound = 0
SPECIFICATION FairSpec
INVARIANTS ResponseAfterData ReadyForNext NothingRefused SessionsAgree
PROPERTIES CommandAnswered EventsResume
CHECK_DEADLOCK FALSE
