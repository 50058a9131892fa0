CONSTANTS
    Ops = {"open", "close", "dataIn", "getObject", "copy", "setProp", "sendObject"}
    Ends <- WellHandled
    StreamErrors = {}
    TxnBound = 3
    SegmentBound = 2
    WireBound = 3
    IdWrap = 65536
    SignalBound = 2
SPECIFICATION FairSpec
INVARIANTS RequestIsCommand RequestPresent
PROPERTIES EndedUnanswered
CHECK_DEADLOCK FALSE
