CONSTANTS
    Ops = {"open", "plain", "getThumb", "getObject", "setProp", "sendObject"}
    Ends <- CancelledOrReset
    StreamErrors = {"getObject", "sendObject"}
    TxnBound = 3
    SegmentBound = 1
    WireBound = 9
    IdWrap = 65536
    SignalBound = 2
SPECIFICATION FairSpec
PROPERTIES HandlerReturns
CHECK_DEADLOCK FALSE
