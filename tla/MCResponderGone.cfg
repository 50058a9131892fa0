CONSTANTS
    Ops = {"open", "getPartial"}
    Ends <- OnlyCancelled
    StreamErrors = {}
    TxnBound = 2
    SegmentBound = 1
    WireBound = 3
    IdWrap = 65536
    SignalBound = 1
SPECIFICATION Spec
INVARIANTS RequestPresent
CHECK_DEADLOCK FALSE
