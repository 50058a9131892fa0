SPECIFICATION Spec
CONSTANTS
    Names = {a, b}
    Sizes = {0, 2}
    TxnBound = 5
    SignalBound = 1
    FailBound = 1
INVARIANTS
    DataWhereDescribed
    ContentAsSent
    SizeAgrees
PROPERTIES
    CancelLeavesNothing
    TransactionEnds
CHECK_DEADLOCK FALSE
