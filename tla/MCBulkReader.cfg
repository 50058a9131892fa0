CONSTANTS
    MaxDataIn = 2
    BufferSize = 5
    StreamBound = 7
    SignalBound = 3
SPECIFICATION FairSpec
INVARIANTS
    TypeOK
    PiecesDisjoint
    InFlightClear
    OffsetStaysGood
    InOrder
    NoStrandedData
    WaitsOnlyForRelease
PROPERTIES
    ImplementsQueue
    AllReleased
    ExitReturns

