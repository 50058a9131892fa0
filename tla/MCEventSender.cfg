CONSTANTS
    MaxEventsStored = 2
    MaxSendFailures = 2
    Stops = {"reset", "close", "error"}
    EventBound = 3
    StopBound = 1
    SessionBound = 2
SPECIFICATION FairSpec
INVARIANTS
    ResultExpected
    EventsInOrder
PROPERTIES
    AwaitEnds
