CONSTANTS
    MaxDataIn = 2
    BufferSize = 4
    StreamBound = 5
    SignalBound = 2
    ContainerLens = {1, 3}
    MaxHeader = 2
    ResetBound = 2
SPECIFICATION UsbSpec
INVARIANTS
    PacketIsOldestData
    Framing
