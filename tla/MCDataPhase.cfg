CONSTANTS
    HeaderSize = 3
    Expansion = 2
    StringLimit = 3
    PacketSize = 2
    WriteMax = 8
    BufferMax = 8
    MaxContent = 14
    FileSizes = {0, 4, 5, 13, 16}
    Offsets = {0, 5, 17}
    Sizes = {0, 4, 13, 17}
    Lists <- MCLists
    Settable = {11}
    Chunks = {3, 5, 8}
    ResizeBound = 1
    FailBound = 2
SPECIFICATION Spec
INVARIANTS TransferWhole DatasetReturns
