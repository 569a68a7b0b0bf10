SPECIFICATION Spec
CONSTANTS
    Trees = {"btree"}
    NumKeys = 7
    Order = 4
    NoMemory = FALSE
    Kinds = {"list"}
    NumNodes = 3
    Uncalled <- Unused
    RefUsers = {"a", "b"}
    MemSize = 3
    SegLengths = {1, 2}
    MaxRefs = 2
    HashKeys = {1, 2, 3}
    HashLen = 2
    HashMax = 3
    Tasks = {"a", "b", "c", "d", "e"}
    Interval <- a_Interval
    MaxClock = 1
    MaxStops = 1
    XmlMaxDepth = 3
    Names = {"a", "b", "c", "v", "w"}
    Pieces <- a_Pieces
    MaxPieces = 0
    MaxNodes = 1
    MaxEdits = 1
    Pages = 3
    PageShift = 4
    MinShift = 1
    UnitBits = 2
    WordBits = 4
    Allocs = {"slab"}
    SlabSizes = {8}
    ShmSlabSizes = {1, 4, 7, 8}
    PoolSizes = {5, 11}
    MaxCallers = 1
    MaxLive <- a_MaxLive
    MaxShared = 2
    MaxSmall = 5
    MaxFailed = 0
    Scanned = 1
    BlockSize = 24
    MaxBlocks = 4
    MaxLarge = 2
INVARIANT KeysInOrder
