SPECIFICATION Spec
CONSTANTS
    Trees = {"avl", "rb", "btree", "shm_btree"}
    NumKeys = 7
    Order = 3
    NoMemory = TRUE
    Kinds = {"list", "list2", "shm_list"}
    NumNodes = 4
    Uncalled <- Unused
    RefUsers = {"a", "b"}
    MemSize = 3
    SegLengths = {1, 2}
    MaxRefs = 2
    HashKeys = {1, 2, 3}
    HashLen = 2
    HashMax = 3
    Tasks = {"a", "b", "c", "d", "e"}
    Interval <- a_Interval
    MaxClock = 1
    MaxStops = 1
    XmlMaxDepth = 3
    Names = {"a", "b", "c", "v", "w"}
    Pieces <- a_Pieces
    MaxPieces = 6
    MaxNodes = 5
    MaxEdits = 1
    Pages = 3
    PageShift = 4
    MinShift = 1
    UnitBits = 2
    WordBits = 4
    Allocs = {"slab", "shm_slab", "mem_pool"}
    SlabSizes = {1, 4, 7, 8, 17}
    ShmSlabSizes = {1, 4, 7, 8}
    PoolSizes = {5, 11}
    MaxCallers = 2
    MaxLive <- a_MaxLive
    MaxShared = 2
    MaxSmall = 8
    MaxFailed = 0
    Scanned = 1
    BlockSize = 24
    MaxBlocks = 4
    MaxLarge = 2
INVARIANTS MemoryKept XmlExact TimerExact WellFormed WalksExact
PROPERTY Implements
