SPECIFICATION Spec
CONSTANTS
    Rsvrs = {"r1", "r2"}
    Subs = {"a", "b", "c"}
    Types = {"x", "y"}
    RsvrOfSub <- a_RsvrOfSub
    GidOfSub <- a_GidOfSub
    SlotOfType <- a_SlotOfType
    Clients = {"a", "b"}
    NumMesgs = 1
    NumPages = 2
    PageSize = 2
    SysBuff = 1
    MaxConns = 2
    MaxKpalive = 1
    Lsvrs = {"l"}
    RsvrNum = 1
    Apps = {"a"}
    MaxAccept = 2
    ConnMax = 1
    SendMax = 2
    PipeMax = 9
    MaxSends = 2
    MaxUnits = 1
    ThreadNum = 2
    Adders = {"m", "n"}
    MaxJobs = 4
    Tsvrs = {"s"}
    SendNum = 1
    RecvMax = 2
    WorkPipe = 1
    Launcher = "m"
    TypeOf <- a_TypeOf
    TooLong = {2}
    Registered = {"x"}
    MaxMesgs = 4
    Ssvrs = {"r", "s"}
    RecvqNum = 2
    QueueMax = 1
    SdtpStarter = "m"
    Callbacks = {"f"}
    SdtpTypes = {"x", "y"}
    MaxRecvs = 2
    Procs = {"p", "q"}
    NumBlocks = 2
    BlockSize = 2
    CallSizes = {2, 3}
    MaxBatch = 2
    MaxAllocs = 3
    Creators = {"c"}
    Attachers = {"d", "e"}
    SegSizes = {1, 2}
    MaxSegs = 3
    MaxCrashes = 3
    Writers = {"a"}
    LogSize = 15
    DumpSizes = {0, 2}
    MaxFile = 2
    MaxLines = 4
    MaxTime = 1
    MaxRemoved = 1
    MaxDropped = 1
INVARIANTS QueuesExact ShmShared SubExact PoolExact Framed AccessExact
PROPERTIES AllHandled SubEnds Flushed Served
CHECK_DEADLOCK FALSE
