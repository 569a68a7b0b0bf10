SPECIFICATION FairSpec
CONSTANTS
    Senders = {s1}
    DistqNum = 1
    RsvrNum = 2
    Nodes = {"n1"}
    ConnNum = 2
    NodeOf <- NodeOf2
    Refused = {}
    Kp = {}
    Quit = {1}
    Silent = {}
    QueueMax = 2
    PipeMax = 2
    MapMax = 3
    IovMax = 2
    MaxSend = 2
    None = None
INVARIANTS BlocksAccounted ConnOrder
PROPERTIES Settles
CHECK_DEADLOCK FALSE
