SPECIFICATION Spec
CONSTANTS
    Senders = {}
    DistqNum = 1
    RsvrNum = 1
    Nodes = {"n1"}
    ConnNum = 2
    NodeOf <- NodeOf2
    Refused = {}
    Kp = {}
    Quit = {}
    Silent = {}
    QueueMax = 2
    PipeMax = 2
    MapMax = 1
    IovMax = 2
    MaxSend = 0
    None = None
INVARIANT MapCovers
CHECK_DEADLOCK FALSE
