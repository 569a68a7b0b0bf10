SPECIFICATION Spec
CONSTANTS
    Senders = {s1}
    DistqNum = 1
    RsvrNum = 1
    Nodes = {"n1", "n2"}
    ConnNum = 3
    NodeOf <- NodeOf3
    Refused = {3}
    Kp = {1,3}
    Quit = {2}
    Silent = {2}
    QueueMax = 2
    PipeMax = 2
    MapMax = 3
    IovMax = 2
    MaxSend = 1
    None = None
INVARIANTS MapExact AckFirst RightNode
PROPERTIES DropsJustified
CHECK_DEADLOCK FALSE
