SPECIFICATION FairSpec
CONSTANTS
    Callers = {c1}
    Tsvr = {t1}
    Types = {y}
    QueueMax = 2
    IOV_MAX = 3
    PipeMax = 1
    Idle = {t1}
    MaxClose = 1
    MaxShort = 1
    MaxSend = 2
INVARIANTS Framed AuthFirst KeepaliveOutstanding
PROPERTY QueueDrains
CHECK_DEADLOCK FALSE
