SPECIFICATION Spec
CONSTANTS
    Callers = {c1}
    Tsvr = {t1}
    Types = {y}
    QueueMax = 2
    IOV_MAX = 3
    PipeMax = 1
    Idle = {}
    MaxClose = 0
    MaxShort = 0
    MaxSend = 2
INVARIANT WiovWithinBounds
CHECK_DEADLOCK FALSE
