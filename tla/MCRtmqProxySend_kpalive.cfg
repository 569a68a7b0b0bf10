SPECIFICATION Spec
CONSTANTS
    Callers = {c1}
    Tsvr = {t1}
    Types = {y}
    QueueMax = 2
    IOV_MAX = 3
    PipeMax = 1
    Idle = {t1}
    MaxClose = 0
    MaxShort = 1
    MaxSend = 2
INVARIANT KeepaliveSent
CHECK_DEADLOCK FALSE
