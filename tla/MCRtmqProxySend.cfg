SPECIFICATION Spec
CONSTANTS
    Callers = {c1}
    Tsvr = {t1, t2}
    Types = {y}
    QueueMax = 2
    IOV_MAX = 3
    PipeMax = 1
    Idle = {}
    MaxClose = 1
    MaxShort = 0
    MaxSend = 2
SYMMETRY SymTsvr
INVARIANTS SlotsAccounted CallerOrder
CHECK_DEADLOCK FALSE
