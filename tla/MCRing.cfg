SPECIFICATION FairSpec
CONSTANTS
    Threads = {t1, t2, t3}
    Value = {a, b}
    Null = Null
    Max = 2
    Word = 64
    Batches = {1, 2}
    MaxCalls = 3
INVARIANTS Inv Delivered NoSlotRace NumAccounting
PROPERTIES RefusalHonest ImplementsFifo ReservationCompletes
