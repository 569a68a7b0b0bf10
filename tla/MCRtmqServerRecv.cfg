SPECIFICATION FairSpec
CONSTANTS
    c1 = c1
    c2 = c2
    r1 = r1
    None = None
    Conns = {c1, c2}
    Rsvrs = {r1}
    RsvrOf <- MCRsvrOf
    Stream <- MCStream
    Refused = {c2}
    Quit = {c1}
    WorkNum = 1
    HdlQnum = 2
    QueueMax = 1
    BuffLen = 4
    BuffNum = 7
    PipeMax = 1
    MaxIdle = 1
INVARIANTS
    BuffersCounted
    Intact
    HandledInOrder
PROPERTIES
    AcceptedHandled
CHECK_DEADLOCK FALSE
