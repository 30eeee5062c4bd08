SPECIFICATION FairSpec
CONSTANTS
    t1 = t1
    t2 = t2
    i1 = i1
    o1 = o1
    Task = {t1, t2}
    Inbound = {i1}
    Outbound = {o1}
    HeaderLength = 1
    PayloadLength = 1
    DrainLength = 1
INVARIANTS
    TypeOK
    NoLostWakeup
    NoBusyLoop
    CompletedOnce
PROPERTIES
    CallsReturn
