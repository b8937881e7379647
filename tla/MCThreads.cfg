SPECIFICATION FairSpec
CONSTANTS
    a = a
    b = b
    a1 = a1
    b1 = b1
    None = None
    Call = {a, a1, b, b1}
    Parent <- Nested
    CACHE_TTL = 2
    MaxTime = 3
    MaxFaults = 1
INVARIANTS
    TypeOK
    FinishedReplyIsOwn
PROPERTIES
    ThreadIsYoung
    AllReturn
CHECK_DEADLOCK FALSE
