SPECIFICATION Spec
CONSTANTS
    a = a
    b = b
    a1 = a1
    b1 = b1
    None = None
    Call = {a, b}
    Parent <- Nested
    CACHE_TTL = 2
    MaxTime = 1
    MaxFaults = 1
INVARIANT
    ReplyIsOwn
CHECK_DEADLOCK FALSE
