SPECIFICATION FairSpec
CONSTANTS
    alice = alice
    bob = bob
    carol = carol
    dave = dave
    s1 = s1
    s2 = s2
    s3 = s3
    None = None
    User = {alice, bob, carol, dave}
    Session = {s1, s2, s3}
    Initiator <- Initiators
    Partner <- Partners
    CACHE_TTL = 1
    MaxTime = 1
    Together = {{s1, s2}, {s1, s3}}
    MaxFaults = 1
INVARIANTS
    TypeOK
    ComputedWithinASession
    KeysAreOfThisSession
PROPERTIES
    UndisturbedSessionReports
CHECK_DEADLOCK FALSE
