SPECIFICATION FairSpec
CONSTANTS
    alice = alice
    bob = bob
    k1 = k1
    k2 = k2
    k3 = k3
    r1 = r1
    r2 = r2
    r3 = r3
    r4 = r4
    r5 = r5
    NoUser = NoUser
    NoKey = NoKey
    Absent = Absent
    NoFile = NoFile
    Truncated = Truncated
    User = {alice, bob}
    Key = {k1, k2, k3}
    Request = {r1, r3, r4}
    Req <- ReqMixed
    MaxInFlight = 3
    MaxCrashes = 1
    MaxFaults = 1
CHECK_DEADLOCK FALSE
INVARIANTS
    TypeOK
    DurableWhenQuiet
    IdentityIsGenuine
    TargetIdentityUsed
PROPERTIES
    AllServed
