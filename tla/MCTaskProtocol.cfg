SPECIFICATION FairSpec
CONSTANTS
    alice = alice
    bob = bob
    t1 = t1
    t2 = t2
    p1 = p1
    p2 = p2
    id = id
    age = age
    d1 = d1
    d2 = d2
    e1 = e1
    addrA = addrA
    addrB = addrB
    old = old
    Template = Template
    Blank = Blank
    Spoilt = Spoilt
    Down = Down
    Empty = Empty
    NoTable = NoTable
    Party = {alice, bob}
    Column = {id, age}
    Address = {addrA, addrB, old}
    AddressOf <- MCAddressOf
    Task = {t1, p1}
    Dataset = {d1, d2, e1}
    HeaderOf <- MCHeaderOf
    Req <- ReqProtocol
    MaxTries = 3
    MaxFaults = 3
    SerialSubmit = TRUE
CHECK_DEADLOCK FALSE
INVARIANTS
    TypeOK
    PastJoiningIsMember
    GrantsCompleteUpToFaults
    UploadIsOwnResult
PROPERTIES
    AllEnd
