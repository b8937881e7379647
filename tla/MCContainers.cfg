SPECIFICATION Spec
CONSTANTS
    n1 = n1
    n2 = n2
    c1 = c1
    c2 = c2
    c3 = c3
    d1 = d1
    e1 = e1
    None = None
    Name = {n1, n2}
    Call = {c1, c2, c3, d1, e1}
    Tool <- CallTool
    NameOf <- CallName
    MaxFaults = 1
INVARIANTS
    TypeOK
    ReportedKeyInstalled
    CreatesConverge
PROPERTIES
    RunningOnlyReplaced
CHECK_DEADLOCK FALSE
