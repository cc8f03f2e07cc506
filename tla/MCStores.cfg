SPECIFICATION FairSpec
CONSTANTS
    Calls = {c1, c2, c3}
    a1 = a1
    Agents = {a1}
    Keys = {k1}
    v1 = v1
    v2 = v2
    Values = {v1, v2}
    None = none
    Ops <- MCOps
    MaxChunks = 2
    MaxFaults = 1
INVARIANTS
    TypeOK
    AddIsAllOrNothing
PROPERTIES
    ImplementsMemoryMap
    CallsEndAudited
\* Every call has been made.
CHECK_DEADLOCK FALSE
