SPECIFICATION FairSpec
CONSTANTS
    r1 = r1
    r2 = r2
    Runs = {r1, r2}
    Clients = {c1, c2, c3}
    Senders = {s1, s2}
    Strangers = {c3}
    RunOf <- MCRunOf
    MaxEvents = 1
INVARIANTS
    RegistryMatchesHandlers
    NoGaps
PROPERTIES
    BroadcastsEnd
    ClosedClientsLeave
\* The clients are gone and the senders have sent their events.
CHECK_DEADLOCK FALSE
