SPECIFICATION MCSpec
CONSTANTS
    r1 = r1
    r2 = r2
    a1 = a1
    a2 = a2
    Agents = {a1, a2}
    Runs = {r1, r2}
    BySlack = {r2}
    Plans <- MCPlans
    Settings <- MCSettings
    Floor = 1
    MaxTurns = 2
    MaxFaults = 1
    Limits = {1, 2, 3}
    Span = 2
    MaxTime = 6
    MaxCalls = 5
INVARIANTS
    NeverTooMany
    RefusedWithCause
    GuardsPrecedeCalls
    UsageAddsUp
    TranscriptFollowsRun
\* The clock and the calls are bounded.
CHECK_DEADLOCK FALSE
