SPECIFICATION FairSpec
CONSTANTS
    Runs = {r1}
    Callers = {c1, c2, c3}
    MaxReviews = 2
    MaxFaults = 1
    MaxCrashes = 1
    MaxResets = 1
INVARIANTS
    StatusTracksTask
    EventsTellTheOutcome
    StuckNeedsCause
    PendingIffWaiting
    ReviewsAreAnswered
PROPERTIES
    TerminalRowFinal
    ImplementsRunStatus
    EveryRunSettles
    AcceptedInputReleases
\* Every task ends and every caller has its answer: the system stops.
CHECK_DEADLOCK FALSE
