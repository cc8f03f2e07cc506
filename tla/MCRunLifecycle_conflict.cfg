SPECIFICATION Spec
CONSTANTS
    Runs = {r1}
    Callers = {c1}
    MaxReviews = 1
    MaxFaults = 0
    MaxCrashes = 0
    MaxResets = 0
INVARIANTS
    ConflictMeansReviewOver
\* Every task ends and every caller has its answer: the system stops.
CHECK_DEADLOCK FALSE
