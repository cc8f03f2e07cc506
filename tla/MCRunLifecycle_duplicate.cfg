SPECIFICATION Spec
CONSTANTS
    Runs = {r1}
    Callers = {c1, c2}
    MaxReviews = 1
    MaxFaults = 0
    MaxCrashes = 0
    MaxResets = 0
INVARIANTS
    AcceptedInputIsInjected
\* Every task ends and every caller has its answer: the system stops.
CHECK_DEADLOCK FALSE
