SPECIFICATION FairSpec
CONSTANTS
    Workflows = {w1}
    hourly = hourly
    Rows <- MCRows
    Templates <- MCTemplates
    Events = {e1}
    Firings = {f1}
    Runs <- MCRuns
    None = None
    Gone = Gone
    Invalid = Invalid
    MaxTriggers = 2
    MaxEdits = 1
    MaxFaults = 1
INVARIANTS
    JobsMatchRows
    RepliesTellOutcome
    EventsActOnce
PROPERTIES
    EventsAreAnswered
    RunsAreExecuted
\* Every event was handled and every firing is over.
CHECK_DEADLOCK FALSE
