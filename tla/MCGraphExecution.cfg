SPECIFICATION FairSpec
CONSTANTS
    Graphs <- AllGraphs
    Inputs <- BothResults
    MiddleTypes <- AllMiddleTypes
    MaxLoops = {2}
INVARIANTS
    TypeOK
    GuardedLoopsExit
    LoopCountCountsAgents
    CompletedRunsAreSequential
PROPERTIES
    ExecutionEnds
\* Every run ends.
CHECK_DEADLOCK FALSE
