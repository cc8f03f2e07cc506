SPECIFICATION Spec
CONSTANTS
    Graphs <- OneAgent
    Inputs <- BothResults
    MiddleTypes <- ReviewOnly
    MaxLoops = {1}
INVARIANTS
    FirstAgentGetsTheInput
\* Every run ends.
CHECK_DEADLOCK FALSE
