SPECIFICATION Spec
CONSTANTS
    Graphs <- Polling
    Inputs <- BothResults
    MiddleTypes <- ReviewOnly
    MaxLoops = {1}
INVARIANTS
    LoopsRepeatAtMostMaxLoops
\* Every run ends.
CHECK_DEADLOCK FALSE
