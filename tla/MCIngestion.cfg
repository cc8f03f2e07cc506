SPECIFICATION Spec
CONSTANTS
    Names = {n1, n2}
    Runs = {a1, a2, g1}
    Agents = {a1, a2}
    Contents = {"rows", "empty", "bad", "unreadable"}
    NoName = none
    MaxUploads = 2
    MaxScans <- MCMaxScans
    MaxFaults = 1
    Seconds = {t1, t2}
SYMMETRY Symmetry
INVARIANTS
    TypeOK
    BatchesHaveCause
    TakenWasAttempted
    LeftBehindNeedsCause
\* The uploads and the scans run out.
CHECK_DEADLOCK FALSE
