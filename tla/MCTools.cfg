SPECIFICATION Spec
CONSTANTS
    ChunkSize = 6
    Overlap = 2
    Texts <- MCTexts
    MaxChars = 10
    MaxAttempts = 2
    Fund <- MCFund
    Investor <- MCInvestor
    Sectors <- MCSectors
    PartOf <- MCPartOf
    Targets <- MCTargets
    Threshold = 500
    TopN = 1
    Catalogues <- MCCatalogues
    Notes <- MCNotes
INVARIANTS
    ChunksKeepText
    ChunksFit
    AlertIsWhole
    ValidatedIsSafe
\* The text is cut, the alert is posted.
CHECK_DEADLOCK FALSE
