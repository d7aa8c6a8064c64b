CONSTANTS
    d1 = d1
    d2 = d2
    w1 = w1
    w2 = w2
    p1 = p1
    p2 = p2
    None = None
    Documents <- TwoDocuments
    Workers <- TwoWorkers
    Outputs <- AnyOutcome
    Verdicts = {TRUE}
    Known <- NothingKnown
    Chunks = 1
    MaxAttempts = 1
    MaxGenerations = 2
    MaxLosses = 1
    Faults = {"stall"}
    Requests = {"cancel","retry","resolve","delete"}
    MaxRequests = 1
SPECIFICATION Spec
SYMMETRY AllAlike
INVARIANTS
    TypeOK
    OneTransactionPerPurchase
    SettledHasEvidence
    ClosedBatchIsQuiet
PROPERTIES
    TerminalDocumentsStay
CHECK_DEADLOCK FALSE
