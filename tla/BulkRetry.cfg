CONSTANTS
    d1 = d1
    d2 = d2
    w1 = w1
    w2 = w2
    p1 = p1
    p2 = p2
    None = None
    Documents <- OneDocument
    Workers <- OneWorker
    Outputs <- OnePurchase
    Verdicts = {TRUE}
    Known <- NothingKnown
    Chunks = 1
    MaxAttempts = 2
    MaxGenerations = 2
    MaxLosses = 0
    Faults = {"crash"}
    Requests = {"cancel","retry"}
    MaxRequests = 2
SPECIFICATION Spec
INVARIANTS
    ProgressCanBeSaved
CHECK_DEADLOCK FALSE
