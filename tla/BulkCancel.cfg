CONSTANTS
    d1 = d1
    d2 = d2
    w1 = w1
    w2 = w2
    p1 = p1
    p2 = p2
    None = None
    Documents <- OneDocument
    Workers <- OneWorker
    Outputs <- OnePurchase
    Verdicts = {TRUE}
    Known <- NothingKnown
    Chunks = 1
    MaxAttempts = 2
    MaxGenerations = 1
    MaxLosses = 0
    Faults = {"crash"}
    Requests = {"cancel"}
    MaxRequests = 1
SPECIFICATION FairSpec
PROPERTIES
    CancellationEnds
CHECK_DEADLOCK FALSE
