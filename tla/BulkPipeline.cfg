CONSTANTS
    d1 = d1
    d2 = d2
    w1 = w1
    w2 = w2
    p1 = p1
    p2 = p2
    None = None
    Documents <- OneDocument
    Workers <- TwoWorkers
    Outputs <- OnePurchase
    Verdicts = {TRUE, FALSE}
    Known <- NothingKnown
    Chunks = 2
    MaxAttempts = 2
    MaxGenerations = 1
    MaxLosses = 1
    Faults = {"crash"}
    Requests = {}
    MaxRequests = 0
SPECIFICATION FairSpec
INVARIANTS
    NothingParsedIsLost
PROPERTIES
    DocumentsSettle
CHECK_DEADLOCK FALSE
