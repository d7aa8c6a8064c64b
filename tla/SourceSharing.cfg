SPECIFICATION CountedSpec
CONSTANTS
    w1 = w1
    w2 = w2
    s1 = s1
    s2 = s2
    t1 = t1
    t2 = t2
    purchase = purchase
    None = None
    MaxRequests = 3
    Workers <- OneWorker
    Sources <- TwoSources
    Tx <- TwoTx
    Event <- SameEvent
    MaxAttempts = 1
SYMMETRY SourcesAlike
CHECK_DEADLOCK FALSE
INVARIANTS
    TypeOK
    QueueHasNoLinks
    TwoLinksAreATransfer
PROPERTIES
    DeletionSparesOtherEvidence
