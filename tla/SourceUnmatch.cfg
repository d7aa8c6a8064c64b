SPECIFICATION CountedSpec
CONSTANTS
    w1 = w1
    w2 = w2
    s1 = s1
    s2 = s2
    t1 = t1
    t2 = t2
    purchase = purchase
    None = None
    MaxRequests = 3
    Workers <- OneWorker
    Sources <- OneSource
    Tx <- TwoTx
    Event <- OneEvent
    MaxAttempts = 1
CHECK_DEADLOCK FALSE
PROPERTIES
    UnmatchReturnsToQueue
