CONSTANTS
    w1 = w1
    w2 = w2
    home = home
    office = office
    m1 = m1
    m2 = m2
    n1 = n1
    None = None
    Workers <- TwoWorkers
    Boxes <- OneBox
    Messages <- TwoMessages
    Mail <- HomeMail
    Attached <- WithAttachment
    InitialMax = 1
    HistoryCap = 1
    RecoveryCap = 2
    MaxAttempts = 2
    MaxRuns = 1
SPECIFICATION Spec
SYMMETRY WorkersAlike
INVARIANTS
    TypeOK
    CursorSkipsNothing
    DeletedStaysDeleted
    ParseFindsAttachment
PROPERTIES
    TerminalRunsAreFinal
CHECK_DEADLOCK FALSE
