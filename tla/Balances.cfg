CONSTANTS
    bank = bank
    card = card
    k1 = k1
    k2 = k2
    None = None
    Refused = Refused
    Order <- BankAndCard
    Assets <- TheBank
    Amounts <- LeastAndOne
    Top = 1
    Keys <- TwoKeys
    MaxTime = 1
    MaxRequests = 2
    MaxSendings = 2
    MaxMoves = 2
SPECIFICATION Spec
SYMMETRY KeysAlike
INVARIANTS
    TypeOK
    RetriesApplyOnce
PROPERTIES
    CorrectionsAreInformed
    BalancesAreExact
CHECK_DEADLOCK FALSE
