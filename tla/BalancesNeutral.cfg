CONSTANTS
    bank = bank
    card = card
    k1 = k1
    k2 = k2
    None = None
    Refused = Refused
    Order <- BankAndCard
    Assets <- TheBank
    Amounts <- One
    Top = 2
    Keys <- OneKey
    MaxTime = 1
    MaxRequests = 3
    MaxSendings = 1
    MaxMoves = 1
SPECIFICATION Spec
INVARIANTS
    TransfersAreNeutral
CHECK_DEADLOCK FALSE
