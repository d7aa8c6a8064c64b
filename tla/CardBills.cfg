CONSTANTS
    b1 = b1
    b2 = b2
    t1 = t1
    t2 = t2
    x1 = x1
    x2 = x2
    p1 = p1
    k1 = k1
    k2 = k2
    None = None
    Bills <- TwoBills
    Debits <- TwoDebits
    Spare <- OneSpare
    Purchases <- OnePurchase
    Amounts <- TwoAmounts
    Misfits <- NoAmount
    Statements <- Ordinary
    Keys <- OneKey
    MaxRequests = 2
    MaxTouches = 2
    MaxRows = 2
SPECIFICATION Spec
SYMMETRY Alike
INVARIANTS
    TypeOK PaidIsExactAndExcluded SelectionIsHonoured RepeatsChangeNothing
PROPERTIES
    DecisionsAreInformed
CHECK_DEADLOCK FALSE
