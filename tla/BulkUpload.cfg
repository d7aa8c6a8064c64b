CONSTANTS
    t1 = t1
    t2 = t2
    Tabs <- TwoTabs
    MaxFiles = 2
SPECIFICATION Spec
SYMMETRY TabsAlike
CONSTRAINT CancelledIsCalm
INVARIANTS
    RowsFit
    SubmittedIsStored
    PdfsStandAlone
CHECK_DEADLOCK FALSE
