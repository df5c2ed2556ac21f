SPECIFICATION Spec
CONSTANTS
    NumWorkers = 3
    Failable = {2}
    NumFiles = 2
    MaxChunks = 2
    MaxTime = 1
    MaxSlots = 2
    Ring = 4
    DL_MIN = 1
    LG_MIN = 4
    HEIGHT_MIN = 19
    Rows = 19
CHECK_DEADLOCK FALSE
INVARIANT TypeOK
INVARIANT RingIsTail
INVARIANT PanelTruth
INVARIANT RowBudget
INVARIANT FinalFrame
INVARIANT NoUseAfterDestroy
