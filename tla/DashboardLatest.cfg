SPECIFICATION Spec
CONSTANTS
    NumWorkers = 2
    Failable = {}
    NumFiles = 3
    MaxChunks = 1
    MaxTime = 0
    MaxSlots = 2
    Ring = 6
    DL_MIN = 2
    LG_MIN = 3
    HEIGHT_MIN = 20
    Rows = 20
CHECK_DEADLOCK FALSE
INVARIANT LogShowsLatest
