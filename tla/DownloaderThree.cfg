SPECIFICATION Spec
CONSTANTS
    Count = 3
    Threads = 8
    Listings <- MCListings
    Failable <- MCAllSlots
    DashOn = TRUE
    MaxChunks = 0
INVARIANT OneWorkerPerFile
INVARIANT TotalsMatchVerdicts
