SPECIFICATION Spec
CONSTANTS
    Count = 3
    Threads = 2
    Listings <- MCListings
    Failable <- MCFirstSlot
    DashOn = TRUE
    MaxChunks = 0
INVARIANT WorkersDoneAtReturn
