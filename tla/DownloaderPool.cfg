SPECIFICATION FairSpec
CONSTANTS
    Count = 3
    Threads = 2
    Listings <- MCListings
    Failable <- MCLastSlot
    DashOn = TRUE
    MaxChunks = 2
INVARIANT TypeOK
INVARIANT NoneLost
INVARIANT AggFresh
INVARIANT WorkersDoneAtReturn
INVARIANT ZeroMeansAllThere
PROPERTY FooterNeverGoesBack
PROPERTY Termination
PROPERTY ImplementsBatch
