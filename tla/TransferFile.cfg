SPECIFICATION RerunSpec
CONSTANTS
    FileLen = 3
    ListedSizes = {0, 3, 4}
    Backends = {"curl", "winhttp"}
    FaultSets = {{}, {"page"}, {"page", "http2", "lost_write"}}
    PageLen = 2
INVARIANT TypeOK
INVARIANT LocalIsPrefix
INVARIANT SettledIsComplete
INVARIANT ProgressTruth
INVARIANT FullReplyReplacesOnHttp1
PROPERTY KeepsGround
PROPERTY CompleteIsKept
PROPERTY RunEnds
PROPERTY Recovers
