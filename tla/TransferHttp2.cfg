SPECIFICATION Spec
CONSTANTS
    FileLen = 3
    ListedSizes = {3}
    Backends = {"curl"}
    FaultSets = {{"http2"}}
    PageLen = 2
INVARIANT FullReplyReplaces
