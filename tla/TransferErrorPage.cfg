SPECIFICATION Spec
CONSTANTS
    FileLen = 3
    ListedSizes = {3}
    Backends = {"curl"}
    FaultSets = {{"page"}}
    PageLen = 2
INVARIANT SkippedIsComplete
