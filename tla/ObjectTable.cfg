SPECIFICATION Spec
CONSTANTS
    n1 = n1
    n2 = n2
    n3 = n3
    n4 = n4
    Names = {n1, n2, n3, n4}
    Values = {"v", "w"}
    hash_string <- MCHash
    StartCap = 2
INVARIANT TableOK
PROPERTY ImplementsMap
