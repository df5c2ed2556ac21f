SPECIFICATION Spec
CONSTANTS
    a1 = a1
    a2 = a2
    p1 = p1
    p2 = p2
    None = None
    Accounts <- MCAccounts
    Procs <- MCProcs
    Settings <- MCReadOnly
INVARIANT LoginUnlocks
