SPECIFICATION Spec
CONSTANTS
    Key = {k1, k2, k3}
    Password = {p, q}
    Nothing = Nothing
    AutoLock = 3
    Timeout = {1, 7}
    TimeSpace = 9
    MaxTime = 5
    MaxWallets = 2
    MaxFaults = 1
SYMMETRY KeySymmetry
INVARIANTS
    KeysOpenable
    ShownIsSaved
    UnlockHolds
PROPERTIES
    RefinesKeyStore
    NoKeyAfterDeadline
CHECK_DEADLOCK FALSE
