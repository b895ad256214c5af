CONSTANTS
    t1 = t1
    t2 = t2
    Threads = {t1, t2}
    Nodes = {1, 2, 3}
    K = 2
    M = 1
    Weight <- MCWeight
    Ops = {"put", "remove"}
    MoveCaps = {0}
    Churn = {}
    Fragile = {}
    MaxOps = 2
    MaxLosses = 1
SPECIFICATION ReindexSpec
SYMMETRY ThreadSymmetry
INVARIANTS
    ReindexTypeOK
    WinnerIsBest
    RowCoherent
    AcknowledgedPutsStay
PROPERTIES
    RecoveredReadable
    RestoresNewest
