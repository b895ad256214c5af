CONSTANTS
    t1 = t1
    t2 = t2
    Threads = {t1, t2}
    Nodes = {1, 2, 3}
    K = 1
    M = 1
    Weight <- MCWeight
    Ops = {"put", "get", "repair", "rebalance"}
    MoveCaps = {0}
    Churn = {3}
    Fragile = {}
    MaxOps = 2
    MaxLosses = 1
SPECIFICATION ReindexSpec
SYMMETRY ThreadSymmetry
INVARIANTS
    RowComplete
    CoherentUntilLoss
    LocationsAreTrue
PROPERTIES
    NoRevival
