CONSTANTS
    t1 = t1
    t2 = t2
    Threads = {t1, t2}
    Nodes = {1, 2}
    K = 1
    M = 1
    Weight <- MCWeight
    Ops = {"put", "repair"}
    MoveCaps = {0}
    Churn = {}
    Fragile = {}
    MaxOps = 3
    MaxLosses = 1
SPECIFICATION ReindexSpec
SYMMETRY ThreadSymmetry
PROPERTIES
    RestoresNewest
