CONSTANTS
    t1 = t1
    t2 = t2
    Threads = {t1, t2}
    Nodes = {1, 2, 3}
    K = 1
    M = 1
    Weight <- MCWeight
    Ops = {"put", "remove", "repair"}
    MoveCaps = {0}
    Churn = {3}
    Fragile = {}
    MaxOps = 4
SPECIFICATION Spec
SYMMETRY ThreadSymmetry
PROPERTIES
    NoSilentOverwrite
