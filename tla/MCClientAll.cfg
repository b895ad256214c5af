CONSTANTS
    t1 = t1
    t2 = t2
    Threads = {t1, t2}
    Nodes = {1, 2, 3}
    K = 1
    M = 1
    Weight <- MCWeight
    Ops = {"put", "get", "remove", "repair", "rebalance"}
    MoveCaps = {0, 1}
    Churn = {3}
    Fragile = {2, 3}
    MaxOps = 3
SPECIFICATION Spec
SYMMETRY ThreadSymmetry
INVARIANTS
    TypeOK
    CommittedShardsStored
    StaleReadersServed
    RowComplete
    CoherentUntilRemove
    SurvivesMShardLosses
PROPERTIES
    CommitsHeal
    NoLostUpdates
    PutsSurviveLosses
    ImplementsRegister
