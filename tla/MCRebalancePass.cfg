CONSTANTS
    p1 = p1
    p2 = p2
    Nodes = {1, 2, 3, 4}
    K = 1
    M = 1
    Ids <- MCIds
    WeightOf <- MCWeightOf
    Passes = {p1, p2}
    Scopes <- MCScopes
    Memberships = {{1, 2, 3, 4}, {1, 2, 3}}
    Failing = {3}
    MaxChanges = 1
SPECIFICATION Spec
INVARIANTS
    TypeOK
    BudgetHolds
PROPERTIES
    CommitsImprove
    SettlingIsMonotone
    ChurnIsBounded
    MovableObjectsSettle
