CONSTANTS
    t1 = t1
    t2 = t2
    Threads = {t1, t2}
    k1 = k1
    k2 = k2
    k3 = k3
    Keks = {k1, k2}
    None = None
SPECIFICATION Spec
INVARIANTS
    ObjectsRecoverable
