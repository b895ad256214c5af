CONSTANTS
    t1 = t1
    t2 = t2
    t3 = t3
    t4 = t4
    c1 = c1
    c2 = c2
    Threads = {t1, t2, t3, t4}
    Conns = {c1, c2}
    None = None
    MaxEvents = 6
SPECIFICATION Spec
INVARIANTS
    TypeOK
    ExclusiveCheckout
    NothingLeaks
    NoLostWakeup
PROPERTIES
    EveryCallReturns
