CONSTANTS
    Threads = {t1, t2}
    NoThread = NoThread
    Kids = {k1, k2}
    Ttl = 1
    MinRefresh = 1
    FetchLatency = 1
    Horizon = 3
SPECIFICATION Spec
SYMMETRY Symmetry
INVARIANTS TypeOK LockDiscipline CacheMirrorsIdp IndInv
PROPERTIES KeyServiceSpec HealthyFetchFloor
