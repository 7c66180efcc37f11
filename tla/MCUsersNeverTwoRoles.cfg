\* Requests are bounded, so the system stops: no deadlock check.
CONSTANTS
    ann = ann
    max = max
    bob = bob
    new = new
    w1 = w1
    w2 = w2
    t1 = t1
    t2 = t2
    Users = {ann, max, bob, new}
    NoUser = NoUser
    Threads = {t1, t2}
    Workers = {w1}
    WorkerOf <- SameWorker
    InitialRoles <- Staff
    Operations = {"update"}
    RoleInputs = {"no role", "barista", "manager"}
    BlockInputs = {"absent", "true"}
    Faults = {}
    MaxFaults = 0
    CacheBound = 0
    MaxRequests = 2
SPECIFICATION Spec
INVARIANTS NeverTwoRoles
CHECK_DEADLOCK FALSE
