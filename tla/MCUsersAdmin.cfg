\* Requests are bounded, so the system stops: no deadlock check.
CONSTANTS
    ann = ann
    max = max
    bob = bob
    new = new
    w1 = w1
    w2 = w2
    t1 = t1
    t2 = t2
    Users = {ann, max, bob, new}
    NoUser = NoUser
    Threads = {t1, t2}
    Workers = {w1, w2}
    WorkerOf <- TwoWorkers
    InitialRoles <- Staff
    Operations = {"read", "create", "update", "delete"}
    RoleInputs = {"no role", "barista", "manager", "administrator", "unlisted"}
    BlockInputs = {"absent", "true"}
    Faults = {"refused", "lost", "unreadable", "crash"}
    MaxFaults = 2
    CacheBound = 0
    MaxRequests = 2
SPECIFICATION Spec
SYMMETRY SwapWorkers
INVARIANTS TypeOK ChainOfCommand AuditTellsTheTruth NoHalfCreatedAccount
PROPERTIES AdministratorsUntouchable JuniorTargetsOnly RoleReplaced
CHECK_DEADLOCK FALSE
