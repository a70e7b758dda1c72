SPECIFICATION IdempotencySpec
CONSTANTS
    k1 = k1
    r1 = r1
    r2 = r2
    create = create
    pause = pause
    cancel = cancel
    None = None
    Keys = {k1}
    Requests = {r1, r2}
    Operations = {create, pause, cancel}
    PayloadHash <- RoutesAndBodies
    JoinsTransaction = {create}
    Lease = 1
    TTL = 2
    PoolSize = 4
    OutlivesLease = FALSE
    MaxTime = 4
SYMMETRY RequestSymmetry
INVARIANTS
    RepliesAreOfTheirOperation
CHECK_DEADLOCK FALSE
