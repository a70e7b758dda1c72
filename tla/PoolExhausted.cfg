SPECIFICATION IdempotencyFairSpec
CONSTANTS
    k1 = k1
    k2 = k2
    r1 = r1
    r2 = r2
    create = create
    pause = pause
    cancel = cancel
    None = None
    Keys = {k1, k2}
    Requests = {r1, r2}
    Operations = {create, pause, cancel}
    PayloadHash <- RoutesAndBodies
    JoinsTransaction = {create}
    Lease = 1
    TTL = 2
    PoolSize = 2
    OutlivesLease = FALSE
    MaxTime = 0
PROPERTIES
    RequestsEnd
CHECK_DEADLOCK FALSE
