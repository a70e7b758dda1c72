SPECIFICATION LocksSpec
CONSTANTS
    s1 = s1
    t1 = t1
    t2 = t2
    t3 = t3
    Nothing = Nothing
    Subscriptions = {s1}
    Intents = {1, 2}
    SubOf <- OneSubscription
    Transactions = {t1, t2, t3}
SYMMETRY TransactionSymmetry
INVARIANTS
    DecisionsStand
    LocksInvariant
    OnlyStartsDeadlock
CHECK_DEADLOCK FALSE
