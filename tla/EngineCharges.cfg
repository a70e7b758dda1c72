SPECIFICATION EngineSpec
CONSTANTS
    s1 = s1
    w1 = w1
    w2 = w2
    a1 = a1
    p1 = p1
    Subscriptions = {s1}
    Intents = {1}
    SubOf <- OneSubscription
    MaxAttempts = 2
    MaxManual = 1
    Workers = {w1, w2}
    Admins = {a1}
    Operators = {p1}
    ManualReviewThreshold = 1
    StallBeyondDeadline = FALSE
    ExecutionsMayDie = TRUE
    StaleProbes = FALSE
    StartsDuringSweep = FALSE
SYMMETRY RequestSymmetry
INVARIANTS
    EngineTypeOK
    ReprocessInvariant
    EveryCancellationIsTold
    AutoSequence
    SucceededIsConfirmed
PROPERTIES
    PaysOnce
    AttemptsOnlyMove
    ReprocessTransitionsAllowed
    SubscriptionTransitionsAllowed
    ToldAgainOnlyByLateRequests
CHECK_DEADLOCK FALSE
