SPECIFICATION Spec
CONSTANTS
    s1 = s1
    w1 = w1
    w2 = w2
    Subscriptions = {s1}
    Intents = {1, 2}
    SubOf <- OneSubscription
    MaxAttempts = 3
    MaxManual = 1
    Workers = {w1, w2}
    ManualReviewThreshold = 2
    StallBeyondDeadline = FALSE
    ExecutionsMayDie = TRUE
INVARIANTS
    TypeOK
    AtMostOneEffectiveCharge
    ReopenedOnlyAfterRejection
    InFlightAgrees
    ExecutionOwnsAttempt
    CancellationIsToldOnce
    ChargeInvariant
CHECK_DEADLOCK FALSE
