SPECIFICATION DispatcherFairSpec
CONSTANTS
    s1 = s1
    s2 = s2
    w1 = w1
    w2 = w2
    Subscriptions = {s1}
    Intents = {1}
    SubOf <- OwnSubscription
    MaxAttempts = 2
    MaxManual = 0
    Workers = {w1, w2}
    QueueWorker = w1
    BatchSize = 1
    MaxLosses = 2
    ManualReviewThreshold = 2
    StallBeyondDeadline = TRUE
    ExecutionsMayDie = TRUE
INVARIANTS
    SucceededIsConfirmed
    OneJobPerIntent
PROPERTIES
    DueIsAttempted
    InFlightEnds
    TimedUnknownIsResolved
CHECK_DEADLOCK FALSE
