SPECIFICATION DispatcherFairSpec
CONSTANTS
    s1 = s1
    s2 = s2
    w1 = w1
    w2 = w2
    Subscriptions = {s1, s2}
    Intents = {1, 2}
    SubOf <- OwnSubscription
    MaxAttempts = 1
    MaxManual = 0
    Workers = {w1}
    QueueWorker = w1
    BatchSize = 1
    MaxLosses = 0
    ManualReviewThreshold = 1
    StallBeyondDeadline = FALSE
    ExecutionsMayDie = FALSE
PROPERTIES
    DueIsAttempted
CHECK_DEADLOCK FALSE
