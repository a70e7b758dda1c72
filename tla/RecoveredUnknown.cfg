SPECIFICATION FairSpec
CONSTANTS
    s1 = s1
    w1 = w1
    w2 = w2
    Subscriptions = {s1}
    Intents = {1}
    SubOf <- OneSubscription
    MaxAttempts = 3
    MaxManual = 0
    Workers = {w1, w2}
    ManualReviewThreshold = 2
    StallBeyondDeadline = FALSE
    ExecutionsMayDie = TRUE
PROPERTIES
    UnknownIsResolvedOrEscalated
CHECK_DEADLOCK FALSE
