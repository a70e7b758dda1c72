SPECIFICATION Spec
CONSTANTS
    s1 = s1
    w1 = w1
    w2 = w2
    Subscriptions = {s1}
    Intents = {1}
    SubOf <- OneSubscription
    MaxAttempts = 4
    MaxManual = 0
    Workers = {w1, w2}
    ManualReviewThreshold = 2
    StallBeyondDeadline = TRUE
    ExecutionsMayDie = TRUE
SYMMETRY WorkerSymmetry
INVARIANTS
    AtMostOneEffectiveCharge
CHECK_DEADLOCK FALSE
