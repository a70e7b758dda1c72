SPECIFICATION PlanSpec
CONSTANTS
    s1 = s1
    x1 = x1
    a1 = a1
    Subscriptions = {s1}
    Intents = {0, 1, 2}
    SubOf <- OneSubscription
    MaxAttempts = 1
    MaxManual = 0
    Admins = {a1}
    Sweepers = {x1}
    NominalDay <- Daily
    BusinessDays = {1, 2}
    ToleranceMinutes = 15
    LastDay = 2
INVARIANTS
    SweepCoversItsCycles
    OverlapFollowsALiveCycle
PROPERTIES
    QuietOnceCancelled
CHECK_DEADLOCK FALSE
