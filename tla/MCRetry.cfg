SPECIFICATION Spec
CONSTANTS
    MaxRetries = 3
    TotalTimeout = 8
    LoadingTimeout = 12
    BaseDelay = 1
    MinSleep = 1
    MaxCall = 4
    MaxLate = 1
INVARIANTS TypeOK StartsWithinBudget OverrunBounded GivesUpOnlyWhenSpent
PROPERTIES ExponentialSpacing LoopContract
CHECK_DEADLOCK FALSE
