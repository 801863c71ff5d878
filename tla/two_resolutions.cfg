SPECIFICATION Spec
CONSTANTS
    s1 = s1
    s2 = s2
    w1 = w1
    w2 = w2
    Amount = 3
    Commission = 1
    RateCommission = 1
    PayoutMin = 2
    RevisionsAllowed = 1
    Staff <- Support
    Sweepers <- OneWorker
    SweepInTransaction = TRUE
PROPERTY ResolvedStaysResolved
CHECK_DEADLOCK FALSE
