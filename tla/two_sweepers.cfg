SPECIFICATION Spec
CONSTANTS
    s1 = s1
    s2 = s2
    w1 = w1
    w2 = w2
    Amount = 3
    Commission = 1
    RateCommission = 1
    PayoutMin = 2
    RevisionsAllowed = 1
    Staff <- Desk
    Sweepers <- TwoWorkers
    SweepInTransaction = TRUE
INVARIANT SinglePayout
CHECK_DEADLOCK FALSE
