SPECIFICATION LiveSpec
CONSTANTS
    s1 = s1
    s2 = s2
    w1 = w1
    w2 = w2
    Amount = 4
    Commission = 1
    RateCommission = 1
    PayoutMin = 1
    RevisionsAllowed = 1
    Staff <- Desk
    Sweepers <- OneWorker
    SweepInTransaction = TRUE
PROPERTY EarnedIsScheduled
CHECK_DEADLOCK FALSE
