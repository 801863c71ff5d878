SPECIFICATION Spec
CONSTANTS
    s1 = s1
    s2 = s2
    w1 = w1
    w2 = w2
    Amount = 4
    Commission = 1
    RateCommission = 1
    PayoutMin = 2
    RevisionsAllowed = 1
    Staff <- Support
    Sweepers <- OneWorker
    SweepInTransaction = TRUE
SYMMETRY Symmetry
INVARIANTS
    TypeOK
    LedgerIdentity
    ChargedOnce
    RefundsOnRecord
    FullRefundUnwinds
    FreezeMatchesStatus
    PayoutNeedsCompletion
    SinglePayout
    NeverOverpaid
    PayoutsReconcile
    MoneyInv
PROPERTIES
    NoTransferInDispute
    CancelledIsFinal
    ImplementsEscrow
CHECK_DEADLOCK FALSE
