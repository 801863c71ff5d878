SPECIFICATION SeriesSpec
CONSTANTS
    Prices = {1, 2, 3, 5, 7, 10}
    Rates = {0, 1500, 2000, 5000, 10000}
INVARIANTS
    CommissionIsNearest
    RefundsAddUp
    DriftIsBounded
    SingleRefundIsExact
CHECK_DEADLOCK FALSE
