---------------------------- MODULE RefundSeries ----------------------------
(***************************************************************************)
(* The refunds of one charge, one after the other, as issue_refund books   *)
(* them: each is split between commission and expert credit on its own, by *)
(* allocate, in the proportion of the order's snapshot, with no memory of  *)
(* how earlier ones were rounded.                                          *)
(***************************************************************************)
EXTENDS Integers, Money

CONSTANTS Prices,  \* amounts an order is agreed at
          Rates    \* commission rates, in basis points

ASSUME SeriesAssumption ==
    /\ Prices \subseteq Nat \ {0}
    /\ Rates \subseteq 0 .. BasisPoints

VARIABLES
    price,       \* Payment.amount_minor
    rate,        \* the rate the order factory used
    booked,      \* Order.commission_amount and expert_amount
    refunded,    \* Payment.refunded_minor
    reversed,    \* the part of it taken from the commission, and from the credit
    count        \* how many refunds there were

seriesVars == <<price, rate, booked, refunded, reversed, count>>

SeriesInit ==
    /\ price \in Prices
    /\ rate \in Rates
    /\ booked = CommissionSplit(price, rate)
    /\ refunded = 0
    /\ reversed = [commission |-> 0, net |-> 0]
    /\ count = 0

\* issue_refund of a, as far as its arithmetic goes.
Refund(a) ==
    /\ a <= price - refunded
    /\ refunded' = refunded + a
    /\ reversed' =
         [commission |-> reversed.commission
                           + FirstShare(a, booked.commission, booked.net),
          net |-> reversed.net + SecondShare(a, booked.commission, booked.net)]
    /\ count' = count + 1
    /\ UNCHANGED <<price, rate, booked>>

SeriesNext == \E a \in 1 .. price : Refund(a)

SeriesSpec == SeriesInit /\ [][SeriesNext]_seriesVars

-----------------------------------------------------------------------------
Abs(n) == IF n < 0 THEN -n ELSE n

\* The commission commission_split books is a whole number of units nearest to
\* rate times amount, the half-way case rounded up, and the rest is the expert's.
CommissionIsNearest ==
    /\ booked.commission \in 0 .. price
    /\ booked.commission + booked.net = price
    /\ LET excess == booked.commission * BasisPoints - price * rate
       IN  -BasisPoints < 2 * excess /\ 2 * excess <= BasisPoints

\* However a charge is refunded in parts, what is taken back from commission
\* and credit adds up to what the student got: allocate loses no unit.
RefundsAddUp == reversed.commission + reversed.net = refunded

\* Each refund is rounded to the nearest unit, so after n refunds the reversed
\* commission is within n/2 units of its exact proportion of the refunded sum.
DriftIsBounded ==
    2 * Abs(reversed.commission * price - refunded * booked.commission) <= count * price

\* A charge refunded in one go gives back exactly the split that was booked.
SingleRefundIsExact == refunded = price /\ count = 1 => reversed = booked
=============================================================================
