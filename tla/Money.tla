------------------------------- MODULE Money -------------------------------
(***************************************************************************)
(* The integer arithmetic every money movement rests on: the commission    *)
(* split of an agreed amount (payments/config.py) and the proportional     *)
(* reversal of a refund (core/money.py).  Amounts are minor units; a rate  *)
(* is a number of basis points.                                            *)
(*                                                                         *)
(* Abstraction: allocate divides in Python floats.  As long as the total   *)
(* times the sum of the weights stays below 2^53 the floors and the order  *)
(* of the fractions are those of the exact quotients, which are used here. *)
(***************************************************************************)
EXTENDS Naturals

BasisPoints == 10000

\* Slip: rounded down, as int() alone would.
CommissionDown(amount, rate) == (amount * rate) \div BasisPoints

\* Decimal(amount) * rate rounded to a whole unit, halves away from zero.
CommissionOf(amount, rate) == (2 * amount * rate + BasisPoints) \div (2 * BasisPoints)

\* commission_split: the expert keeps whatever the commission leaves.
CommissionSplit(amount, rate) ==
    LET commission == CommissionOf(amount, rate)
    IN  [commission |-> commission, net |-> amount - commission]

\* Slips: the left-over unit goes to the first share whatever it lost; to nobody;
\* the weights are passed in the wrong order.
FirstCeiling(total, w1, w2) == (total * w1 + w1 + w2 - 1) \div (w1 + w2)
SecondFloor(total, w1, w2) == (total * w2) \div (w1 + w2)
FirstByOther(total, w1, w2) == (total * w2) \div (w1 + w2)

\* allocate(total, [w1, w2]) -- the only call site passes two weights.  Both
\* shares are rounded down; at most one unit is left, and it goes to the share
\* that lost the larger fraction, the first one on a tie (stable sort).
FirstShare(total, w1, w2) ==
    LET weight == w1 + w2
        floor1 == (total * w1) \div weight
        floor2 == (total * w2) \div weight
        first  == (total * w1) % weight >= (total * w2) % weight
    IN  floor1 + (IF first /\ floor1 + floor2 < total THEN 1 ELSE 0)

SecondShare(total, w1, w2) ==
    LET weight == w1 + w2
        floor1 == (total * w1) \div weight
        floor2 == (total * w2) \div weight
        first  == (total * w1) % weight >= (total * w2) % weight
    IN  floor2 + (IF ~first /\ floor1 + floor2 < total THEN 1 ELSE 0)
=============================================================================
