---------------------------- MODULE MoneyProofs ----------------------------
(***************************************************************************)
(* What the arithmetic of Money guarantees for every amount, rate and pair *)
(* of weights.                                                             *)
(***************************************************************************)
EXTENDS Money, Integers, TLAPS

\* Division with remainder, in the one form the provers need it.
LEMMA Division ==
    ASSUME NEW n \in Nat, NEW w \in Nat, w > 0
    PROVE  /\ n \div w \in Nat
           /\ n % w \in 0 .. w - 1
           /\ n = w * (n \div w) + (n % w)
  OBVIOUS

\* Two products of naturals are naturals.
LEMMA ProductIsNat ==
    ASSUME NEW m \in Nat, NEW n \in Nat
    PROVE  m * n \in Nat
  OBVIOUS

\* A multiple of w that lies strictly between -w and 2w is 0 or w.
LEMMA SmallMultiple ==
    ASSUME NEW w \in Nat, NEW k \in Int, w > 0, w * k >= 0, w * k < 2 * w
    PROVE  k \in {0, 1}
  <1>1. k > -1
    <2>1. SUFFICES ASSUME k <= -1 PROVE FALSE
      OBVIOUS
    <2>2. w * k <= w * (-1)
      BY <2>1
    <2> QED BY <2>2
  <1>2. k < 2
    <2>1. SUFFICES ASSUME k >= 2 PROVE FALSE
      OBVIOUS
    <2>2. w * k >= w * 2
      BY <2>1
    <2> QED BY <2>2
  <1> QED BY <1>1, <1>2

\* What rounding both shares down leaves: nothing, or one unit, when the two
\* remainders make up one whole weight.
LEMMA LeftOver ==
    ASSUME NEW total \in Nat, NEW w1 \in Nat, NEW w2 \in Nat, w1 + w2 > 0
    PROVE  LET w == w1 + w2
               f1 == (total * w1) \div w
               f2 == (total * w2) \div w
               r1 == (total * w1) % w
               r2 == (total * w2) % w
           IN  /\ f1 \in Nat /\ r1 \in 0 .. w - 1 /\ total * w1 = w * f1 + r1
               /\ f2 \in Nat /\ r2 \in 0 .. w - 1 /\ total * w2 = w * f2 + r2
               /\ \/ f1 + f2 = total /\ r1 + r2 = 0
                  \/ f1 + f2 = total - 1 /\ r1 + r2 = w
  <1> DEFINE w == w1 + w2
             f1 == (total * w1) \div w
             f2 == (total * w2) \div w
             r1 == (total * w1) % w
             r2 == (total * w2) % w
             rest == total - (f1 + f2)
  <1>1. w \in Nat /\ w > 0
    OBVIOUS
  <1>2. f1 \in Nat /\ r1 \in 0 .. w - 1 /\ total * w1 = w * f1 + r1
    <2>1. total * w1 \in Nat
      BY ProductIsNat
    <2> QED BY <2>1, <1>1, Division
  <1>3. f2 \in Nat /\ r2 \in 0 .. w - 1 /\ total * w2 = w * f2 + r2
    <2>1. total * w2 \in Nat
      BY ProductIsNat
    <2> QED BY <2>1, <1>1, Division
  <1>4. rest \in Int /\ w * rest = r1 + r2
    <2> HIDE DEF f1, f2, r1, r2
    <2>1. total * w = total * w1 + total * w2
      OBVIOUS
    <2>2. w * rest = total * w - w * f1 - w * f2
      BY <1>1, <1>2, <1>3
    <2> QED BY <2>1, <2>2, <1>1, <1>2, <1>3
  <1>5. rest \in {0, 1}
    <2> HIDE DEF w, rest, r1, r2
    <2>1. w * rest >= 0 /\ w * rest < 2 * w
      BY <1>1, <1>2, <1>3, <1>4
    <2> QED BY <2>1, <1>1, <1>4, SmallMultiple
  <1>6. \/ f1 + f2 = total /\ r1 + r2 = 0
        \/ f1 + f2 = total - 1 /\ r1 + r2 = w
    <2> HIDE DEF w, f1, f2, r1, r2
    <2> QED BY <1>1, <1>2, <1>3, <1>4, <1>5
  <1> QED BY <1>2, <1>3, <1>6

\* allocate (core/money.py) gives out the whole total: the two shares are
\* natural numbers and add up to it, whatever the weights.
THEOREM SharesAddUp ==
    ASSUME NEW total \in Nat, NEW w1 \in Nat, NEW w2 \in Nat, w1 + w2 > 0
    PROVE  /\ FirstShare(total, w1, w2) \in Nat
           /\ SecondShare(total, w1, w2) \in Nat
           /\ FirstShare(total, w1, w2) + SecondShare(total, w1, w2) = total
  <1> DEFINE w == w1 + w2
             f1 == (total * w1) \div w
             f2 == (total * w2) \div w
             r1 == (total * w1) % w
             r2 == (total * w2) % w
  <1>1. f1 \in Nat /\ f2 \in Nat /\ f1 + f2 \in {total, total - 1}
    BY LeftOver
  <1>2. /\ FirstShare(total, w1, w2) = f1 + (IF r1 >= r2 /\ f1 + f2 < total THEN 1 ELSE 0)
        /\ SecondShare(total, w1, w2) = f2 + (IF ~(r1 >= r2) /\ f1 + f2 < total THEN 1 ELSE 0)
    BY DEF FirstShare, SecondShare
  <1> HIDE DEF w, f1, f2, r1, r2
  <1> QED BY <1>1, <1>2

\* allocate rounds the first share to the nearest unit of its exact proportion.
LEMMA ShareIsNearest ==
    ASSUME NEW total \in Nat, NEW w1 \in Nat, NEW w2 \in Nat, w1 + w2 > 0
    PROVE  LET off == FirstShare(total, w1, w2) * (w1 + w2) - total * w1
           IN  -(w1 + w2) <= 2 * off /\ 2 * off <= w1 + w2
  <1> DEFINE w == w1 + w2
             f1 == (total * w1) \div w
             f2 == (total * w2) \div w
             r1 == (total * w1) % w
             r2 == (total * w2) % w
             extra == IF r1 >= r2 /\ f1 + f2 < total THEN 1 ELSE 0
  <1>1. w \in Nat /\ w > 0
    OBVIOUS
  <1>2. /\ f1 \in Nat /\ r1 \in 0 .. w - 1 /\ total * w1 = w * f1 + r1
        /\ f2 \in Nat /\ r2 \in 0 .. w - 1
        /\ \/ f1 + f2 = total /\ r1 + r2 = 0
           \/ f1 + f2 = total - 1 /\ r1 + r2 = w
    BY LeftOver
  <1>3. FirstShare(total, w1, w2) = f1 + extra
    BY DEF FirstShare
  <1> HIDE DEF w, f1, f2, r1, r2
  <1>4. \/ extra = 0 /\ 2 * r1 <= w
        \/ extra = 1 /\ w <= 2 * r1
    BY <1>1, <1>2
  <1> HIDE DEF extra
  <1>5. (f1 + extra) * w - total * w1 = w * extra - r1
    <2>1. extra \in Int
      BY <1>4
    <2>2. (f1 + extra) * w = w * f1 + w * extra
      BY <1>1, <1>2, <2>1
    <2> QED BY <1>1, <1>2, <2>1, <2>2
  <1>6. -w <= 2 * (w * extra - r1) /\ 2 * (w * extra - r1) <= w
    BY <1>1, <1>2, <1>4
  <1> QED BY <1>3, <1>5, <1>6 DEF w

\* A part of the whole never gets more than its weight out of allocate.
LEMMA ShareWithinWeight ==
    ASSUME NEW total \in Nat, NEW w1 \in Nat, NEW w2 \in Nat,
           w1 + w2 > 0, total <= w1 + w2
    PROVE  SecondShare(total, w1, w2) <= w2
  <1> DEFINE w == w1 + w2
             first == FirstShare(total, w1, w2)
             second == SecondShare(total, w1, w2)
  <1>1. first \in Nat /\ second \in Nat /\ first + second = total
    BY SharesAddUp
  <1>2. -w <= 2 * (first * w - total * w1)
    BY ShareIsNearest
  <1> HIDE DEF first, second
  <1>3. w \in Nat /\ w > 0 /\ w = w1 + w2 /\ total <= w
    OBVIOUS
  <1> HIDE DEF w
  <1>4. second * w = total * w - first * w /\ total * w = total * w1 + total * w2
    BY <1>1, <1>3
  <1>5. total * w2 <= w * w2
    BY <1>3
  <1>6. 2 * (second * w) <= 2 * (w * w2) + w
    <2>1. /\ first * w \in Nat /\ second * w \in Nat /\ total * w \in Nat
          /\ total * w1 \in Nat /\ total * w2 \in Nat /\ w * w2 \in Nat
      BY <1>1, <1>3, ProductIsNat
    <2> QED BY <2>1, <1>2, <1>3, <1>4, <1>5
  <1>7. second <= w2
    <2>1. SUFFICES ASSUME second >= w2 + 1 PROVE FALSE
      BY <1>1
    <2>2. second * w >= (w2 + 1) * w /\ (w2 + 1) * w = w * w2 + w
      BY <1>1, <1>3, <2>1
    <2>3. second * w \in Nat /\ w * w2 \in Nat
      BY <1>1, <1>3, ProductIsNat
    <2> QED BY <1>3, <1>6, <2>2, <2>3
  <1> QED BY <1>7 DEF second

\* A multiple of the divisor divides without a remainder.
LEMMA ExactDivision ==
    ASSUME NEW w \in Nat, NEW n \in Nat, w > 0
    PROVE  (w * n) \div w = n /\ (w * n) % w = 0
  <1> DEFINE q == (w * n) \div w
             r == (w * n) % w
  <1>1. q \in Nat /\ r \in 0 .. w - 1 /\ w * n = w * q + r
    <2>1. w * n \in Nat
      BY ProductIsNat
    <2> QED BY <2>1, Division
  <1> HIDE DEF q, r
  <1>2. w * (n - q) = r
    BY <1>1
  <1>3. n - q \in {0, 1}
    BY <1>1, <1>2, SmallMultiple
  <1>4. n - q # 1
    BY <1>1, <1>2
  <1> QED BY <1>1, <1>2, <1>3, <1>4 DEF q, r

\* Allocating the sum of the weights gives each side its weight: a charge that
\* is refunded in one go is taken back exactly as it was split.
THEOREM WholeIsExact ==
    ASSUME NEW w1 \in Nat, NEW w2 \in Nat, w1 + w2 > 0
    PROVE  FirstShare(w1 + w2, w1, w2) = w1 /\ SecondShare(w1 + w2, w1, w2) = w2
  <1> DEFINE w == w1 + w2
  <1>1. w \in Nat /\ w > 0
    OBVIOUS
  <1>2. (w * w1) \div w = w1 /\ (w * w1) % w = 0
    BY <1>1, ExactDivision
  <1>3. (w * w2) \div w = w2 /\ (w * w2) % w = 0
    BY <1>1, ExactDivision
  <1>4. /\ FirstShare(w, w1, w2)
             = w1 + (IF 0 >= 0 /\ w1 + w2 < w THEN 1 ELSE 0)
        /\ SecondShare(w, w1, w2)
             = w2 + (IF ~(0 >= 0) /\ w1 + w2 < w THEN 1 ELSE 0)
    BY <1>2, <1>3, Zenon DEF FirstShare, SecondShare
  <1>5. ~(w1 + w2 < w)
    OBVIOUS
  <1> QED BY <1>4, <1>5
=============================================================================
