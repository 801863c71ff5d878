---------------------------- MODULE SeriesProofs ----------------------------
(***************************************************************************)
(* What the refunds of a charge add up to, for every price, every rate and *)
(* any number of refunds.                                                  *)
(***************************************************************************)
EXTENDS RefundSeries, MoneyProofs

-----------------------------------------------------------------------------
(* The commission split.                                                   *)

\* The same in plain arithmetic: c is n divided by two bases, n two parts and a base.
LEMMA HalfUp ==
    ASSUME NEW part \in Nat, NEW base \in Nat, NEW c \in Nat, NEW left \in Nat,
           NEW amount \in Nat, base > 0,
           left < 2 * base, 2 * part + base = (2 * base) * c + left,
           part <= amount * base
    PROVE  /\ c <= amount
           /\ -base < 2 * (c * base - part) /\ 2 * (c * base - part) <= base
  <1> DEFINE whole == c * base
  <1>1. whole \in Nat /\ (2 * base) * c = 2 * whole
    OBVIOUS
  <1> HIDE DEF whole
  <1>2. -base < 2 * (whole - part) /\ 2 * (whole - part) <= base
    BY <1>1
  <1>3. c <= amount
    <2>1. SUFFICES ASSUME c >= amount + 1 PROVE FALSE
      OBVIOUS
    <2>2. whole >= amount * base + base
      <3>1. c * base >= (amount + 1) * base
        BY <2>1
      <3>2. (amount + 1) * base = amount * base + base
        OBVIOUS
      <3> QED BY <3>1, <3>2 DEF whole
    <2>3. amount * base \in Nat
      BY ProductIsNat
    <2> QED BY <1>1, <1>2, <2>2, <2>3
  <1> QED BY <1>2, <1>3 DEF whole

\* Rounding half up is off by less than half a unit below and by at most half
\* a unit above, and a rate of at most one keeps it within the amount.
LEMMA CommissionRounds ==
    ASSUME NEW amount \in Nat, NEW r \in 0 .. BasisPoints
    PROVE  /\ CommissionOf(amount, r) \in 0 .. amount
           /\ -BasisPoints < 2 * (CommissionOf(amount, r) * BasisPoints - amount * r)
           /\ 2 * (CommissionOf(amount, r) * BasisPoints - amount * r) <= BasisPoints
  <1> DEFINE part == amount * r
             n == 2 * amount * r + BasisPoints
             twice == 2 * BasisPoints
             c == n \div twice
             left == n % twice
  <1>1. BasisPoints \in Nat /\ BasisPoints > 0 /\ r \in Nat /\ r <= BasisPoints
    BY DEF BasisPoints
  <1> HIDE DEF BasisPoints
  <1>2. part \in Nat /\ n = 2 * part + BasisPoints
    <2>1. part \in Nat
      BY <1>1, ProductIsNat
    <2>2. 2 * amount * r = 2 * (amount * r)
      BY <1>1
    <2> QED BY <2>1, <2>2
  <1>3. twice \in Nat /\ twice > 0
    BY <1>1
  <1>4. n \in Nat
    BY <1>1, <1>2
  <1>5. c \in Nat /\ left \in 0 .. twice - 1 /\ n = twice * c + left
    <2> HIDE DEF n, twice
    <2> QED BY <1>3, <1>4, Division
  <1>6. part <= amount * BasisPoints
    BY <1>1
  <1> HIDE DEF part, n, c, left
  <1>7. left \in Nat /\ left < 2 * BasisPoints
    BY <1>1, <1>5
  <1>8. 2 * part + BasisPoints = (2 * BasisPoints) * c + left
    BY <1>2, <1>5
  <1>9. /\ c <= amount
        /\ -BasisPoints < 2 * (c * BasisPoints - part)
        /\ 2 * (c * BasisPoints - part) <= BasisPoints
    BY <1>1, <1>2, <1>5, <1>6, <1>7, <1>8, HalfUp
  <1>10. c = CommissionOf(amount, r)
    BY DEF c, n, CommissionOf
  <1> QED BY <1>5, <1>9, <1>10 DEF part

-----------------------------------------------------------------------------
(* The series.                                                             *)

\* What the sums of a series rest on: the booked parts make up the price, as
\* much was taken back from them as was refunded, and nothing before the first.
SeriesSums ==
    /\ price \in Nat \ {0}
    /\ rate \in 0 .. BasisPoints
    /\ booked.commission \in Nat /\ booked.net \in Nat
    /\ booked.commission + booked.net = price
    /\ booked = CommissionSplit(price, rate)
    /\ refunded \in Nat
    /\ count \in Nat
    /\ reversed = [commission |-> reversed.commission, net |-> reversed.net]
    /\ reversed.commission \in Nat /\ reversed.net \in Nat
    /\ reversed.commission + reversed.net = refunded
    /\ count = 0 => refunded = 0

\* A series that is one refund of the whole has reversed what was booked.
FirstOfSeries == count = 1 /\ refunded = price => reversed = booked

SeriesInv == SeriesSums /\ FirstOfSeries /\ DriftIsBounded

LEMMA SeriesStarts ==
    SeriesInit => SeriesInv
  <1> SUFFICES ASSUME SeriesInit PROVE SeriesInv
    OBVIOUS
  <1>1. price \in Nat \ {0} /\ rate \in 0 .. BasisPoints
    BY SeriesAssumption DEF SeriesInit
  <1>2. /\ CommissionOf(price, rate) \in 0 .. price
        /\ booked.commission = CommissionOf(price, rate)
        /\ booked.net = price - CommissionOf(price, rate)
    BY <1>1, CommissionRounds DEF SeriesInit, CommissionSplit
  <1>3. SeriesSums
    <2> HIDE DEF SeriesSums
    <2>1. booked.commission \in Nat /\ booked.net \in Nat
          /\ booked.commission + booked.net = price
      BY <1>1, <1>2
    <2> QED BY <1>1, <2>1 DEF SeriesInit, SeriesSums
  <1>4. FirstOfSeries
    BY DEF SeriesInit, FirstOfSeries
  <1>5. DriftIsBounded
    <2>1. 0 * price = 0 /\ 0 * booked.commission = 0
      BY <1>1, <1>2
    <2> QED BY <2>1 DEF SeriesInit, DriftIsBounded, Abs
  <1> QED BY <1>3, <1>4, <1>5 DEF SeriesInv

\* Rounding errors of successive refunds add up, never more than one half each.
LEMMA DriftGrows ==
    ASSUME NEW d \in Int, NEW off \in Int, NEW n \in Nat, NEW p \in Nat,
           2 * Abs(d) <= n * p, -p <= 2 * off, 2 * off <= p
    PROVE  2 * Abs(d + off) <= (n + 1) * p
  <1> DEFINE bound == n * p
  <1>1. bound \in Nat /\ (n + 1) * p = bound + p
    BY ProductIsNat
  <1> HIDE DEF bound
  <1>2. 2 * Abs(d) <= bound
    BY DEF bound
  <1>3. 2 * Abs(d + off) <= bound + p
    BY <1>1, <1>2 DEF Abs
  <1> QED BY <1>1, <1>3

LEMMA RefundKeepsSeries ==
    ASSUME SeriesInv, NEW a \in 1 .. price, Refund(a)
    PROVE  SeriesInv'
  <1> DEFINE first == FirstShare(a, booked.commission, booked.net)
             second == SecondShare(a, booked.commission, booked.net)
  <1>1. /\ price \in Nat /\ price > 0 /\ a \in Nat /\ a > 0
        /\ booked.commission \in Nat /\ booked.net \in Nat
        /\ booked.commission + booked.net = price
        /\ refunded \in Nat /\ count \in Nat
    BY DEF SeriesInv, SeriesSums
  <1>2. first \in Nat /\ second \in Nat /\ first + second = a
    BY <1>1, SharesAddUp
  <1>3. /\ reversed' = [commission |-> reversed.commission + first,
                        net |-> reversed.net + second]
        /\ refunded' = refunded + a /\ count' = count + 1
        /\ price' = price /\ rate' = rate /\ booked' = booked
        /\ refunded + a <= price
    BY <1>1 DEF Refund
  <1>4. /\ first = FirstShare(a, booked.commission, booked.net)
        /\ second = SecondShare(a, booked.commission, booked.net)
    OBVIOUS
  <1> HIDE DEF first, second
  <1>5. /\ reversed.commission \in Nat /\ reversed.net \in Nat
        /\ reversed.commission + reversed.net = refunded
    BY DEF SeriesInv, SeriesSums
  <1>6. /\ reversed'.commission = reversed.commission + first
        /\ reversed'.net = reversed.net + second
    BY <1>3
  <1>7. SeriesSums'
    <2>1. /\ reversed'.commission \in Nat /\ reversed'.net \in Nat
          /\ reversed'.commission + reversed'.net = refunded'
          /\ refunded' \in Nat /\ count' \in Nat /\ count' # 0
      BY <1>1, <1>2, <1>3, <1>5, <1>6
    <2>2. reversed' = [commission |-> reversed'.commission, net |-> reversed'.net]
      BY <1>3
    <2> QED BY <1>1, <1>3, <2>1, <2>2 DEF SeriesInv, SeriesSums
  <1>8. FirstOfSeries'
    <2>1. SUFFICES ASSUME count = 0, a = price PROVE reversed' = booked
      <3>1. count' = 1 /\ refunded' = price' => count = 0 /\ refunded = 0
        BY <1>1, <1>3 DEF SeriesInv, SeriesSums
      <3> QED BY <1>1, <1>3, <3>1 DEF FirstOfSeries
    <2>2. reversed.commission = 0 /\ reversed.net = 0
      BY <1>5, <2>1 DEF SeriesInv, SeriesSums
    <2>3. first = booked.commission /\ second = booked.net
      BY <1>1, <1>4, <2>1, WholeIsExact
    <2>4. booked = [commission |-> booked.commission, net |-> booked.net]
      BY DEF SeriesInv, SeriesSums, CommissionSplit
    <2> QED BY <1>1, <1>3, <2>2, <2>3, <2>4
  <1>9. DriftIsBounded'
    <2> DEFINE d == reversed.commission * price - refunded * booked.commission
               off == first * price - a * booked.commission
    <2>1. d \in Int /\ off \in Int
      BY <1>1, <1>2, <1>5
    <2>2. -price <= 2 * off /\ 2 * off <= price
      BY <1>1, <1>4, ShareIsNearest
    <2>3. reversed'.commission * price' - refunded' * booked'.commission = d + off
      <3>1. (reversed.commission + first) * price
              = reversed.commission * price + first * price
        BY <1>1, <1>2, <1>5
      <3>2. (refunded + a) * booked.commission
              = refunded * booked.commission + a * booked.commission
        BY <1>1
      <3>3. /\ reversed.commission * price \in Nat /\ first * price \in Nat
            /\ refunded * booked.commission \in Nat /\ a * booked.commission \in Nat
        BY <1>1, <1>2, <1>5, ProductIsNat
      <3> QED BY <1>3, <1>6, <3>1, <3>2, <3>3
    <2>4. 2 * Abs(d) <= count * price
      BY DEF SeriesInv, DriftIsBounded
    <2> HIDE DEF d, off
    <2>5. 2 * Abs(d + off) <= (count + 1) * price
      BY <1>1, <2>1, <2>2, <2>4, DriftGrows
    <2>6. DriftIsBounded'
            <=> 2 * Abs(reversed'.commission * price' - refunded' * booked'.commission)
                  <= count' * price'
      BY DEF DriftIsBounded, Abs
    <2> QED BY <1>3, <2>3, <2>5, <2>6
  <1> QED BY <1>7, <1>8, <1>9 DEF SeriesInv

\* The sums of a series and the bound on its rounding hold after every refund.
THEOREM SeriesInvariant ==
    SeriesSpec => []SeriesInv
  <1>1. SeriesInit => SeriesInv
    BY SeriesStarts
  <1>2. SeriesInv /\ [SeriesNext]_seriesVars => SeriesInv'
    <2> SUFFICES ASSUME SeriesInv, [SeriesNext]_seriesVars PROVE SeriesInv'
      OBVIOUS
    <2>1. CASE SeriesNext
      BY <2>1, RefundKeepsSeries DEF SeriesNext
    <2>2. CASE UNCHANGED seriesVars
      BY <2>2 DEF seriesVars, SeriesInv, SeriesSums, FirstOfSeries, DriftIsBounded, Abs
    <2> QED BY <2>1, <2>2
  <1> QED BY <1>1, <1>2, PTL DEF SeriesSpec

\* commission_split books the whole number of units nearest to the rate, for
\* every amount and every rate up to the whole, and leaves the rest to the expert.
THEOREM CommissionAlwaysNearest ==
    SeriesSpec => []CommissionIsNearest
  <1>1. SeriesInv => CommissionIsNearest
    <2> SUFFICES ASSUME SeriesInv PROVE CommissionIsNearest
      OBVIOUS
    <2>1. /\ price \in Nat /\ rate \in 0 .. BasisPoints
          /\ booked.commission = CommissionOf(price, rate)
          /\ booked.commission + booked.net = price
      BY DEF SeriesInv, SeriesSums, CommissionSplit
    <2> QED BY <2>1, CommissionRounds DEF CommissionIsNearest
  <1> QED BY <1>1, SeriesInvariant, PTL

\* However many refunds issue_refund books of one charge, what they reverse of
\* commission and credit adds up to what the student got back.
THEOREM RefundsAlwaysAddUp ==
    SeriesSpec => []RefundsAddUp
  <1>1. SeriesInv => RefundsAddUp
    BY DEF SeriesInv, SeriesSums, RefundsAddUp
  <1> QED BY <1>1, SeriesInvariant, PTL

\* After n refunds the reversed commission is within n/2 units of its exact
\* proportion, for every split of every price.
THEOREM DriftAlwaysBounded ==
    SeriesSpec => []DriftIsBounded
  <1>1. SeriesInv => DriftIsBounded
    BY DEF SeriesInv
  <1> QED BY <1>1, SeriesInvariant, PTL

\* A charge refunded in one go gives back exactly the split that was booked.
THEOREM SingleRefundAlwaysExact ==
    SeriesSpec => []SingleRefundIsExact
  <1>1. SeriesInv => SingleRefundIsExact
    BY DEF SeriesInv, FirstOfSeries, SingleRefundIsExact
  <1> QED BY <1>1, SeriesInvariant, PTL
=============================================================================
