-------------------------- MODULE OrderTypeProofs --------------------------
(***************************************************************************)
(* Type correctness of the order's rows and of the sessions on them, for   *)
(* every amount, commission, floor and revision allowance, and for any     *)
(* number of support accounts and sweepers.                                *)
(***************************************************************************)
EXTENDS OrderMoney, MoneyProofs

\* The fields of the row types, in the form the action proofs use them.
LEMMA ElementOfSeq ==
    ASSUME NEW S, NEW s \in Seq(S), NEW i \in DOMAIN s
    PROVE  s[i] \in S
  OBVIOUS

LEMMA ReplaceInSeq ==
    ASSUME NEW S, NEW s \in Seq(S), NEW i \in DOMAIN s, NEW x \in S
    PROVE  /\ [s EXCEPT ![i] = x] \in Seq(S)
           /\ Len([s EXCEPT ![i] = x]) = Len(s)
           /\ DOMAIN [s EXCEPT ![i] = x] = DOMAIN s
  OBVIOUS

LEMMA LedgerFields ==
    ASSUME NEW l \in LedgerSums
    PROVE  /\ l.charge \in Int /\ l.refund \in Int /\ l.commission \in Int
           /\ l.expert_credit \in Int /\ l.payout \in Int
  BY DEF LedgerSums

LEMMA PayoutFields ==
    ASSUME NEW p \in PayoutRow
    PROVE  p.status \in PayoutStatus /\ p.amount \in Int
  BY DEF PayoutRow

LEMMA PaymentFields ==
    ASSUME NEW p \in PaymentRow
    PROVE  p.status \in PaymentStatus \cup {None} /\ p.refunded \in 0 .. Amount
  BY DEF PaymentRow

\* What confirmation books: two natural numbers that add up to the amount.
LEMMA BookedParts ==
    /\ BookedCommission \in Nat /\ BookedCredit \in Nat
    /\ BookedCommission + BookedCredit = Amount
  BY MoneyAssumption DEF BookedCommission, BookedCredit

\* The two sides of a refund are natural numbers that add up to it.
LEMMA ReversedParts ==
    ASSUME NEW a \in Nat
    PROVE  /\ ReversedCommission(a) \in Nat /\ ReversedCredit(a) \in Nat
           /\ ReversedCommission(a) + ReversedCredit(a) = a
  <1>1. Commission \in Nat /\ Amount - Commission \in Nat
    BY MoneyAssumption
  <1>2. Commission + (Amount - Commission) > 0
    BY MoneyAssumption
  <1> QED BY <1>1, <1>2, SharesAddUp DEF ReversedCommission, ReversedCredit

\* A refund issue_refund allows leaves a payment and a ledger of their types.
LEMMA RefundTypes ==
    ASSUME TypeOK, NEW a \in Int, RefundAllowed(a)
    PROVE  /\ a \in Nat
           /\ RefundedPayment(a) \in PaymentRow
           /\ RefundedLedger(a) \in LedgerSums
  <1>1. Amount \in Nat /\ payment.refunded \in 0 .. Amount
    BY MoneyAssumption, PaymentFields DEF TypeOK
  <1>2. a \in Nat /\ payment.refunded + a \in 0 .. Amount
    BY <1>1 DEF RefundAllowed, Refundable
  <1>3. RefundedPayment(a) \in PaymentRow
    BY <1>2 DEF RefundedPayment, PaymentRow, PaymentStatus
  <1>4. /\ ledger.refund - a \in Int
        /\ ledger.commission - ReversedCommission(a) \in Int
        /\ ledger.expert_credit - ReversedCredit(a) \in Int
    <2>1. ReversedCommission(a) \in Int /\ ReversedCredit(a) \in Int
      BY <1>2, ReversedParts
    <2>2. /\ ledger.refund \in Int /\ ledger.commission \in Int
          /\ ledger.expert_credit \in Int
      BY LedgerFields DEF TypeOK
    <2> QED BY <1>2, <2>1, <2>2
  <1>5. RefundedLedger(a) \in LedgerSums
    BY <1>4 DEF RefundedLedger, LedgerSums, TypeOK
  <1> QED BY <1>2, <1>3, <1>5

\* The payouts an approval or a resolution leaves, and the marked deliveries.
LEMMA ScheduledTypes ==
    ASSUME TypeOK, NEW flag
    PROVE  ScheduledPayouts(flag) \in Seq(PayoutRow)
  <1>1. payouts \in Seq(PayoutRow) /\ ledger.expert_credit \in Int
    BY LedgerFields DEF TypeOK
  <1>2. NewPayout(ledger.expert_credit) \in PayoutRow
    BY <1>1 DEF NewPayout, PayoutRow, PayoutStatus
  <1> QED BY <1>1, <1>2 DEF ScheduledPayouts

LEMMA ResolvedPayoutTypes ==
    ASSUME TypeOK
    PROVE  /\ VoidedPayouts \in Seq(PayoutRow)
           /\ \A c \in Int : CorrectedPayouts(c) \in Seq(PayoutRow)
  <1>1. payouts \in Seq(PayoutRow)
    BY DEF TypeOK
  <1>2. ASSUME NEW i \in DOMAIN payouts
        PROVE  /\ payouts[i] \in PayoutRow
               /\ [payouts[i] EXCEPT !.status = "failed"] \in PayoutRow
               /\ \A c \in Int : [payouts[i] EXCEPT !.amount = c] \in PayoutRow
    <2>1. payouts[i] \in PayoutRow
      BY <1>1, <1>2, ElementOfSeq
    <2> QED BY <2>1 DEF PayoutRow, PayoutStatus
  <1>3. DOMAIN payouts = 1 .. Len(payouts) /\ Len(payouts) \in Nat
    BY <1>1
  <1>4. VoidedPayouts \in Seq(PayoutRow)
    BY <1>2, <1>3 DEF VoidedPayouts
  <1>5. ASSUME NEW c \in Int PROVE CorrectedPayouts(c) \in Seq(PayoutRow)
    <2>1. \A i \in DOMAIN payouts : CorrectedPayouts(c)[i] \in PayoutRow
      BY <1>2, <1>5 DEF CorrectedPayouts
    <2>2. CorrectedPayouts(c) \in [1 .. Len(payouts) -> PayoutRow]
      BY <1>3, <2>1 DEF CorrectedPayouts
    <2> QED BY <1>3, <2>2
  <1> QED BY <1>4, <1>5

LEMMA MarkedTypes ==
    ASSUME TypeOK, NEW status \in DeliveryStatus
    PROVE  DeliveriesMarked(status) \in [Revisions -> DeliveryStatus \cup {None}]
  BY DEF TypeOK, DeliveriesMarked

-----------------------------------------------------------------------------
(* Every step keeps the types: one lemma per module of the specification.  *)

LEMMA InitTypes == Init => TypeOK
  <1> SUFFICES ASSUME Init PROVE TypeOK
    OBVIOUS
  <1> USE DEF Init, None
  <1>1. order \in OrderRow
    BY LimitAssumption DEF OrderRow, OrderStatus, Revisions, Timer, Window
  <1>2. payment \in PaymentRow
    BY MoneyAssumption DEF PaymentRow
  <1>3. ledger \in LedgerSums
    BY DEF LedgerSums
  <1>4. payouts \in Seq(PayoutRow)
    OBVIOUS
  <1>5. dispute \in DisputeRow
    BY DEF DisputeRow
  <1>6. sweep \in [Sweepers -> SweepTask]
    BY DEF SweepTask
  <1> QED BY <1>1, <1>2, <1>3, <1>4, <1>5, <1>6 DEF TypeOK, RequestStatus

LEMMA PaymentsTypes == TypeOK /\ PaymentsNext => TypeOK'
  <1> SUFFICES ASSUME TypeOK, PaymentsNext PROVE TypeOK'
    OBVIOUS
  <1> USE DEF rows, sessions
  <1>1. CASE ReadOrderToPay
    BY <1>1 DEF ReadOrderToPay, TypeOK
  <1>2. CASE StartPayment
    BY <1>2 DEF StartPayment, TypeOK, PaymentRow, PaymentStatus
  <1>3. CASE RearmPayment
    BY <1>3 DEF RearmPayment, TypeOK, PaymentRow, PaymentStatus
  <1>4. CASE ConfirmPayment
    <2>1. order' \in OrderRow /\ payment' \in PaymentRow /\ request' \in RequestStatus
      BY <1>4 DEF ConfirmPayment, TypeOK, OrderRow, OrderStatus, PaymentRow,
                  PaymentStatus, RequestStatus
    <2>2. /\ ledger.charge + Amount \in Int
          /\ ledger.commission + BookedCommission \in Int
          /\ ledger.expert_credit + BookedCredit \in Int
      BY LedgerFields, BookedParts, MoneyAssumption DEF TypeOK
    <2>3. ledger' \in LedgerSums
      BY <1>4, <2>2 DEF ConfirmPayment, TypeOK, LedgerSums
    <2> QED BY <1>4, <2>1, <2>3 DEF ConfirmPayment, TypeOK
  <1>5. CASE ConfirmFails
    BY <1>5 DEF ConfirmFails, TypeOK, PaymentRow, PaymentStatus
  <1>6. CASE FailHookReads
    BY <1>6 DEF FailHookReads, TypeOK
  <1>7. CASE FailHookSaves
    BY <1>7 DEF FailHookSaves, TypeOK, PaymentRow, PaymentStatus
  <1>8. CASE AdminFullRefund
    <2>1. Refundable \in Int
      BY MoneyAssumption, PaymentFields DEF Refundable, TypeOK
    <2>2. payment' \in PaymentRow /\ ledger' \in LedgerSums
      BY <1>8, <2>1, RefundTypes DEF AdminFullRefund
    <2> QED BY <1>8, <2>2 DEF AdminFullRefund, TypeOK
  <1>9. ASSUME NEW w \in Sweepers, SweepLists(w) \/ SweepChecks(w) \/ SweepCreates(w)
        PROVE  TypeOK'
    <2>1. sweep[w] \in SweepTask /\ ledger.expert_credit \in Int
      BY LedgerFields DEF TypeOK
    <2>2. sweep[w].amount \in Int
      BY <2>1 DEF SweepTask
    <2>3. CASE SweepLists(w)
      BY <2>3 DEF SweepLists, TypeOK, SweepTask
    <2>4. CASE SweepChecks(w)
      BY <2>1, <2>4 DEF SweepChecks, TypeOK, SweepTask
    <2>5. CASE SweepCreates(w)
      <3>1. NewPayout(sweep[w].amount) \in PayoutRow
        BY <2>2 DEF NewPayout, PayoutRow, PayoutStatus
      <3>2. payouts' \in Seq(PayoutRow)
        BY <2>5, <3>1 DEF SweepCreates, TypeOK
      <3> QED BY <2>5, <3>2 DEF SweepCreates, TypeOK, SweepTask
    <2> QED BY <1>9, <2>3, <2>4, <2>5
  <1>10. ASSUME NEW i \in DOMAIN payouts, SettlePayout(i) \/ FailPayout(i)
         PROVE  TypeOK'
    <2>1. payouts \in Seq(PayoutRow) /\ ledger \in LedgerSums
      BY DEF TypeOK
    <2>2. payouts[i] \in PayoutRow
      BY <2>1, ElementOfSeq
    <2>3. \A status \in PayoutStatus : [payouts[i] EXCEPT !.status = status] \in PayoutRow
      BY <2>2 DEF PayoutRow
    <2>4. CASE SettlePayout(i)
      <3>1. payouts' \in Seq(PayoutRow)
        BY <2>1, <2>3, <2>4, ReplaceInSeq DEF SettlePayout, PayoutStatus
      <3>2. ledger.payout - payouts[i].amount \in Int
        BY <2>1, <2>2, LedgerFields, PayoutFields
      <3>3. ledger' \in LedgerSums
        BY <2>1, <2>4, <3>2 DEF SettlePayout, LedgerSums
      <3> QED BY <2>4, <3>1, <3>3 DEF SettlePayout, TypeOK
    <2>5. CASE FailPayout(i)
      <3>1. payouts' \in Seq(PayoutRow)
        BY <2>1, <2>3, <2>5, ReplaceInSeq DEF FailPayout, PayoutStatus
      <3> QED BY <2>5, <3>1 DEF FailPayout, TypeOK
    <2> QED BY <1>10, <2>4, <2>5
  <1> QED BY <1>1, <1>2, <1>3, <1>4, <1>5, <1>6, <1>7, <1>8, <1>9, <1>10
          DEF PaymentsNext

LEMMA OrdersTypes == TypeOK /\ OrdersNext => TypeOK'
  <1> SUFFICES ASSUME TypeOK, OrdersNext PROVE TypeOK'
    OBVIOUS
  <1> USE DEF rows, sessions
  <1>1. CASE SubmitDelivery
    <2>1. order' \in OrderRow
      BY <1>1 DEF SubmitDelivery, Delivered, TypeOK, OrderRow, OrderStatus, Timer
    <2>2. deliveries' \in [Revisions -> DeliveryStatus \cup {None}]
      BY <1>1 DEF SubmitDelivery, Delivered, TypeOK, DeliveryStatus
    <2> QED BY <1>1, <2>1, <2>2 DEF SubmitDelivery, Delivered, TypeOK
  <1>2. CASE RequestRevision
    <2>1. order.revisions_used + 1 \in Revisions
      BY <1>2, LimitAssumption DEF RequestRevision, RevisionLeft, TypeOK, OrderRow, Revisions
    <2>2. order' \in OrderRow
      BY <1>2, <2>1 DEF RequestRevision, TypeOK, OrderRow, OrderStatus, Timer
    <2>3. deliveries' \in [Revisions -> DeliveryStatus \cup {None}]
      BY <1>2, MarkedTypes DEF RequestRevision, DeliveryStatus
    <2> QED BY <1>2, <2>2, <2>3 DEF RequestRevision, TypeOK
  <1>3. ASSUME ApproveRows
        PROVE  /\ order' \in OrderRow
               /\ deliveries' \in [Revisions -> DeliveryStatus \cup {None}]
               /\ request' \in RequestStatus
               /\ payouts' \in Seq(PayoutRow)
               /\ UNCHANGED <<payment, ledger, dispute>>
    <2>1. order' \in OrderRow
      BY <1>3 DEF ApproveRows, TypeOK, OrderRow, OrderStatus, Timer, Window
    <2>2. deliveries' \in [Revisions -> DeliveryStatus \cup {None}]
      BY <1>3, MarkedTypes DEF ApproveRows, DeliveryStatus
    <2>3. payouts' \in Seq(PayoutRow)
      BY <1>3, ScheduledTypes DEF ApproveRows
    <2> QED BY <1>3, <2>1, <2>2, <2>3 DEF ApproveRows, TypeOK, RequestStatus
  <1>4. CASE ApproveDelivery
    BY <1>3, <1>4 DEF ApproveDelivery, TypeOK
  <1>5. CASE AutoApproveReads
    BY <1>5 DEF AutoApproveReads, TypeOK
  <1>6. CASE AutoApprove
    BY <1>3, <1>6 DEF AutoApprove, TypeOK
  <1>7. CASE Cancel
    <2>1. order' \in OrderRow
      BY <1>7 DEF Cancel, TypeOK, OrderRow, OrderStatus
    <2>2. payment' \in PaymentRow
      BY <1>7 DEF Cancel, Voided, TypeOK, PaymentRow, PaymentStatus
    <2> QED BY <1>7, <2>1, <2>2 DEF Cancel, TypeOK, RequestStatus
  <1>8. CASE SweepUnpaid
    BY <1>8 DEF SweepUnpaid, TypeOK, OrderRow, OrderStatus
  <1>9. CASE CancelRequest
    BY <1>9 DEF CancelRequest, TypeOK, RequestStatus
  <1>10. CASE TimerElapses
    BY <1>10 DEF TimerElapses, TypeOK, OrderRow, Timer
  <1>11. CASE DisputeWindowCloses
    BY <1>11 DEF DisputeWindowCloses, TypeOK, OrderRow, Window
  <1> QED BY <1>1, <1>2, <1>4, <1>5, <1>6, <1>7, <1>8, <1>9, <1>10, <1>11
          DEF OrdersNext

LEMMA ResolveToTypes ==
    ASSUME TypeOK, NEW s \in Staff, NEW to, ResolveTo(s, to)
    PROVE  /\ order' \in OrderRow /\ dispute' \in DisputeRow
           /\ caseFile' \in [Staff -> DisputeStatus \cup {None}]
           /\ UNCHANGED <<request, deliveries, payCall, failHook, dueBatch, sweep>>
  <1>1. to \in OrderStatus
    BY DEF ResolveTo, CanMove, TRANSITIONS, TypeOK, OrderRow, OrderStatus
  <1> QED BY <1>1 DEF ResolveTo, CaseDone, TypeOK, OrderRow, DisputeRow, DisputeStatus

LEMMA DisputesTypes == TypeOK /\ DisputesNext => TypeOK'
  <1> SUFFICES ASSUME TypeOK, DisputesNext PROVE TypeOK'
    OBVIOUS
  <1> USE DEF rows, sessions
  <1>1. CASE OpenDispute
    BY <1>1 DEF OpenDispute, Frozen, TypeOK, OrderRow, OrderStatus, DisputeRow, DisputeStatus
  <1>2. ASSUME NEW s \in Staff, ReadCase(s)
        PROVE  TypeOK'
    BY <1>2 DEF ReadCase, TypeOK, DisputeRow
  <1>3. ASSUME NEW s \in Staff, NEW to \in DisputeStatus, MoveCase(s, to)
        PROVE  TypeOK'
    BY <1>3 DEF MoveCase, CaseDone, TypeOK, DisputeRow
  <1>4. ASSUME NEW s \in Staff, Resolve(s)
        PROVE  TypeOK'
    <2>1. CASE RefundInFull(s)
      <3>1. Refundable \in Int
        BY MoneyAssumption, PaymentFields DEF Refundable, TypeOK
      <3>2. payment' \in PaymentRow /\ ledger' \in LedgerSums /\ payouts' \in Seq(PayoutRow)
        BY <2>1, <3>1, RefundTypes, ResolvedPayoutTypes DEF RefundInFull
      <3>3. ResolveTo(s, "cancelled")
        BY <2>1 DEF RefundInFull
      <3> QED BY <3>2, <3>3, ResolveToTypes DEF TypeOK
    <2>2. ASSUME NEW a \in 1 .. Amount, RefundInPart(s, a)
          PROVE  TypeOK'
      <3>1. a \in Int
        BY MoneyAssumption
      <3>2. payment' \in PaymentRow /\ ledger' \in LedgerSums
        BY <2>2, <3>1, RefundTypes DEF RefundInPart
      <3>3. RefundedLedger(a).expert_credit \in Int
        BY <2>2, <3>1, RefundTypes, LedgerFields DEF RefundInPart
      <3>4. payouts' \in Seq(PayoutRow)
        BY <2>2, <3>3, ResolvedPayoutTypes DEF RefundInPart
      <3>5. ResolveTo(s, "completed")
        BY <2>2 DEF RefundInPart
      <3> QED BY <3>2, <3>4, <3>5, ResolveToTypes DEF TypeOK
    <2>3. CASE ReleaseToExpert(s) \/ CloseNoFault(s)
      <3>1. PICK to : ResolveTo(s, to)
        BY <2>3 DEF ReleaseToExpert, CloseNoFault
      <3>2. UNCHANGED <<payment, ledger, payouts>>
        BY <2>3 DEF ReleaseToExpert, CloseNoFault
      <3> QED BY <3>1, <3>2, ResolveToTypes DEF TypeOK
    <2> QED BY <1>4, <2>1, <2>2, <2>3 DEF Resolve
  <1>5. ASSUME NEW s \in Staff, CloseCase(s)
        PROVE  TypeOK'
    BY <1>3, <1>5 DEF CloseCase, DisputeStatus
  <1> QED BY <1>1, <1>2, <1>3, <1>4, <1>5 DEF DisputesNext, DisputeStatus

\* Type correctness: no service, view, webhook handler or worker job ever
\* leaves a row or a session with a value outside its declared fields and
\* choices, whatever the interleaving.
THEOREM TypeCorrect == Spec => []TypeOK
  <1>1. TypeOK /\ [Next]_vars => TypeOK'
    <2>1. TypeOK /\ UNCHANGED vars => TypeOK'
      BY DEF vars, rows, sessions, TypeOK
    <2> QED BY <2>1, PaymentsTypes, OrdersTypes, DisputesTypes DEF Next
  <1> QED BY <1>1, InitTypes, PTL DEF Spec
=============================================================================
