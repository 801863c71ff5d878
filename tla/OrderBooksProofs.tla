-------------------------- MODULE OrderBooksProofs --------------------------
(***************************************************************************)
(* The money invariants of OrderMoney, for every instance: the ledger      *)
(* identity, the single charge, the refunds on record, the freeze and the  *)
(* books after a refund, all from the inductive invariant MoneyInv; then   *)
(* what no step of an order does: bring a cancelled order back, transfer   *)
(* money during a dispute, or leave a share of a fully refunded charge;    *)
(* last, that charge and refunds implement the student's half of Escrow.   *)
(***************************************************************************)
EXTENDS OrderTypeProofs

\* The fields the invariants talk about, with their types.
LEMMA Fields ==
    ASSUME TypeOK
    PROVE  /\ order.status \in OrderStatus /\ order.paid \in BOOLEAN
           /\ order.has_open_dispute \in BOOLEAN
           /\ payment.refunded \in 0 .. Amount
           /\ ledger.charge \in Int /\ ledger.refund \in Int
           /\ ledger.commission \in Int /\ ledger.expert_credit \in Int
           /\ ledger.payout \in Int
           /\ Amount \in Nat /\ Amount > 0
  BY LedgerFields, PaymentFields, MoneyAssumption DEF TypeOK, OrderRow

LEMMA MoneyInit == Init => MoneyInv
  <1> SUFFICES ASSUME Init PROVE MoneyInv
    OBVIOUS
  <1>1. /\ order.status = "awaiting_payment" /\ ~order.paid /\ ~order.has_open_dispute
        /\ payment.status = "none" /\ payment.refunded = 0
        /\ dispute.status = "none" /\ dispute.prior = "none"
        /\ ledger.charge = 0 /\ ledger.refund = 0
        /\ ledger.commission = 0 /\ ledger.expert_credit = 0
    <2>1. order.status = "awaiting_payment" /\ ~order.paid /\ ~order.has_open_dispute
      BY DEF Init
    <2>2. payment.status = "none" /\ payment.refunded = 0
      BY DEF Init, None
    <2>3. dispute.status = "none" /\ dispute.prior = "none"
      BY DEF Init, None
    <2>4. /\ ledger.charge = 0 /\ ledger.refund = 0
          /\ ledger.commission = 0 /\ ledger.expert_credit = 0
      BY DEF Init
    <2> QED BY <2>1, <2>2, <2>3, <2>4
  <1>2. \A s \in Staff : caseFile[s] = "none"
    BY DEF Init, None
  <1>3. LedgerIdentity /\ ChargedOnce /\ RefundsOnRecord /\ FreezeMatchesStatus
    <2>1. LedgerIdentity
      BY <1>1 DEF LedgerIdentity
    <2>2. ChargedOnce
      BY <1>1 DEF ChargedOnce, Working
    <2>3. RefundsOnRecord
      BY <1>1 DEF RefundsOnRecord
    <2>4. FreezeMatchesStatus
      BY <1>1 DEF FreezeMatchesStatus
    <2> QED BY <2>1, <2>2, <2>3, <2>4
  <1>4. CaseRecords /\ RefundHistory
    BY <1>1, <1>2, MoneyAssumption DEF CaseRecords, RefundHistory, None
  <1> QED BY <1>3, <1>4 DEF MoneyInv

\* A refund that is allowed, on a payment that was charged: the two rows after
\* it satisfy the identity and agree with each other.
LEMMA RefundBooks ==
    ASSUME TypeOK, MoneyInv, NEW a \in Int, RefundAllowed(a),
           payment' = RefundedPayment(a), ledger' = RefundedLedger(a),
           order'.paid = order.paid
    PROVE  /\ order.paid
           /\ LedgerIdentity' /\ RefundsOnRecord'
           /\ ledger'.charge = ledger.charge
           /\ payment'.refunded = payment.refunded + a
           /\ payment'.status \in {"refunded", "partially_refunded"}
           /\ payment.refunded = 0 =>
                 /\ ledger'.commission = BookedCommission - ReversedCommission(a)
                 /\ ledger'.expert_credit = BookedCredit - ReversedCredit(a)
  <1>1. /\ ledger'.charge = ledger.charge
        /\ ledger'.refund = ledger.refund - a
        /\ ledger'.commission = ledger.commission - ReversedCommission(a)
        /\ ledger'.expert_credit = ledger.expert_credit - ReversedCredit(a)
    BY DEF RefundedLedger, TypeOK, LedgerSums
  <1>2. /\ payment'.refunded = payment.refunded + a
        /\ payment'.status \in {"refunded", "partially_refunded"}
    BY DEF RefundedPayment
  <1>3. /\ a \in Nat /\ a <= Amount - payment.refunded
        /\ payment.status \in {"succeeded", "partially_refunded"}
    BY Fields DEF RefundAllowed, Refundable
  <1>4. /\ ReversedCommission(a) \in Int /\ ReversedCredit(a) \in Int
        /\ ReversedCommission(a) + ReversedCredit(a) = a
    BY <1>3, ReversedParts
  <1>5. order.paid
    BY <1>3 DEF MoneyInv, CaseRecords
  <1>6. LedgerIdentity'
    BY <1>1, <1>3, <1>4, Fields DEF MoneyInv, LedgerIdentity
  <1>7. RefundsOnRecord'
    BY <1>1, <1>2, <1>3, <1>5, Fields DEF MoneyInv, RefundsOnRecord, ChargedOnce
  <1>8. payment.refunded = 0 =>
          /\ ledger'.commission = BookedCommission - ReversedCommission(a)
          /\ ledger'.expert_credit = BookedCredit - ReversedCredit(a)
    BY <1>1, <1>5 DEF MoneyInv, RefundHistory
  <1> QED BY <1>1, <1>2, <1>5, <1>6, <1>7, <1>8

\* A step that leaves the books alone and moves the order within what the
\* invariant allows.
LEMMA QuietStep ==
    ASSUME MoneyInv, UNCHANGED <<ledger, dispute, caseFile>>,
           order'.paid = order.paid,
           payment'.refunded = payment.refunded,
           payment'.status \in {payment.status, "pending", "failed", "canceled"},
           order'.has_open_dispute = order.has_open_dispute,
           \/ order'.status = order.status
           \/ /\ order'.status \in {"delivered", "revision_requested", "completed", "cancelled"}
              /\ order'.status # "cancelled" => order.status \in Working
              /\ order.status # "completed"
              /\ order'.status # "cancelled" => order.status # "disputed"
    PROVE  MoneyInv'
  BY DEF MoneyInv, LedgerIdentity, ChargedOnce, RefundsOnRecord,
         FreezeMatchesStatus, CaseRecords, RefundHistory, Working, None

LEMMA PaymentsKeepBooks == TypeOK /\ MoneyInv /\ PaymentsNext => MoneyInv'
  <1> SUFFICES ASSUME TypeOK, MoneyInv, PaymentsNext PROVE MoneyInv'
    OBVIOUS
  <1> USE DEF rows, sessions
  <1>1. CASE ReadOrderToPay
    BY <1>1, QuietStep DEF ReadOrderToPay
  <1>2. CASE StartPayment
    BY <1>2, QuietStep DEF StartPayment, TypeOK, PaymentRow
  <1>3. CASE RearmPayment
    BY <1>3, QuietStep DEF RearmPayment, TypeOK, PaymentRow
  <1>4. CASE ConfirmPayment
    <2>1. /\ order.status = "awaiting_payment" /\ ~order.paid
          /\ payment.refunded = 0 /\ ledger.charge = 0
      BY <1>4, Fields DEF ConfirmPayment, Confirmable, MoneyInv, ChargedOnce, RefundsOnRecord
    <2>2. /\ order'.status = "active" /\ order'.paid
          /\ order'.has_open_dispute = order.has_open_dispute
          /\ payment'.status = "succeeded" /\ payment'.refunded = 0
          /\ ledger'.charge = Amount /\ ledger'.refund = ledger.refund
          /\ ledger'.commission = ledger.commission + BookedCommission
          /\ ledger'.expert_credit = ledger.expert_credit + BookedCredit
          /\ UNCHANGED <<dispute, caseFile>>
      BY <1>4, <2>1, Fields
      DEF ConfirmPayment, TypeOK, OrderRow, PaymentRow, LedgerSums
    <2>3. ledger'.commission = BookedCommission /\ ledger'.expert_credit = BookedCredit
      BY <2>1, <2>2, BookedParts DEF MoneyInv, RefundHistory
    <2>4. LedgerIdentity' /\ ChargedOnce' /\ RefundsOnRecord'
      BY <2>1, <2>2, <2>3, BookedParts, Fields
      DEF MoneyInv, LedgerIdentity, ChargedOnce, RefundsOnRecord
    <2>5. FreezeMatchesStatus' /\ CaseRecords' /\ RefundHistory'
      BY <2>1, <2>2, <2>3 DEF MoneyInv, FreezeMatchesStatus, CaseRecords, RefundHistory
    <2> QED BY <2>4, <2>5 DEF MoneyInv
  <1>5. CASE ConfirmFails
    BY <1>5, QuietStep DEF ConfirmFails, TypeOK, PaymentRow
  <1>6. CASE FailHookReads
    BY <1>6, QuietStep DEF FailHookReads
  <1>7. CASE FailHookSaves
    BY <1>7, QuietStep DEF FailHookSaves, TypeOK, PaymentRow
  <1>8. CASE AdminFullRefund
    <2> DEFINE a == Refundable
    <2>1. /\ a \in Int /\ RefundAllowed(a)
          /\ payment' = RefundedPayment(a) /\ ledger' = RefundedLedger(a)
          /\ UNCHANGED <<order, dispute, caseFile>>
      BY <1>8, Fields DEF AdminFullRefund, Refundable
    <2>2. payment'.refunded = Amount
      BY <2>1, RefundBooks, Fields DEF Refundable
    <2>3. payment'.status # "succeeded" /\ order.paid
      BY <2>1, RefundBooks
    <2>4. LedgerIdentity' /\ RefundsOnRecord' /\ ledger'.charge = ledger.charge
      BY <2>1, RefundBooks
    <2>5. ChargedOnce' /\ FreezeMatchesStatus' /\ CaseRecords' /\ RefundHistory'
      BY <2>1, <2>2, <2>3, <2>4, Fields
      DEF MoneyInv, ChargedOnce, FreezeMatchesStatus, CaseRecords, RefundHistory
    <2> QED BY <2>4, <2>5 DEF MoneyInv
  <1>9. ASSUME NEW w \in Sweepers, SweepLists(w) \/ SweepChecks(w) \/ SweepCreates(w)
        PROVE  MoneyInv'
    BY <1>9, QuietStep DEF SweepLists, SweepChecks, SweepCreates
  <1>10. ASSUME NEW i \in DOMAIN payouts, SettlePayout(i) \/ FailPayout(i)
         PROVE  MoneyInv'
    <2>1. CASE SettlePayout(i)
      <3>1. /\ UNCHANGED <<order, payment, dispute, caseFile>>
            /\ ledger'.charge = ledger.charge /\ ledger'.refund = ledger.refund
            /\ ledger'.commission = ledger.commission
            /\ ledger'.expert_credit = ledger.expert_credit
        BY <2>1 DEF SettlePayout, TypeOK, LedgerSums
      <3> QED BY <3>1
              DEF MoneyInv, LedgerIdentity, ChargedOnce, RefundsOnRecord,
                  FreezeMatchesStatus, CaseRecords, RefundHistory
    <2>2. CASE FailPayout(i)
      BY <2>2, QuietStep DEF FailPayout
    <2> QED BY <1>10, <2>1, <2>2
  <1> QED BY <1>1, <1>2, <1>3, <1>4, <1>5, <1>6, <1>7, <1>8, <1>9, <1>10
          DEF PaymentsNext

LEMMA OrdersKeepBooks == TypeOK /\ MoneyInv /\ OrdersNext => MoneyInv'
  <1> SUFFICES ASSUME TypeOK, MoneyInv, OrdersNext PROVE MoneyInv'
    OBVIOUS
  <1> USE DEF rows, sessions
  <1>1. CASE SubmitDelivery
    <2>1. /\ order'.status = "delivered" /\ order'.paid = order.paid
          /\ order'.has_open_dispute = order.has_open_dispute
          /\ order.status \in {"active", "revision_requested"}
          /\ UNCHANGED <<ledger, dispute, caseFile, payment>>
      BY <1>1 DEF SubmitDelivery, Delivered, TypeOK, OrderRow
    <2> QED BY <2>1, QuietStep DEF Working
  <1>2. CASE RequestRevision
    <2>1. /\ order'.status = "revision_requested" /\ order'.paid = order.paid
          /\ order'.has_open_dispute = order.has_open_dispute
          /\ order.status = "delivered"
          /\ UNCHANGED <<ledger, dispute, caseFile, payment>>
      BY <1>2 DEF RequestRevision, TypeOK, OrderRow
    <2> QED BY <2>1, QuietStep DEF Working
  <1>3. ASSUME ApproveRows, UNCHANGED caseFile PROVE MoneyInv'
    <2>1. /\ order'.status = "completed" /\ order'.paid = order.paid
          /\ order'.has_open_dispute = order.has_open_dispute
          /\ order.status = "delivered"
          /\ UNCHANGED <<ledger, dispute, caseFile, payment>>
      BY <1>3 DEF ApproveRows, TypeOK, OrderRow
    <2> QED BY <2>1, QuietStep DEF Working
  <1>4. CASE ApproveDelivery
    BY <1>3, <1>4 DEF ApproveDelivery
  <1>5. CASE AutoApproveReads
    BY <1>5, QuietStep DEF AutoApproveReads
  <1>6. CASE AutoApprove
    <2>1. CASE UNCHANGED rows
      BY <1>6, <2>1, QuietStep DEF AutoApprove
    <2> QED BY <1>3, <1>6, <2>1 DEF AutoApprove
  <1>7. CASE Cancel
    <2>1. /\ order'.status = "cancelled" /\ order'.paid = order.paid
          /\ order'.has_open_dispute = order.has_open_dispute
          /\ order.status # "completed"
          /\ UNCHANGED <<ledger, dispute, caseFile>>
      BY <1>7 DEF Cancel, TypeOK, OrderRow, CanMove, TRANSITIONS
    <2>2. /\ payment'.refunded = payment.refunded
          /\ payment'.status \in {payment.status, "canceled"}
      BY <1>7 DEF Cancel, Voided, TypeOK, PaymentRow
    <2> QED BY <2>1, <2>2, QuietStep
  <1>8. CASE SweepUnpaid
    <2>1. /\ order'.status = "cancelled" /\ order'.paid = order.paid
          /\ order'.has_open_dispute = order.has_open_dispute
          /\ order.status = "awaiting_payment"
          /\ UNCHANGED <<ledger, dispute, caseFile, payment>>
      BY <1>8 DEF SweepUnpaid, TypeOK, OrderRow
    <2> QED BY <2>1, QuietStep
  <1>9. CASE CancelRequest
    BY <1>9, QuietStep DEF CancelRequest
  <1>10. CASE TimerElapses
    <2>1. /\ order'.status = order.status /\ order'.paid = order.paid
          /\ order'.has_open_dispute = order.has_open_dispute
          /\ UNCHANGED <<ledger, dispute, caseFile, payment>>
      BY <1>10 DEF TimerElapses, TypeOK, OrderRow
    <2> QED BY <2>1, QuietStep
  <1>11. CASE DisputeWindowCloses
    <2>1. /\ order'.status = order.status /\ order'.paid = order.paid
          /\ order'.has_open_dispute = order.has_open_dispute
          /\ UNCHANGED <<ledger, dispute, caseFile, payment>>
      BY <1>11 DEF DisputeWindowCloses, TypeOK, OrderRow
    <2> QED BY <2>1, QuietStep
  <1> QED BY <1>1, <1>2, <1>4, <1>5, <1>6, <1>7, <1>8, <1>9, <1>10, <1>11
          DEF OrdersNext

\* What a resolution shares: the case file it acts on was read from a dispute, so
\* the order was paid, and no outcome leaves the order disputed.
LEMMA ResolveToBooks ==
    ASSUME TypeOK, MoneyInv, NEW s \in Staff, NEW to, to # "disputed", ResolveTo(s, to)
    PROVE  /\ order.paid /\ dispute.status # None
           /\ order'.status = to /\ order'.paid = order.paid
           /\ to = order.status \/ CanMove(order.status, to)
           /\ FreezeMatchesStatus'
           /\ dispute'.status # None
           /\ \A t \in Staff : caseFile'[t] # None => dispute'.status # None
           /\ dispute'.prior = dispute.prior
  <1>1. dispute.status # None /\ order.paid
    BY DEF ResolveTo, CASE_TRANSITIONS, MoneyInv, CaseRecords, None
  <1>2. /\ order'.status = to /\ order'.paid = order.paid
        /\ ~order'.has_open_dispute
        /\ dispute'.status = "resolved" /\ dispute'.prior = dispute.prior
    BY DEF ResolveTo, TypeOK, OrderRow, DisputeRow
  <1>3. FreezeMatchesStatus'
    BY <1>2 DEF FreezeMatchesStatus
  <1>4. to = order.status \/ CanMove(order.status, to)
    BY DEF ResolveTo
  <1> QED BY <1>1, <1>2, <1>3, <1>4 DEF None

LEMMA ResolveKeepsBooks ==
    ASSUME TypeOK, MoneyInv, NEW s \in Staff, Resolve(s)
    PROVE  MoneyInv'
  <1>1. CASE RefundInFull(s)
    <2>1. /\ ResolveTo(s, "cancelled") /\ RefundAllowed(Refundable)
          /\ Refundable \in Int
          /\ payment' = RefundedPayment(Refundable)
          /\ ledger' = RefundedLedger(Refundable)
      BY <1>1, Fields DEF RefundInFull, Refundable
    <2>2. /\ order.paid /\ order'.paid = order.paid /\ order'.status = "cancelled"
          /\ FreezeMatchesStatus' /\ dispute'.status # None
          /\ \A t \in Staff : caseFile'[t] # None => dispute'.status # None
          /\ dispute'.prior = dispute.prior
      BY <2>1, ResolveToBooks
    <2>3. /\ LedgerIdentity' /\ RefundsOnRecord' /\ ledger'.charge = ledger.charge
          /\ payment'.refunded = payment.refunded + Refundable
          /\ payment'.status # "succeeded"
      BY <2>1, <2>2, RefundBooks
    <2>4. payment'.refunded = Amount /\ Amount # 0
      BY <2>3, Fields DEF Refundable
    <2>5. ChargedOnce' /\ CaseRecords' /\ RefundHistory'
      BY <2>2, <2>3, <2>4, MoneyAssumption
      DEF MoneyInv, ChargedOnce, CaseRecords, RefundHistory, Working
    <2> QED BY <2>2, <2>3, <2>5 DEF MoneyInv
  <1>2. ASSUME NEW a \in 1 .. Amount, RefundInPart(s, a)
        PROVE  MoneyInv'
    <2>1. /\ ResolveTo(s, "completed") /\ RefundAllowed(a) /\ a \in Int /\ a > 0
          /\ payment' = RefundedPayment(a) /\ ledger' = RefundedLedger(a)
      BY <1>2 DEF RefundInPart
    <2>2. /\ order.paid /\ order'.paid = order.paid /\ order'.status = "completed"
          /\ FreezeMatchesStatus' /\ dispute'.status # None
          /\ \A t \in Staff : caseFile'[t] # None => dispute'.status # None
          /\ dispute'.prior = dispute.prior
      BY <2>1, ResolveToBooks
    <2>3. /\ LedgerIdentity' /\ RefundsOnRecord' /\ ledger'.charge = ledger.charge
          /\ payment'.refunded = payment.refunded + a
          /\ payment'.status # "succeeded"
      BY <2>1, <2>2, RefundBooks
    <2>4. payment'.refunded # 0
      BY <2>1, <2>3, Fields
    <2>5. ChargedOnce' /\ CaseRecords' /\ RefundHistory'
      BY <2>2, <2>3, <2>4
      DEF MoneyInv, ChargedOnce, CaseRecords, RefundHistory, Working
    <2> QED BY <2>2, <2>3, <2>5 DEF MoneyInv
  <1>3. ASSUME NEW to, ResolveTo(s, to), UNCHANGED <<payment, ledger>>,
               to \in {"completed", dispute.prior}
        PROVE  MoneyInv'
    <2>1. to # "disputed"
      BY <1>3 DEF MoneyInv, CaseRecords, None
    <2>2. /\ order.paid /\ order'.paid = order.paid /\ order'.status = to
          /\ to = order.status \/ CanMove(order.status, to)
          /\ FreezeMatchesStatus' /\ dispute'.status # None
          /\ \A t \in Staff : caseFile'[t] # None => dispute'.status # None
          /\ dispute'.prior = dispute.prior
      BY <1>3, <2>1, ResolveToBooks
    <2>3. 0 < payment'.refunded /\ payment'.refunded < Amount => order'.status = "completed"
      BY <1>3, <2>1, <2>2
      DEF MoneyInv, RefundHistory, CanMove, TRANSITIONS
    <2>4. LedgerIdentity' /\ ChargedOnce' /\ RefundsOnRecord'
      BY <1>3, <2>2 DEF MoneyInv, LedgerIdentity, ChargedOnce, RefundsOnRecord
    <2>5. CaseRecords' /\ RefundHistory'
      BY <1>3, <2>2, <2>3 DEF MoneyInv, CaseRecords, RefundHistory
    <2> QED BY <2>2, <2>4, <2>5 DEF MoneyInv
  <1>4. CASE ReleaseToExpert(s)
    BY <1>3, <1>4 DEF ReleaseToExpert
  <1>5. CASE CloseNoFault(s)
    BY <1>3, <1>5 DEF CloseNoFault
  <1> QED BY <1>1, <1>2, <1>4, <1>5 DEF Resolve

LEMMA DisputesKeepBooks == TypeOK /\ MoneyInv /\ DisputesNext => MoneyInv'
  <1> SUFFICES ASSUME TypeOK, MoneyInv, DisputesNext PROVE MoneyInv'
    OBVIOUS
  <1> USE DEF rows
  <1>1. CASE OpenDispute
    <2>1. /\ order.status \in Working /\ dispute.status = None
          /\ order.status \in {"active", "delivered", "revision_requested", "completed"}
          /\ order'.status = "disputed" /\ order'.has_open_dispute
          /\ order'.paid = order.paid
          /\ dispute' = [status |-> "open", prior |-> order.status]
          /\ UNCHANGED <<payment, ledger, caseFile>>
      BY <1>1 DEF OpenDispute, Frozen, Working, sessions, TypeOK, OrderRow
    <2>2. order.paid
      BY <2>1 DEF MoneyInv, ChargedOnce
    <2>3. LedgerIdentity' /\ ChargedOnce' /\ RefundsOnRecord' /\ FreezeMatchesStatus'
      BY <2>1, <2>2
      DEF MoneyInv, LedgerIdentity, ChargedOnce, RefundsOnRecord, FreezeMatchesStatus
    <2>4. CaseRecords'
      BY <2>1, <2>2 DEF MoneyInv, CaseRecords, None
    <2>5. RefundHistory'
      BY <2>1, <2>2 DEF MoneyInv, RefundHistory
    <2> QED BY <2>3, <2>4, <2>5 DEF MoneyInv
  <1>2. ASSUME NEW s \in Staff, ReadCase(s)
        PROVE  MoneyInv'
    BY <1>2 DEF ReadCase, MoneyInv, LedgerIdentity, ChargedOnce, RefundsOnRecord,
                FreezeMatchesStatus, CaseRecords, RefundHistory
  <1>3. ASSUME NEW s \in Staff, NEW to, MoveCase(s, to)
        PROVE  MoneyInv'
    <2>1. /\ UNCHANGED <<order, payment, ledger>> /\ dispute'.prior = dispute.prior
          /\ dispute'.status = to /\ to # None /\ caseFile[s] # None
      BY <1>3 DEF MoveCase, CASE_TRANSITIONS, TypeOK, DisputeRow, None
    <2>2. dispute.status # None /\ order.paid
      BY <2>1 DEF MoneyInv, CaseRecords
    <2>3. LedgerIdentity' /\ ChargedOnce' /\ RefundsOnRecord' /\ FreezeMatchesStatus'
      BY <2>1
      DEF MoneyInv, LedgerIdentity, ChargedOnce, RefundsOnRecord, FreezeMatchesStatus
    <2>4. CaseRecords' /\ RefundHistory'
      BY <2>1, <2>2 DEF MoneyInv, CaseRecords, RefundHistory
    <2> QED BY <2>3, <2>4 DEF MoneyInv
  <1>4. ASSUME NEW s \in Staff, Resolve(s)
        PROVE  MoneyInv'
    BY <1>4, ResolveKeepsBooks
  <1>5. ASSUME NEW s \in Staff, CloseCase(s)
        PROVE  MoneyInv'
    BY <1>3, <1>5 DEF CloseCase
  <1> QED BY <1>1, <1>2, <1>3, <1>4, <1>5 DEF DisputesNext

-----------------------------------------------------------------------------
(* The theorems.                                                           *)

LEMMA MoneyStep == TypeOK /\ MoneyInv /\ [Next]_vars => MoneyInv'
  <1>1. CASE UNCHANGED vars
    BY <1>1, QuietStep DEF vars, rows, sessions
  <1> QED BY <1>1, PaymentsKeepBooks, OrdersKeepBooks, DisputesKeepBooks DEF Next

\* The strengthened invariant holds of every order, whatever its amounts, its
\* workers and its support desk.
THEOREM MoneyIsInvariant == Spec => []MoneyInv
  BY MoneyInit, MoneyStep, TypeCorrect, PTL DEF Spec

\* Every ledger a payment, a refund or a resolution leaves satisfies the identity
\* that the nightly ledger_check recomputes.
THEOREM LedgerBalances == Spec => []LedgerIdentity
  <1>1. MoneyInv => LedgerIdentity
    BY DEF MoneyInv
  <1> QED BY <1>1, MoneyIsInvariant, PTL

\* An order is charged at most once, and is charged before work starts, although
\* the payment row is written without a lock by the pay view and the failure hook.
THEOREM OneCharge == Spec => []ChargedOnce
  <1>1. MoneyInv => ChargedOnce
    BY DEF MoneyInv
  <1> QED BY <1>1, MoneyIsInvariant, PTL

\* Refund entries and Payment.refunded_minor agree and stay within the charge.
THEOREM RefundsAreRecorded == Spec => []RefundsOnRecord
  <1>1. MoneyInv => RefundsOnRecord
    BY DEF MoneyInv
  <1> QED BY <1>1, MoneyIsInvariant, PTL

\* The payout freeze is on for every disputed order.
THEOREM DisputeFreezes == Spec => []FreezeMatchesStatus
  <1>1. MoneyInv => FreezeMatchesStatus
    BY DEF MoneyInv
  <1> QED BY <1>1, MoneyIsInvariant, PTL

-----------------------------------------------------------------------------
(* What no step does.                                                      *)

\* The part of the ledger a step outside the payment services, or a refund, leaves.
LEMMA RefundKeeps ==
    ASSUME TypeOK, NEW a, ledger' = RefundedLedger(a)
    PROVE  ledger'.charge = ledger.charge /\ ledger'.payout = ledger.payout
  BY DEF RefundedLedger, TypeOK, LedgerSums

\* Every outcome of a resolution, as far as the order and the ledger go.
LEMMA ResolveRows ==
    ASSUME TypeOK, NEW s \in Staff, Resolve(s)
    PROVE  /\ \E to : ResolveTo(s, to)
           /\ ledger'.charge = ledger.charge /\ ledger'.payout = ledger.payout
  <1>1. CASE RefundInFull(s)
    BY <1>1, RefundKeeps DEF RefundInFull
  <1>2. ASSUME NEW a \in 1 .. Amount, RefundInPart(s, a)
        PROVE  /\ \E to : ResolveTo(s, to)
               /\ ledger'.charge = ledger.charge /\ ledger'.payout = ledger.payout
    BY <1>2, RefundKeeps DEF RefundInPart
  <1>3. CASE ReleaseToExpert(s)
    BY <1>3 DEF ReleaseToExpert
  <1>4. CASE CloseNoFault(s)
    BY <1>4 DEF CloseNoFault
  <1> QED BY <1>1, <1>2, <1>3, <1>4 DEF Resolve

-----------------------------------------------------------------------------
(* Cancelled orders.                                                       *)

LEMMA CancelledStep ==
    ASSUME TypeOK, Next, order.status = "cancelled"
    PROVE  order'.status = "cancelled" /\ ledger'.charge = ledger.charge
  <1> USE DEF rows, sessions
  <1>1. CASE PaymentsNext
    <2>1. CASE ReadOrderToPay \/ StartPayment \/ RearmPayment \/ ConfirmFails
               \/ FailHookReads \/ FailHookSaves
      BY <2>1 DEF ReadOrderToPay, StartPayment, RearmPayment, ConfirmFails,
                  FailHookReads, FailHookSaves
    <2>2. CASE ConfirmPayment
      BY <2>2 DEF ConfirmPayment, Confirmable
    <2>3. CASE AdminFullRefund
      BY <2>3, RefundKeeps DEF AdminFullRefund
    <2>4. ASSUME NEW w \in Sweepers, SweepLists(w) \/ SweepChecks(w) \/ SweepCreates(w)
          PROVE  UNCHANGED <<order, ledger>>
      BY <2>4 DEF SweepLists, SweepChecks, SweepCreates
    <2>5. ASSUME NEW i \in DOMAIN payouts, SettlePayout(i) \/ FailPayout(i)
          PROVE  UNCHANGED order /\ ledger'.charge = ledger.charge
      BY <2>5 DEF SettlePayout, FailPayout, TypeOK, LedgerSums
    <2> QED BY <1>1, <2>1, <2>2, <2>3, <2>4, <2>5 DEF PaymentsNext
  <1>2. CASE OrdersNext
    <2>1. CASE SubmitDelivery \/ RequestRevision \/ ApproveDelivery \/ SweepUnpaid
      BY <2>1 DEF SubmitDelivery, Delivered, RequestRevision, ApproveDelivery, ApproveRows, SweepUnpaid
    <2>2. CASE AutoApproveReads \/ AutoApprove \/ CancelRequest
      BY <2>2 DEF AutoApproveReads, AutoApprove, ApproveRows, CancelRequest
    <2>3. CASE Cancel
      BY <2>3 DEF Cancel, CanMove, TRANSITIONS
    <2>4. CASE TimerElapses \/ DisputeWindowCloses
      BY <2>4 DEF TimerElapses, DisputeWindowCloses, TypeOK, OrderRow
    <2> QED BY <1>2, <2>1, <2>2, <2>3, <2>4 DEF OrdersNext
  <1>3. CASE DisputesNext
    <2>1. CASE OpenDispute
      BY <2>1 DEF OpenDispute
    <2>2. ASSUME NEW s \in Staff, ReadCase(s)
          PROVE  UNCHANGED <<order, ledger>>
      BY <2>2 DEF ReadCase
    <2>3. ASSUME NEW s \in Staff, NEW to, MoveCase(s, to)
          PROVE  UNCHANGED <<order, ledger>>
      BY <2>3 DEF MoveCase
    <2>4. ASSUME NEW s \in Staff, Resolve(s)
          PROVE  order'.status = "cancelled" /\ ledger'.charge = ledger.charge
      <3>1. PICK to : ResolveTo(s, to)
        BY <2>4, ResolveRows
      <3>2. to = "cancelled"
        BY <3>1 DEF ResolveTo, CanMove, TRANSITIONS
      <3>3. order'.status = to
        BY <3>1 DEF ResolveTo, TypeOK, OrderRow
      <3> QED BY <2>4, <3>2, <3>3, ResolveRows
    <2> QED BY <1>3, <2>1, <2>2, <2>3, <2>4 DEF DisputesNext, CloseCase
  <1> QED BY <1>1, <1>2, <1>3 DEF Next

\* A late confirmation, a worker with an old list or a support request with an
\* old dispute on screen never charges or revives a cancelled order.
THEOREM CancelledForGood == Spec => CancelledIsFinal
  <1>1. TypeOK /\ [Next]_vars
          => [order.status = "cancelled" =>
                order'.status = "cancelled" /\ ledger'.charge = ledger.charge]_vars
    BY CancelledStep
  <1> QED BY <1>1, TypeCorrect, PTL DEF Spec, CancelledIsFinal

-----------------------------------------------------------------------------
(* Transfers.                                                              *)

LEMMA DisputedStep ==
    ASSUME TypeOK, FreezeMatchesStatus, Next, order.status = "disputed"
    PROVE  ledger'.payout = ledger.payout
  <1> USE DEF rows, sessions
  <1>1. CASE PaymentsNext
    <2>1. CASE ReadOrderToPay \/ StartPayment \/ RearmPayment \/ ConfirmFails
               \/ FailHookReads \/ FailHookSaves
      BY <2>1 DEF ReadOrderToPay, StartPayment, RearmPayment, ConfirmFails,
                  FailHookReads, FailHookSaves
    <2>2. CASE ConfirmPayment
      BY <2>2 DEF ConfirmPayment, Confirmable
    <2>3. CASE AdminFullRefund
      BY <2>3, RefundKeeps DEF AdminFullRefund
    <2>4. ASSUME NEW w \in Sweepers, SweepLists(w) \/ SweepChecks(w) \/ SweepCreates(w)
          PROVE  UNCHANGED ledger
      BY <2>4 DEF SweepLists, SweepChecks, SweepCreates
    <2>5. ASSUME NEW i \in DOMAIN payouts, SettlePayout(i) \/ FailPayout(i)
          PROVE  UNCHANGED ledger
      BY <2>5 DEF SettlePayout, FailPayout, FreezeMatchesStatus
    <2> QED BY <1>1, <2>1, <2>2, <2>3, <2>4, <2>5 DEF PaymentsNext
  <1>2. CASE OrdersNext
    <2>1. CASE SubmitDelivery \/ RequestRevision \/ ApproveDelivery \/ SweepUnpaid
      BY <2>1 DEF SubmitDelivery, Delivered, RequestRevision, ApproveDelivery, ApproveRows, SweepUnpaid
    <2>2. CASE AutoApproveReads \/ AutoApprove \/ CancelRequest
      BY <2>2 DEF AutoApproveReads, AutoApprove, ApproveRows, CancelRequest
    <2>3. CASE Cancel \/ TimerElapses \/ DisputeWindowCloses
      BY <2>3 DEF Cancel, TimerElapses, DisputeWindowCloses
    <2> QED BY <1>2, <2>1, <2>2, <2>3 DEF OrdersNext
  <1>3. CASE DisputesNext
    BY <1>3, ResolveRows DEF DisputesNext, OpenDispute, ReadCase, MoveCase, CloseCase
  <1> QED BY <1>1, <1>2, <1>3 DEF Next

\* The freeze works: whatever a request or a worker had read before the dispute
\* was opened, no transfer leaves while the order is disputed.
THEOREM DisputesHoldTransfers == Spec => NoTransferInDispute
  <1>1. TypeOK /\ FreezeMatchesStatus /\ [Next]_vars
          => [order.status = "disputed" => ledger'.payout = ledger.payout]_vars
    BY DisputedStep
  <1> QED BY <1>1, TypeCorrect, DisputeFreezes, PTL DEF Spec, NoTransferInDispute

-----------------------------------------------------------------------------
(* Full refunds.  Confirmation books a fresh split when the snapshot's     *)
(* commission is zero, while a refund reverses by the snapshot: the two    *)
(* agree when the snapshot is not zero, or the order's rate gives zero.    *)

SplitsAgree == Commission > 0 \/ RateCommission = 0

\* Refunding the whole charge in one go takes back both shares.
LEMMA WholeRefund ==
    ASSUME SplitsAgree
    PROVE  ReversedCommission(Amount) = BookedCommission /\ ReversedCredit(Amount) = BookedCredit
  <1>1. BookedCommission = Commission
    BY MoneyAssumption DEF SplitsAgree, BookedCommission
  <1>2. /\ Commission \in Nat /\ Amount - Commission \in Nat
        /\ Commission + (Amount - Commission) = Amount /\ Amount > 0
    BY MoneyAssumption
  <1>3. /\ FirstShare(Amount, Commission, Amount - Commission) = Commission
        /\ SecondShare(Amount, Commission, Amount - Commission) = Amount - Commission
    BY <1>2, WholeIsExact
  <1> QED BY <1>1, <1>3 DEF ReversedCommission, ReversedCredit, BookedCredit

\* The refund of all that is left, on a payment nothing was refunded of yet.
LEMMA RefundOfAll ==
    ASSUME TypeOK, MoneyInv, SplitsAgree, payment.refunded = 0,
           RefundAllowed(Refundable), order'.paid = order.paid,
           payment' = RefundedPayment(Refundable), ledger' = RefundedLedger(Refundable)
    PROVE  ledger'.commission = 0 /\ ledger'.expert_credit = 0
  <1>1. Refundable = Amount /\ Refundable \in Int
    BY Fields DEF Refundable
  <1>2. /\ ledger'.commission = BookedCommission - ReversedCommission(Amount)
        /\ ledger'.expert_credit = BookedCredit - ReversedCredit(Amount)
    BY <1>1, RefundBooks
  <1> QED BY <1>2, WholeRefund, BookedParts

\* A step that leaves the refunded sum and both shares as they are.
LEMMA SharesKept ==
    ASSUME FullRefundUnwinds, payment'.refunded = payment.refunded,
           ledger'.commission = ledger.commission,
           ledger'.expert_credit = ledger.expert_credit
    PROVE  FullRefundUnwinds'
  BY DEF FullRefundUnwinds

LEMMA UnwindPayments ==
    ASSUME TypeOK, MoneyInv, FullRefundUnwinds, SplitsAgree, PaymentsNext
    PROVE  FullRefundUnwinds'
  <1> USE DEF rows, sessions
  <1>1. CASE ReadOrderToPay \/ FailHookReads
    BY <1>1, SharesKept DEF ReadOrderToPay, FailHookReads
  <1>2. CASE StartPayment \/ RearmPayment \/ ConfirmFails \/ FailHookSaves
    <2>1. payment'.refunded = payment.refunded /\ UNCHANGED ledger
      BY <1>2 DEF StartPayment, RearmPayment, ConfirmFails, FailHookSaves,
                  TypeOK, PaymentRow
    <2> QED BY <2>1, SharesKept
  <1>3. CASE ConfirmPayment
    <2>1. payment.refunded = 0
      BY <1>3, Fields DEF ConfirmPayment, MoneyInv, ChargedOnce, RefundsOnRecord
    <2>2. payment'.refunded = 0
      BY <1>3, <2>1 DEF ConfirmPayment, TypeOK, PaymentRow
    <2> QED BY <2>2, MoneyAssumption DEF FullRefundUnwinds
  <1>4. CASE AdminFullRefund
    BY <1>4, RefundOfAll DEF AdminFullRefund, FullRefundUnwinds, MoneyInv, RefundHistory
  <1>5. ASSUME NEW w \in Sweepers, SweepLists(w) \/ SweepChecks(w) \/ SweepCreates(w)
        PROVE  FullRefundUnwinds'
    BY <1>5, SharesKept DEF SweepLists, SweepChecks, SweepCreates
  <1>6. ASSUME NEW i \in DOMAIN payouts, SettlePayout(i) \/ FailPayout(i)
        PROVE  FullRefundUnwinds'
    <2>1. /\ UNCHANGED payment /\ ledger'.commission = ledger.commission
          /\ ledger'.expert_credit = ledger.expert_credit
      BY <1>6 DEF SettlePayout, FailPayout, TypeOK, LedgerSums
    <2> QED BY <2>1, SharesKept
  <1> QED BY <1>1, <1>2, <1>3, <1>4, <1>5, <1>6 DEF PaymentsNext

LEMMA UnwindOrders ==
    ASSUME TypeOK, FullRefundUnwinds, OrdersNext
    PROVE  FullRefundUnwinds'
  <1>1. payment'.refunded = payment.refunded
    <2>1. CASE Cancel
      BY <2>1 DEF Cancel, Voided, TypeOK, PaymentRow
    <2> QED BY <2>1
            DEF OrdersNext, SubmitDelivery, Delivered, RequestRevision, ApproveDelivery,
                ApproveRows, AutoApproveReads, AutoApprove, SweepUnpaid,
                CancelRequest, TimerElapses, DisputeWindowCloses, rows
  <1>2. UNCHANGED ledger
    BY DEF OrdersNext, SubmitDelivery, Delivered, RequestRevision, ApproveDelivery,
           ApproveRows, AutoApproveReads, AutoApprove, Cancel, SweepUnpaid,
           CancelRequest, TimerElapses, DisputeWindowCloses, rows
  <1> QED BY <1>1, <1>2, SharesKept

LEMMA UnwindDisputes ==
    ASSUME TypeOK, MoneyInv, FullRefundUnwinds, SplitsAgree, DisputesNext
    PROVE  FullRefundUnwinds'
  <1>1. ASSUME NEW s \in Staff, RefundInFull(s)
        PROVE  FullRefundUnwinds'
    <2>1. /\ ResolveTo(s, "cancelled") /\ RefundAllowed(Refundable)
          /\ payment' = RefundedPayment(Refundable)
          /\ ledger' = RefundedLedger(Refundable)
      BY <1>1 DEF RefundInFull
    <2>2. order'.paid = order.paid
      BY <2>1, ResolveToBooks
    <2>3. payment.refunded = 0
      <3>1. order.status # "completed"
        BY <2>1 DEF ResolveTo, CanMove, TRANSITIONS
      <3>2. payment.refunded < Amount
        BY <2>1, Fields DEF RefundAllowed, Refundable
      <3> QED BY <3>1, <3>2, Fields DEF MoneyInv, RefundHistory
    <2> QED BY <2>1, <2>2, <2>3, RefundOfAll DEF FullRefundUnwinds
  <1>2. ASSUME NEW s \in Staff, NEW a \in 1 .. Amount, RefundInPart(s, a)
        PROVE  FullRefundUnwinds'
    <2>1. payment'.refunded < Amount
      BY <1>2, Fields DEF RefundInPart, Refundable, RefundedPayment
    <2> QED BY <2>1, MoneyAssumption DEF FullRefundUnwinds
  <1>3. ASSUME NEW s \in Staff, ReleaseToExpert(s) \/ CloseNoFault(s)
        PROVE  FullRefundUnwinds'
    BY <1>3, SharesKept DEF ReleaseToExpert, CloseNoFault
  <1>4. ASSUME NEW s \in Staff, NEW to, ReadCase(s) \/ MoveCase(s, to)
        PROVE  FullRefundUnwinds'
    BY <1>4, SharesKept DEF ReadCase, MoveCase, rows
  <1>5. CASE OpenDispute
    BY <1>5, SharesKept DEF OpenDispute
  <1> QED BY <1>1, <1>2, <1>3, <1>4, <1>5 DEF DisputesNext, Resolve, CloseCase

\* However the refunds of a charge were mixed, nothing of a fully refunded charge
\* stays booked to the platform or the expert -- provided the two splits agree.
THEOREM FullRefundLeavesNothing == ASSUME SplitsAgree PROVE Spec => []FullRefundUnwinds
  <1>1. Init => FullRefundUnwinds
    BY MoneyAssumption DEF Init, FullRefundUnwinds
  <1>2. TypeOK /\ MoneyInv /\ FullRefundUnwinds /\ [Next]_vars => FullRefundUnwinds'
    <2>1. CASE UNCHANGED vars
      BY <2>1, SharesKept DEF vars, rows
    <2> QED BY <2>1, UnwindPayments, UnwindOrders, UnwindDisputes DEF Next
  <1> QED BY <1>1, <1>2, TypeCorrect, MoneyIsInvariant, PTL DEF Spec

-----------------------------------------------------------------------------
(* What the rows say about a charge and its refunds.                       *)

\* "Commission is NEVER recomputed": until a refund both sides of the ledger show
\* the order's snapshot, provided the two splits agree.
THEOREM SnapshotIsKept == ASSUME SplitsAgree PROVE Spec => []SnapshotIsBooked
  <1>1. BookedCommission = Commission
    BY MoneyAssumption DEF SplitsAgree, BookedCommission
  <1>2. MoneyInv => SnapshotIsBooked
    BY <1>1 DEF MoneyInv, RefundHistory, SnapshotIsBooked, BookedCredit
  <1> QED BY <1>2, MoneyIsInvariant, PTL

\* And only then: an order whose snapshot is zero while its default rate is not is
\* booked at that rate, so no charge of it shows the snapshot before a refund.
THEOREM SnapshotIsLost ==
    ASSUME ~SplitsAgree
    PROVE  Spec => [](order.paid /\ payment.refunded = 0 =>
                        ledger.commission = RateCommission /\ ~SnapshotIsBooked)
  <1>1. Commission = 0 /\ RateCommission # 0 /\ BookedCommission = RateCommission
    BY MoneyAssumption DEF SplitsAgree, BookedCommission
  <1>2. MoneyInv => (order.paid /\ payment.refunded = 0 =>
                       ledger.commission = RateCommission /\ ~SnapshotIsBooked)
    BY <1>1 DEF MoneyInv, RefundHistory, SnapshotIsBooked
  <1> QED BY <1>2, MoneyIsInvariant, PTL

\* The shares, the charge and the refunds are as they were; the payment's status is
\* not one of the two that only a refund gives.
BooksKept ==
    /\ ledger'.charge = ledger.charge /\ ledger'.refund = ledger.refund
    /\ ledger'.commission = ledger.commission
    /\ ledger'.expert_credit = ledger.expert_credit
    /\ order'.paid = order.paid
    /\ payment'.refunded = payment.refunded
    /\ payment'.status \in {payment.status, "pending", "failed", "canceled"}

\* A refund of a, by the admin action or by a resolution.
Refunds(a) ==
    /\ RefundAllowed(a)
    /\ payment' = RefundedPayment(a) /\ ledger' = RefundedLedger(a)
    /\ order'.paid = order.paid
    /\ \/ payment.status = "succeeded"
       \/ \E s \in Staff : \E to : ResolveTo(s, to)

\* Every step confirms the payment, refunds a part of it, or leaves the books alone.
LEMMA BooksMoveBy ==
    ASSUME TypeOK, Next
    PROVE  ConfirmPayment \/ BooksKept \/ \E a \in 1 .. Amount : Refunds(a)
  <1> USE DEF rows, sessions
  <1>1. ASSUME UNCHANGED <<payment, ledger>>, order'.paid = order.paid PROVE BooksKept
    BY <1>1 DEF BooksKept
  <1>2. ASSUME RefundAllowed(Refundable) PROVE Refundable \in 1 .. Amount
    BY <1>2, Fields DEF RefundAllowed, Refundable
  <1>3. ASSUME PaymentsNext, ~ConfirmPayment
        PROVE  BooksKept \/ \E a \in 1 .. Amount : Refunds(a)
    <2>1. CASE ReadOrderToPay \/ FailHookReads
      BY <1>1, <2>1 DEF ReadOrderToPay, FailHookReads
    <2>2. CASE StartPayment \/ RearmPayment \/ ConfirmFails \/ FailHookSaves
      BY <2>2 DEF StartPayment, RearmPayment, ConfirmFails, FailHookSaves, BooksKept,
                  TypeOK, PaymentRow
    <2>3. CASE AdminFullRefund
      BY <1>2, <2>3 DEF AdminFullRefund, Refunds
    <2>4. ASSUME NEW w \in Sweepers, SweepLists(w) \/ SweepChecks(w) \/ SweepCreates(w)
          PROVE  BooksKept
      BY <1>1, <2>4 DEF SweepLists, SweepChecks, SweepCreates
    <2>5. ASSUME NEW i \in DOMAIN payouts, SettlePayout(i) \/ FailPayout(i)
          PROVE  BooksKept
      BY <2>5 DEF SettlePayout, FailPayout, BooksKept, TypeOK, LedgerSums
    <2> QED BY <1>3, <2>1, <2>2, <2>3, <2>4, <2>5 DEF PaymentsNext
  <1>4. ASSUME OrdersNext PROVE BooksKept
    <2>1. UNCHANGED ledger
      BY <1>4
      DEF OrdersNext, SubmitDelivery, RequestRevision, ApproveDelivery, ApproveRows,
          AutoApproveReads, AutoApprove, Cancel, SweepUnpaid, CancelRequest,
          TimerElapses, DisputeWindowCloses
    <2>2. /\ payment'.refunded = payment.refunded
          /\ payment'.status \in {payment.status, "canceled"}
      <3>1. CASE Cancel
        BY <3>1 DEF Cancel, Voided, TypeOK, PaymentRow
      <3>2. CASE ~Cancel
        <4>1. UNCHANGED payment
          BY <1>4, <3>2
          DEF OrdersNext, SubmitDelivery, RequestRevision, ApproveDelivery, ApproveRows,
              AutoApproveReads, AutoApprove, SweepUnpaid, CancelRequest, TimerElapses,
              DisputeWindowCloses
        <4> QED BY <4>1
      <3> QED BY <3>1, <3>2
    <2>3. order'.paid = order.paid
      <3>1. CASE SubmitDelivery \/ RequestRevision \/ ApproveDelivery \/ AutoApprove
        BY <3>1 DEF SubmitDelivery, Delivered, RequestRevision, ApproveDelivery,
                    AutoApprove, ApproveRows, TypeOK, OrderRow
      <3>2. CASE ~(SubmitDelivery \/ RequestRevision \/ ApproveDelivery \/ AutoApprove)
        BY <1>4, <3>2 DEF OrdersNext, AutoApproveReads, Cancel, SweepUnpaid, CancelRequest,
                          TimerElapses, DisputeWindowCloses, TypeOK, OrderRow
      <3> QED BY <3>1, <3>2
    <2> QED BY <2>1, <2>2, <2>3 DEF BooksKept
  <1>5. ASSUME DisputesNext PROVE BooksKept \/ \E a \in 1 .. Amount : Refunds(a)
    <2>1. ASSUME NEW s \in Staff, NEW to, ResolveTo(s, to) PROVE order'.paid = order.paid
      BY <2>1 DEF ResolveTo, TypeOK, OrderRow
    <2>2. ASSUME NEW s \in Staff, RefundInFull(s)
          PROVE  \E a \in 1 .. Amount : Refunds(a)
      BY <1>2, <2>1, <2>2 DEF RefundInFull, Refunds
    <2>3. ASSUME NEW s \in Staff, NEW a \in 1 .. Amount, RefundInPart(s, a)
          PROVE  Refunds(a)
      BY <2>1, <2>3 DEF RefundInPart, Refunds
    <2>4. ASSUME NEW s \in Staff, ReleaseToExpert(s) \/ CloseNoFault(s)
          PROVE  BooksKept
      BY <1>1, <2>1, <2>4 DEF ReleaseToExpert, CloseNoFault
    <2>5. ASSUME NEW s \in Staff, NEW to, ReadCase(s) \/ MoveCase(s, to)
          PROVE  BooksKept
      BY <1>1, <2>5 DEF ReadCase, MoveCase
    <2>6. CASE OpenDispute
      BY <1>1, <2>6 DEF OpenDispute, Frozen, TypeOK, OrderRow
    <2> QED BY <1>5, <2>2, <2>3, <2>4, <2>5, <2>6 DEF DisputesNext, Resolve, CloseCase
  <1> QED BY <1>3, <1>4, <1>5 DEF Next

\* A payment that says refunded, or refunded in part, was.
RefundStatusIsTrue ==
    /\ payment.status = "refunded" => payment.refunded = Amount
    /\ payment.status = "partially_refunded" =>
          0 < payment.refunded /\ payment.refunded < Amount

\* No stale save of the pay view or of the failure hook, no voided attempt and no
\* second refund lets the payment claim a refund that was not made.
THEOREM RefundsAreTrue == Spec => []RefundStatusIsTrue
  <1>1. Init => RefundStatusIsTrue
    BY DEF Init, RefundStatusIsTrue, None
  <1>2. TypeOK /\ RefundStatusIsTrue /\ [Next]_vars => RefundStatusIsTrue'
    <2> SUFFICES ASSUME TypeOK, RefundStatusIsTrue, [Next]_vars PROVE RefundStatusIsTrue'
      OBVIOUS
    <2>1. CASE UNCHANGED vars \/ BooksKept
      BY <2>1 DEF vars, rows, BooksKept, RefundStatusIsTrue
    <2>2. CASE ConfirmPayment
      BY <2>2 DEF ConfirmPayment, RefundStatusIsTrue, TypeOK, PaymentRow
    <2>3. ASSUME NEW a \in 1 .. Amount, Refunds(a) PROVE RefundStatusIsTrue'
      <3>1. /\ a \in Nat /\ 0 < a /\ a <= Amount - payment.refunded
            /\ payment.refunded \in Nat
        BY <2>3, Fields DEF Refunds, RefundAllowed, Refundable
      <3>2. /\ payment'.refunded = payment.refunded + a
            /\ payment'.status = IF payment.refunded + a >= Amount THEN "refunded"
                                 ELSE "partially_refunded"
        BY <2>3 DEF Refunds, RefundedPayment
      <3> QED BY <3>1, <3>2, Fields DEF RefundStatusIsTrue
    <2> QED BY <2>1, <2>2, <2>3, BooksMoveBy
  <1> QED BY <1>1, <1>2, TypeCorrect, PTL DEF Spec

-----------------------------------------------------------------------------
(* The student's half of the escrow: what was collected and what went back. *)
(* Unlike the whole of it, which also speaks of payouts, it holds for any   *)
(* number of workers and support accounts and whatever split was booked.    *)

Student == INSTANCE Escrow WITH
    Price <- Amount, Credit <- BookedCredit,
    collected <- ledger.charge, returned <- -ledger.refund,
    paidOut <- 0, settled <- FALSE

\* The escrow counts what went out as positive amounts.
LEMMA NegatedZero ==
    ASSUME NEW n, n = 0
    PROVE  -n = 0
  <1> DEFINE m == -n
  <1>1. m <= 0 /\ 0 <= m /\ m \in Int
    OBVIOUS
  <1> HIDE DEF m
  <1>2. m = 0
    BY <1>1
  <1> QED BY <1>2 DEF m

\* Every refund, of the admin or of a resolution that acts on an old case, gives back
\* something, and together they stay within what was collected.
LEMMA StudentGetsBack ==
    ASSUME TypeOK, MoneyInv, NEW a \in 1 .. Amount, Refunds(a)
    PROVE  Student!Return
  <1>1. a \in Int /\ RefundAllowed(a) /\ payment' = RefundedPayment(a)
        /\ ledger' = RefundedLedger(a) /\ order'.paid = order.paid
    BY DEF Refunds
  <1>2. ledger'.charge = ledger.charge /\ ledger'.refund = ledger.refund - a
    BY <1>1 DEF RefundedLedger, TypeOK, LedgerSums
  <1>3. ledger.refund + payment.refunded = 0 /\ ledger.charge = Amount
    BY <1>1, RefundBooks DEF MoneyInv, RefundsOnRecord, ChargedOnce
  <1>4. 0 < a /\ a <= Amount - payment.refunded
    BY <1>1 DEF RefundAllowed, Refundable
  <1>5. -(ledger'.refund) \in (-ledger.refund) + 1 .. ledger.charge
    BY <1>1, <1>2, <1>3, <1>4, Fields
  <1> QED BY <1>2, <1>5 DEF Student!Return

\* The price is collected at most once and at most the price goes back, step by step
\* and without any assumption on who works at the same time.
THEOREM StudentSideOfEscrow == Spec => Student!EscrowSpec
  <1>1. Init => Student!EscrowInit
    <2> SUFFICES ASSUME Init PROVE Student!EscrowInit
      OBVIOUS
    <2>1. ledger.charge = 0 /\ ledger.refund = 0
      BY DEF Init
    <2>2. -ledger.refund = 0
      BY <2>1, Zenon, NegatedZero
    <2> QED BY <2>1, <2>2 DEF Student!EscrowInit
  <1>2. TypeOK /\ MoneyInv /\ [Next]_vars => [Student!EscrowNext]_(Student!escrowVars)
    <2> SUFFICES ASSUME TypeOK, MoneyInv, [Next]_vars
                 PROVE  [Student!EscrowNext]_(Student!escrowVars)
      OBVIOUS
    <2>1. CASE UNCHANGED vars \/ BooksKept
      BY <2>1 DEF vars, rows, BooksKept, Student!escrowVars
    <2>2. CASE ConfirmPayment
      <3>1. /\ ledger.charge = 0
            /\ ledger'.charge = Amount /\ ledger'.refund = ledger.refund
        BY <2>2, Fields DEF ConfirmPayment, MoneyInv, ChargedOnce, TypeOK, LedgerSums
      <3> QED BY <3>1 DEF Student!EscrowNext, Student!Collect
    <2>3. ASSUME NEW a \in 1 .. Amount, Refunds(a)
          PROVE  [Student!EscrowNext]_(Student!escrowVars)
      BY <2>3, StudentGetsBack DEF Student!EscrowNext
    <2> QED BY <2>1, <2>2, <2>3, BooksMoveBy
  <1> QED BY <1>1, <1>2, TypeCorrect, MoneyIsInvariant, PTL
          DEF Spec, Student!EscrowSpec
=============================================================================
