----------------------------- MODULE OrderMoney -----------------------------
(***************************************************************************)
(* One order with everything that moves it or its money: the payment       *)
(* rails, the order workflow, the dispute desk and the worker jobs, in any *)
(* interleaving of their transactions.                                     *)
(***************************************************************************)
EXTENDS Disputes, SequencesExt

Next == PaymentsNext \/ OrdersNext \/ DisputesNext

Spec == Init /\ [][Next]_vars

\* The worker runs its cron jobs for ever and time passes; nobody is obliged
\* to pay, deliver, approve, refund, settle or decide a dispute.
JobFairness ==
    /\ WF_vars(TimerElapses)
    /\ WF_vars(AutoApproveReads)
    /\ WF_vars(AutoApprove)
    /\ WF_vars(SweepUnpaid)
    /\ \A w \in Sweepers :
          /\ WF_vars(SweepLists(w))
          /\ WF_vars(SweepChecks(w))
          /\ WF_vars(SweepCreates(w))

LiveSpec == Spec /\ JobFairness

-----------------------------------------------------------------------------
(* The ledger against the rows. *)

\* The identity ledger_check recomputes every night: what came in and went
\* back equals what was allocated (no fee entry is ever written).
LedgerIdentity ==
    ledger.charge + ledger.refund = ledger.commission + ledger.expert_credit

Working == {"active", "delivered", "revision_requested", "completed", "disputed"}

\* An order is charged once, with its own amount, however often its payment
\* row is re-armed, failed or overwritten; no work starts without the charge.
ChargedOnce ==
    /\ ledger.charge = IF order.paid THEN Amount ELSE 0
    /\ order.status \in Working => order.paid

\* Payment.refunded_minor and the refund entries agree, and nothing is
\* refunded that was not charged: what a stale pay view or failure event
\* writes into the payment never makes it refundable a second time.
RefundsOnRecord ==
    /\ ledger.refund + payment.refunded = 0
    /\ payment.refunded <= ledger.charge

\* Once the whole charge is refunded neither the platform nor the expert keeps
\* a share: no mix of partial and full refunds, rounded one by one by
\* allocate, leaves a unit on either side.
FullRefundUnwinds ==
    payment.refunded = Amount => ledger.commission = 0 /\ ledger.expert_credit = 0

\* "Commission is NEVER recomputed here: the order's booked snapshot is the
\* immutable truth": until a refund, both sides of the ledger show the snapshot.
SnapshotIsBooked ==
    order.paid /\ payment.refunded = 0 =>
        ledger.commission = Commission /\ ledger.expert_credit = Amount - Commission

-----------------------------------------------------------------------------
(* Disputes and payouts. *)

\* has_open_dispute, the flag settlement looks at, is set for every disputed
\* order, and an order it is set for never moves on other than to cancelled.
FreezeMatchesStatus ==
    /\ order.status = "disputed" => order.has_open_dispute
    /\ order.has_open_dispute => order.status \in {"disputed", "cancelled"}

\* A payout exists, or a sweeper is about to create one, only for an order
\* whose completion was approved or decided, disputed or cancelled since.
PayoutNeedsCompletion ==
    (payouts # <<>> \/ \E w \in Sweepers : sweep[w].at # "idle") =>
        \/ order.status \in {"completed", "cancelled"}
        \/ order.status = "disputed" /\ dispute.prior = "completed"

\* "Create the (single) payout": approval, the sweeper and a dispute never
\* leave an order with two.
SinglePayout == Len(payouts) <= 1

\* Everything transferred to the expert together stays within the credit
\* booked when the order was charged.
NeverOverpaid == -ledger.payout <= (IF order.paid THEN BookedCredit ELSE 0)

PaidAmount(p) == IF p.status = "paid" THEN p.amount ELSE 0

\* The payout entries add up to the amounts of the paid rows: nothing changes
\* a payout's amount, or takes it out of paid, after its transfer.
PayoutsReconcile ==
    ledger.payout = -FoldLeft(LAMBDA sum, p : sum + PaidAmount(p), 0, payouts)

\* No transfer leaves while the order is in dispute, whichever request or
\* worker had read the order or its payout before the dispute was opened.
NoTransferInDispute ==
    [][order.status = "disputed" => ledger'.payout = ledger.payout]_vars

\* "amount = remaining expert_credit ledger balance": no transfer takes the
\* total paid to the expert above the credit the ledger shows at that moment,
\* so a refund and a payout of the same money exclude each other.
TransfersAreCovered ==
    [][ledger'.payout # ledger.payout => -ledger'.payout <= ledger.expert_credit]_vars

\* "A resolved dispute is never reopened": no support request moves it back,
\* however old the dispute it had on screen.
ResolvedStaysResolved ==
    [][dispute.status \in {"resolved", "closed"} =>
          dispute'.status \in {"resolved", "closed"}]_vars

\* start_payment re-arms an attempt "after failure/cancellation": a payment that
\* has succeeded is never put back to pending, or it could not be refunded.
SucceededIsNotRearmed ==
    [][payment.status = "succeeded" => payment'.status # "pending"]_vars

-----------------------------------------------------------------------------
(* The order's own history. *)

\* The revision counter and the delivery rows tell one story, disputes
\* included: a delivery sent back under every number below the counter, none
\* above it, and the one under it not sent back.
RevisionHistory ==
    \A r \in Revisions :
        /\ r < order.revisions_used => deliveries[r] = "revision_requested"
        /\ r > order.revisions_used => deliveries[r] = None
        /\ r = order.revisions_used => deliveries[r] # "revision_requested"

\* Whenever the expert is to deliver, the delivery's number is free: the unique
\* constraint never refuses the work the order is waiting for.
NextDeliveryFits ==
    order.status \in {"active", "revision_requested"} => deliveries[NextRevision] = None

\* A cancelled order is final: a late confirmation neither charges nor
\* reactivates it, and a stale resolution cannot bring it back.
CancelledIsFinal ==
    [][order.status = "cancelled" =>
          order'.status = "cancelled" /\ ledger'.charge = ledger.charge]_vars

-----------------------------------------------------------------------------
(* The inductive strengthening of the money invariants. *)

\* The facts about the other rows they rest on: a dispute row, and a request
\* that has read one, exist for a paid order only, it remembers a status an
\* order can be disputed in, and a payment that can be refunded was charged.
CaseRecords ==
    /\ dispute.status # None => order.paid
    /\ \A s \in Staff : caseFile[s] # None => dispute.status # None
    /\ dispute.prior \in {None, "active", "delivered", "revision_requested", "completed"}
    /\ payment.status \in {"succeeded", "partially_refunded", "refunded"} => order.paid

\* What the books show by how much was refunded: nothing before the charge, the
\* booked split before a refund, and a partial refund only on an order that a
\* resolution completed for good.
RefundHistory ==
    /\ ~order.paid => ledger.commission = 0 /\ ledger.expert_credit = 0
    /\ order.paid /\ payment.refunded = 0 =>
          ledger.commission = BookedCommission /\ ledger.expert_credit = BookedCredit
    /\ payment.status = "succeeded" => payment.refunded = 0
    /\ 0 < payment.refunded /\ payment.refunded < Amount =>
          order.status = "completed" /\ dispute.status # None

\* The money invariants together with that strengthening: inductive under Next.
MoneyInv ==
    /\ LedgerIdentity /\ ChargedOnce /\ RefundsOnRecord
    /\ FreezeMatchesStatus
    /\ CaseRecords /\ RefundHistory

-----------------------------------------------------------------------------
(* The promise about the money, and progress. *)

Promise == INSTANCE Escrow WITH
    Price <- Amount,
    Credit <- BookedCredit,
    collected <- ledger.charge,
    returned <- -ledger.refund,
    paidOut <- -ledger.payout,
    settled <- (\E i \in DOMAIN payouts : payouts[i].status = "paid")

\* The order's rows implement the escrow.
ImplementsEscrow == Promise!EscrowSpec

\* No delivery waits for ever: reviewed, disputed, cancelled or auto-approved.
DeliveryIsSettled == order.status = "delivered" ~> order.status # "delivered"

\* What the books owe the expert of a completed order, refunds deducted.  (A success that
\* a re-arm or a failure was saved over is left to SucceededIsNotRearmed.)
Earned ==
    /\ order.status = "completed"
    /\ ~order.has_open_dispute
    /\ payment.status \in {"succeeded", "partially_refunded"}
    /\ ledger.expert_credit >= PayoutMin

\* docs/workflows/payments.md:49, "for each eligible completed order", and :109, "amount =
\* remaining `expert_credit` ledger balance": an expert's earned credit gets its payout,
\* also when the order was completed by a resolution, which schedules none, and also
\* when that gave a part of the price back.
EarnedIsScheduled == Earned ~> (payouts # <<>> \/ ~Earned)

\* An unpaid order does not stay open for ever.
UnpaidEnds == order.status = "awaiting_payment" ~> order.status # "awaiting_payment"
=============================================================================
