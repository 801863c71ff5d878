------------------------------ MODULE Disputes ------------------------------
(***************************************************************************)
(* disputes/services.py and the admin actions that call it.  An admin      *)
(* request loads the Dispute object first; take_case, await_response,      *)
(* resume_review, resolve and close then test the status that object       *)
(* carries -- caseFile[s] -- and none of them reads the row again.         *)
(***************************************************************************)
EXTENDS Orders

\* The (from, to) pairs of disputes.services.TRANSITIONS.
CASE_TRANSITIONS ==
    {<<"open", "under_review">>, <<"open", "awaiting_response">>,
     <<"awaiting_response", "under_review">>, <<"under_review", "resolved">>,
     <<"resolved", "closed">>}

\* Slip: the freeze is left out.
NotFrozen(o) == o

\* _freeze.
Frozen(o) == [o EXCEPT !.has_open_dispute = TRUE]

\* open_dispute: a party of the order, once per order, inside the window.
OpenDispute ==
    /\ dispute.status = None
    /\ \/ order.status \in {"active", "delivered", "revision_requested"}
       \/ order.status = "completed" /\ order.completed_at = "open"
    /\ dispute' = [status |-> "open", prior |-> order.status]
    /\ order' = Frozen([order EXCEPT !.status = "disputed"])
    /\ UNCHANGED <<request, deliveries, payment, ledger, payouts, sessions>>

\* A support request loads the dispute.
ReadCase(s) ==
    /\ dispute.status \notin {None, caseFile[s]}
    /\ caseFile' = [caseFile EXCEPT ![s] = dispute.status]
    /\ UNCHANGED <<rows, payCall, failHook, dueBatch, sweep>>

\* The request that loaded the dispute ends with what it wrote.
CaseDone(s) == caseFile' = [caseFile EXCEPT ![s] = None]

\* take_case, await_response and resume_review, through _transition.
MoveCase(s, to) ==
    /\ <<caseFile[s], to>> \in CASE_TRANSITIONS
    /\ dispute' = [dispute EXCEPT !.status = to]
    /\ CaseDone(s)
    /\ UNCHANGED <<order, request, deliveries, payment, ledger, payouts,
                   payCall, failHook, dueBatch, sweep>>

CloseCase(s) == MoveCase(s, "closed")

\* Slip: paid payouts are not left out.
FirstPayout(i) == i = 1

\* The first payout of the order that is not paid: the one row a resolution
\* touches.
FirstUnpaid(i) ==
    /\ payouts[i].status # "paid"
    /\ \A j \in DOMAIN payouts : j < i => payouts[j].status = "paid"

\* _void_scheduled_payout.
VoidedPayouts ==
    [i \in DOMAIN payouts |->
        IF FirstUnpaid(i) THEN [payouts[i] EXCEPT !.status = "failed"] ELSE payouts[i]]

\* The correction of an unsettled payout to the credit that is left.
CorrectedPayouts(credit) ==
    [i \in DOMAIN payouts |->
        IF FirstUnpaid(i) THEN [payouts[i] EXCEPT !.amount = credit] ELSE payouts[i]]

\* What every outcome of resolve shares: the unfreeze, the order's next status
\* and the closing of the case, in one transaction with the outcome's money; a
\* move the order table refuses rolls everything back.
ResolveTo(s, to) ==
    /\ <<caseFile[s], "resolved">> \in CASE_TRANSITIONS
    /\ to = order.status \/ CanMove(order.status, to)
    /\ order' = [order EXCEPT !.status = to, !.has_open_dispute = FALSE]
    /\ dispute' = [dispute EXCEPT !.status = "resolved"]
    /\ CaseDone(s)
    /\ UNCHANGED <<request, deliveries, payCall, failHook, dueBatch, sweep>>

\* refund_student_full: what is left of the payment, and the payout is voided.
RefundInFull(s) ==
    /\ ResolveTo(s, "cancelled")
    /\ RefundAllowed(Refundable)
    /\ payment' = RefundedPayment(Refundable)
    /\ ledger' = RefundedLedger(Refundable)
    /\ payouts' = VoidedPayouts

\* refund_student_partial and split: less than what is left, and the payout is
\* corrected to the credit that remains.
RefundInPart(s, a) ==
    /\ ResolveTo(s, "completed")
    /\ RefundAllowed(a)
    /\ a < Refundable
    /\ payment' = RefundedPayment(a)
    /\ ledger' = RefundedLedger(a)
    /\ payouts' = CorrectedPayouts(RefundedLedger(a).expert_credit)

\* release_expert: no payout is scheduled here, unlike on approval.
ReleaseToExpert(s) ==
    /\ ResolveTo(s, "completed")
    /\ UNCHANGED <<payment, ledger, payouts>>

\* no_fault_close: back to where the dispute found the order.
CloseNoFault(s) ==
    /\ ResolveTo(s, dispute.prior)
    /\ UNCHANGED <<payment, ledger, payouts>>

Resolve(s) ==
    \/ RefundInFull(s)
    \/ \E a \in 1 .. Amount : RefundInPart(s, a)
    \/ ReleaseToExpert(s)
    \/ CloseNoFault(s)

DisputesNext ==
    \/ OpenDispute
    \/ \E s \in Staff :
          \/ ReadCase(s)
          \/ \E to \in {"under_review", "awaiting_response"} : MoveCase(s, to)
          \/ Resolve(s)
          \/ CloseCase(s)
=============================================================================
