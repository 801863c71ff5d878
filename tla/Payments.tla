------------------------------ MODULE Payments ------------------------------
(***************************************************************************)
(* payments/services.py, the payment.failed handler of payments/webhooks.py*)
(* and the money actions of payments/admin.py on the rows of one order.    *)
(***************************************************************************)
EXTENDS OrderRows

\* What confirmation books as commission: the snapshot, or a fresh split with
\* Order.commission_rate when the snapshot is zero.
BookedCommission == IF Commission = 0 THEN RateCommission ELSE Commission
BookedCredit == Amount - BookedCommission

-----------------------------------------------------------------------------
(* Collecting the payment. *)

\* A student's pay view (or an operator's confirm action) reads the order; a
\* status other than awaiting_payment ends the request here.
ReadOrderToPay ==
    /\ payCall = "idle"
    /\ order.status = "awaiting_payment"
    /\ payCall' = "viewed"
    /\ UNCHANGED <<rows, failHook, dueBatch, sweep, caseFile>>

\* start_payment / confirm_order_payment on that order object: create the row,
\* return a pending one, refuse a succeeded one, or go on to re-arm the rest.
StartPayment ==
    /\ payCall = "viewed"
    /\ payCall' = IF payment.status \in {None, "pending", "succeeded"}
                  THEN "idle" ELSE "rearm"
    /\ payment' = IF payment.status = None
                  THEN [payment EXCEPT !.status = "pending"] ELSE payment
    /\ UNCHANGED <<order, request, deliveries, ledger, payouts, dispute,
                   failHook, dueBatch, sweep, caseFile>>

\* start_payment saves the re-armed attempt: neither row was locked.
RearmPayment ==
    /\ payCall = "rearm"
    /\ payCall' = "idle"
    /\ payment' = [payment EXCEPT !.status = "pending"]
    /\ UNCHANGED <<order, request, deliveries, ledger, payouts, dispute,
                   failHook, dueBatch, sweep, caseFile>>

Confirmable ==
    /\ payment.status \notin {None, "succeeded", "canceled", "refunded"}
    /\ order.status = "awaiting_payment"

\* Slip: the payment's status is trusted, and the locked order not looked at.
ConfirmByPaymentAlone ==
    /\ payment.status \notin {None, "succeeded", "canceled", "refunded"}
    /\ payment' = [payment EXCEPT !.status = "succeeded"]
    /\ ledger' = [ledger EXCEPT !.charge = @ + Amount,
                                !.commission = @ + BookedCommission,
                                !.expert_credit = @ + BookedCredit]
    /\ order' = [order EXCEPT !.paid = TRUE, !.status = "active"]
    /\ request' = IF request = "matched" THEN "in_progress" ELSE request
    /\ UNCHANGED <<deliveries, payouts, dispute, sessions>>

\* _confirm_payment_atomic, the provider saying yes: the payment, three ledger
\* entries and orders.mark_paid commit together.
ConfirmPayment ==
    /\ Confirmable
    /\ ~order.paid
    /\ payment' = [payment EXCEPT !.status = "succeeded"]
    /\ ledger' = [ledger EXCEPT !.charge = @ + Amount,
                                !.commission = @ + BookedCommission,
                                !.expert_credit = @ + BookedCredit]
    /\ order' = [order EXCEPT !.paid = TRUE, !.status = "active"]
    /\ request' = IF request = "matched" THEN "in_progress" ELSE request
    /\ UNCHANGED <<deliveries, payouts, dispute, sessions>>

\* The provider saying no: everything rolls back, then _mark_payment_failed
\* closes the attempt if it is still pending.
ConfirmFails ==
    /\ Confirmable
    /\ payment' = IF payment.status = "pending"
                  THEN [payment EXCEPT !.status = "failed"] ELSE payment
    /\ UNCHANGED <<order, request, deliveries, ledger, payouts, dispute, sessions>>

\* _handle_payment_failed reads the payment the event names ...
FailHookReads ==
    /\ failHook = "idle"
    /\ payment.status \notin {None, "succeeded", "canceled"}
    /\ failHook' = "loaded"
    /\ UNCHANGED <<rows, payCall, dueBatch, sweep, caseFile>>

\* ... and saves FAILED over whatever the row holds by then.
FailHookSaves ==
    /\ failHook = "loaded"
    /\ failHook' = "idle"
    /\ payment' = [payment EXCEPT !.status = "failed"]
    /\ UNCHANGED <<order, request, deliveries, ledger, payouts, dispute,
                   payCall, dueBatch, sweep, caseFile>>

\* void_payment_for_order: a pending attempt is closed, any other is left.
Voided(p) == IF p.status = "pending" THEN [p EXCEPT !.status = "canceled"] ELSE p

-----------------------------------------------------------------------------
(* Refunds. *)

Refundable == Amount - payment.refunded

RefundAllowed(a) ==
    /\ payment.status \in {"succeeded", "partially_refunded"}
    /\ 0 < a /\ a <= Refundable

ReversedCommission(a) == FirstShare(a, Commission, Amount - Commission)
ReversedCredit(a) == SecondShare(a, Commission, Amount - Commission)

\* Slips: a second refund overwrites refunded_minor instead of adding to it; the
\* commission is not given back.
RefundedOnce(a) ==
    [status |-> IF a >= Amount THEN "refunded" ELSE "partially_refunded", refunded |-> a]
RefundedFromCredit(a) ==
    [ledger EXCEPT !.refund = @ - a, !.expert_credit = @ - ReversedCredit(a)]

\* issue_refund: the payment row and the ledger after a refund of a.
RefundedPayment(a) ==
    [status |-> IF payment.refunded + a >= Amount THEN "refunded"
                ELSE "partially_refunded",
     refunded |-> payment.refunded + a]

RefundedLedger(a) ==
    [ledger EXCEPT !.refund = @ - a,
                   !.commission = @ - ReversedCommission(a),
                   !.expert_credit = @ - ReversedCredit(a)]

\* The admin action issue_full_refund on a succeeded payment.
AdminFullRefund ==
    /\ payment.status = "succeeded"
    /\ RefundAllowed(Refundable)
    /\ payment' = RefundedPayment(Refundable)
    /\ ledger' = RefundedLedger(Refundable)
    /\ UNCHANGED <<order, request, deliveries, payouts, dispute, sessions>>

-----------------------------------------------------------------------------
(* Payouts. *)

NewPayout(amount) == [status |-> "scheduled", amount |-> amount]

\* schedule_payout for a completed order whose row the caller has locked.
ScheduledPayouts(hasOpenDispute) ==
    IF payouts = <<>> /\ ~hasOpenDispute /\ ledger.expert_credit >= PayoutMin
    THEN Append(payouts, NewPayout(ledger.expert_credit))
    ELSE payouts

\* Slip: the sweeper's filter forgets the order's status.
EligibleByPayment ==
    payment.status = "succeeded" /\ ~order.has_open_dispute /\ payouts = <<>>

\* The filter of payout_sweeper's queryset.
Eligible ==
    /\ payment.status = "succeeded"
    /\ order.status = "completed"
    /\ ~order.has_open_dispute
    /\ payouts = <<>>

\* payout_sweeper evaluates it: the order object it now holds is completed and
\* undisputed.
SweepLists(w) ==
    /\ sweep[w].at = "idle"
    /\ Eligible
    /\ sweep' = [sweep EXCEPT ![w] = [at |-> "listed", amount |-> 0]]
    /\ UNCHANGED <<rows, payCall, failHook, dueBatch, caseFile>>

\* schedule_payout on that object: an existing payout or a credit below the
\* floor ends it; otherwise the amount is taken from the ledger ...
SweepChecks(w) ==
    /\ sweep[w].at = "listed"
    /\ sweep' = [sweep EXCEPT ![w] =
                   IF payouts = <<>> /\ ledger.expert_credit >= PayoutMin
                   THEN [at |-> "checked", amount |-> ledger.expert_credit]
                   ELSE [at |-> "idle", amount |-> 0]]
    /\ UNCHANGED <<rows, payCall, failHook, dueBatch, caseFile>>

\* ... and the payout row is inserted; no constraint limits an order to one.
SweepCreates(w) ==
    /\ sweep[w].at = "checked"
    /\ sweep' = [sweep EXCEPT ![w] = [at |-> "idle", amount |-> 0]]
    /\ payouts' = Append(payouts, NewPayout(sweep[w].amount))
    /\ UNCHANGED <<order, request, deliveries, payment, ledger, dispute,
                   payCall, failHook, dueBatch, caseFile>>

\* settle_payout: a scheduled or failed payout, frozen while a dispute is open.
SettlePayout(i) ==
    /\ payouts[i].status \in {"scheduled", "failed"}
    /\ ~order.has_open_dispute
    /\ payouts' = [payouts EXCEPT ![i].status = "paid"]
    /\ ledger' = [ledger EXCEPT !.payout = @ - payouts[i].amount]
    /\ UNCHANGED <<order, request, deliveries, payment, dispute, sessions>>

\* Slip: a paid payout can be marked failed, and settled again.
FailAnyPayout(i) ==
    /\ payouts' = [payouts EXCEPT ![i].status = "failed"]
    /\ UNCHANGED <<order, request, deliveries, payment, ledger, dispute, sessions>>

\* mark_payout_failed: anything that is not paid.
FailPayout(i) ==
    /\ payouts[i].status # "paid"
    /\ payouts' = [payouts EXCEPT ![i].status = "failed"]
    /\ UNCHANGED <<order, request, deliveries, payment, ledger, dispute, sessions>>

PaymentsNext ==
    \/ ReadOrderToPay \/ StartPayment \/ RearmPayment
    \/ ConfirmPayment \/ ConfirmFails
    \/ FailHookReads \/ FailHookSaves
    \/ AdminFullRefund
    \/ \E w \in Sweepers : SweepLists(w) \/ SweepChecks(w) \/ SweepCreates(w)
    \/ \E i \in DOMAIN payouts : SettlePayout(i) \/ FailPayout(i)
=============================================================================
