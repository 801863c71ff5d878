------------------------------- MODULE Orders -------------------------------
(***************************************************************************)
(* orders/services.py on the rows of one order: delivery, revision,        *)
(* approval, cancellation and the two worker jobs that move an order, with *)
(* the request's own cancellation (service_requests/services.py).          *)
(*                                                                         *)
(* Time: auto_approve_at and the dispute window counted from completed_at  *)
(* only tell "not yet" from "passed", so the clock is two actions.         *)
(***************************************************************************)
EXTENDS Payments

\* Slip: the minus sign of the ordering is lost.
IsEarliest(r) ==
    /\ deliveries[r] # None
    /\ \A q \in Revisions : q < r => deliveries[q] = None

\* order.deliveries.order_by("-revision_number").first(): the row request_revision
\* and approve_delivery write to.
IsLatest(r) ==
    /\ deliveries[r] # None
    /\ \A q \in Revisions : q > r => deliveries[q] = None

DeliveriesMarked(status) ==
    [r \in Revisions |-> IF IsLatest(r) THEN status ELSE deliveries[r]]

\* Slip: a redelivery is numbered as if its revision had not been counted yet.
NextRevisionBehind ==
    IF order.status = "revision_requested" THEN order.revisions_used - 1 ELSE 0

\* The number the next delivery gets.
NextRevision ==
    IF order.status = "revision_requested" THEN order.revisions_used ELSE 0

\* Slip: the delivery does not start the auto-approve timer.
DeliveredUntimed(o) == [o EXCEPT !.status = "delivered"]

Delivered(o) == [o EXCEPT !.status = "delivered", !.auto_approve_at = "running"]

\* submit_delivery.  The unique (order, revision_number) constraint is the
\* guard on deliveries: a second insert under one number raises.
SubmitDelivery ==
    /\ order.status \in {"active", "revision_requested"}
    /\ deliveries[NextRevision] = None
    /\ deliveries' = [deliveries EXCEPT ![NextRevision] = "submitted"]
    /\ order' = Delivered(order)
    /\ UNCHANGED <<request, payment, ledger, payouts, dispute, sessions>>

\* Slip: one revision too many.
RevisionLeftAtLimit == order.revisions_used <= RevisionsAllowed

RevisionLeft == order.revisions_used < RevisionsAllowed

\* request_revision, by the student.
RequestRevision ==
    /\ order.status = "delivered"
    /\ RevisionLeft
    /\ \E r \in Revisions : deliveries[r] # None
    /\ deliveries' = DeliveriesMarked("revision_requested")
    /\ order' = [order EXCEPT !.status = "revision_requested",
                              !.revisions_used = @ + 1,
                              !.auto_approve_at = None]
    /\ UNCHANGED <<request, payment, ledger, payouts, dispute, sessions>>

\* What approve_delivery does to the rows of a delivered order, the payout it
\* schedules included.
ApproveRows ==
    /\ order.status = "delivered"
    /\ deliveries' = DeliveriesMarked("approved")
    /\ order' = [order EXCEPT !.status = "completed", !.completed_at = "open",
                              !.auto_approve_at = None]
    /\ request' = IF request = "in_progress" THEN "completed" ELSE request
    /\ payouts' = ScheduledPayouts(order.has_open_dispute)
    /\ UNCHANGED <<payment, ledger, dispute>>

\* The student approves, or staff force-approve.
ApproveDelivery == ApproveRows /\ UNCHANGED sessions

\* auto_approve_due collects the ids whose timer has passed ...
AutoApproveReads ==
    /\ ~dueBatch
    /\ order.status = "delivered"
    /\ order.auto_approve_at = "due"
    /\ dueBatch' = TRUE
    /\ UNCHANGED <<rows, payCall, failHook, sweep, caseFile>>

\* ... and then locks each order.  The re-check asks for a timer, not for one
\* that has passed.
AutoApprove ==
    /\ dueBatch
    /\ dueBatch' = FALSE
    /\ IF order.status = "delivered" /\ order.auto_approve_at # None
       THEN ApproveRows
       ELSE UNCHANGED rows
    /\ UNCHANGED <<payCall, failHook, sweep, caseFile>>

\* cancel: a party before payment, support whenever the table allows it.
Cancel ==
    /\ CanMove(order.status, "cancelled")
    /\ order' = [order EXCEPT !.status = "cancelled"]
    /\ payment' = Voided(payment)
    /\ request' = IF request \in {"matched", "in_progress"} THEN "cancelled" ELSE request
    /\ UNCHANGED <<deliveries, ledger, payouts, dispute, sessions>>

\* sweep_unpaid.  Its queryset is evaluated with select_for_update, which the
\* ORM refuses outside a transaction; it voids no payment and no request.
SweepUnpaid ==
    /\ SweepInTransaction
    /\ order.status = "awaiting_payment"
    /\ order' = [order EXCEPT !.status = "cancelled"]
    /\ UNCHANGED <<request, deliveries, payment, ledger, payouts, dispute, sessions>>

\* service_requests.cancel by the student, whose view may have read the request
\* long ago, as matched or in progress: it never looks at the order, and writes
\* over whatever the request has become.
CancelRequest ==
    /\ request # "cancelled"
    /\ request' = "cancelled"
    /\ UNCHANGED <<order, deliveries, payment, ledger, payouts, dispute, sessions>>

\* 72 hours after the delivery.
TimerElapses ==
    /\ order.auto_approve_at = "running"
    /\ order' = [order EXCEPT !.auto_approve_at = "due"]
    /\ UNCHANGED <<request, deliveries, payment, ledger, payouts, dispute, sessions>>

\* dispute_window_days after completed_at.
DisputeWindowCloses ==
    /\ order.completed_at = "open"
    /\ order' = [order EXCEPT !.completed_at = "closed"]
    /\ UNCHANGED <<request, deliveries, payment, ledger, payouts, dispute, sessions>>

OrdersNext ==
    \/ SubmitDelivery \/ RequestRevision
    \/ ApproveDelivery \/ AutoApproveReads \/ AutoApprove
    \/ Cancel \/ SweepUnpaid \/ CancelRequest
    \/ TimerElapses \/ DisputeWindowCloses
=============================================================================
