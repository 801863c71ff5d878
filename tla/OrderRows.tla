----------------------------- MODULE OrderRows -----------------------------
(***************************************************************************)
(* The rows that hang off one order -- orders.Order, its Delivery rows,    *)
(* its Payment, LedgerEntry sums, Payout rows and Dispute, and the status  *)
(* of the service request it came from -- and the objects that a view, a   *)
(* webhook or a worker has read and not yet acted on.                      *)
(*                                                                         *)
(* One order is enough: services lock and write one order's rows at a      *)
(* time, and every batch job handles each order in a transaction of its    *)
(* own.  A service call decorated with transaction.atomic that re-reads    *)
(* under select_for_update is one step; whatever was read before the lock  *)
(* is a step of its own, kept in one of the five session variables.        *)
(***************************************************************************)
EXTENDS Integers, Sequences, Money

CONSTANTS
    Amount,             \* Order.amount, minor units
    Commission,         \* Order.commission_amount, booked by the order factory
    RateCommission,     \* commission_split(amount, Order.commission_rate); the factory
                        \* leaves that rate at its default, so it need not agree
    PayoutMin,          \* payout floor (BR-30)
    RevisionsAllowed,   \* Order.revisions_allowed
    Staff,              \* support accounts working in the admin
    Sweepers,           \* worker processes that can run payout_sweeper
    SweepInTransaction  \* is sweep_unpaid called inside a transaction?

ASSUME MoneyAssumption ==
    /\ Amount \in Nat \ {0}
    /\ Commission \in 0 .. Amount
    /\ RateCommission \in 0 .. Amount
    /\ PayoutMin \in Nat \ {0}

ASSUME LimitAssumption ==
    /\ RevisionsAllowed \in Nat
    /\ SweepInTransaction \in BOOLEAN

VARIABLES
    order,       \* orders.Order
    request,     \* ServiceRequest.status of the order's request
    deliveries,  \* Delivery.status by revision number
    payment,     \* payments.Payment
    ledger,      \* sum of LedgerEntry.amount_minor by entry type
    payouts,     \* payments.Payout rows, oldest first
    dispute,     \* disputes.Dispute
    payCall,     \* the pay view: what it has read so far
    failHook,    \* the payment.failed handler: what it has read so far
    dueBatch,    \* is the order in a due_ids list of auto_approve_due?
    sweep,       \* payout_sweeper, per worker
    caseFile     \* the dispute status each support request has read

rows == <<order, request, deliveries, payment, ledger, payouts, dispute>>
sessions == <<payCall, failHook, dueBatch, sweep, caseFile>>
vars == <<rows, sessions>>

-----------------------------------------------------------------------------
(* Values of the rows. *)

OrderStatus == {"awaiting_payment", "active", "delivered", "revision_requested",
                "completed", "disputed", "cancelled"}
RequestStatus == {"matched", "in_progress", "completed", "cancelled"}
DeliveryStatus == {"submitted", "approved", "revision_requested"}
PaymentStatus == {"pending", "succeeded", "failed", "canceled", "refunded",
                  "partially_refunded"}
PayoutStatus == {"scheduled", "paid", "failed"}
DisputeStatus == {"open", "under_review", "awaiting_response", "resolved", "closed"}

\* "none" stands for a row that does not exist or a timestamp that is null.
None == "none"

\* auto_approve_at is null, in the future, or passed.
Timer == {None, "running", "due"}

\* completed_at is null, or the dispute window counted from it is open or over.
Window == {None, "open", "closed"}

Revisions == 0 .. RevisionsAllowed

\* The (from, to) pairs of orders.services.TRANSITIONS.
TRANSITIONS ==
    {<<"awaiting_payment", "active">>, <<"awaiting_payment", "cancelled">>,
     <<"active", "delivered">>, <<"active", "cancelled">>, <<"active", "disputed">>,
     <<"delivered", "revision_requested">>, <<"delivered", "completed">>,
     <<"delivered", "cancelled">>, <<"delivered", "disputed">>,
     <<"revision_requested", "delivered">>, <<"revision_requested", "completed">>,
     <<"revision_requested", "disputed">>, <<"revision_requested", "cancelled">>,
     <<"completed", "disputed">>,
     <<"disputed", "completed">>, <<"disputed", "cancelled">>,
     <<"disputed", "active">>, <<"disputed", "delivered">>,
     <<"disputed", "revision_requested">>}

CanMove(from, to) == <<from, to>> \in TRANSITIONS

OrderRow == [status : OrderStatus, paid : BOOLEAN, revisions_used : Revisions,
             auto_approve_at : Timer, completed_at : Window,
             has_open_dispute : BOOLEAN]
PaymentRow == [status : PaymentStatus \cup {None}, refunded : 0 .. Amount]
LedgerSums == [charge : Int, refund : Int, commission : Int, expert_credit : Int,
               payout : Int]
PayoutRow == [status : PayoutStatus, amount : Int]
DisputeRow == [status : DisputeStatus \cup {None}, prior : OrderStatus \cup {None}]
SweepTask == [at : {"idle", "listed", "checked"}, amount : Int]

\* The rows have the fields and choices their models declare; a session holds
\* what the code it stands for can have read.
TypeOK ==
    /\ order \in OrderRow
    /\ request \in RequestStatus
    /\ deliveries \in [Revisions -> DeliveryStatus \cup {None}]
    /\ payment \in PaymentRow
    /\ ledger \in LedgerSums
    /\ payouts \in Seq(PayoutRow)
    /\ dispute \in DisputeRow
    /\ payCall \in {"idle", "viewed", "rearm"}
    /\ failHook \in {"idle", "loaded"}
    /\ dueBatch \in BOOLEAN
    /\ sweep \in [Sweepers -> SweepTask]
    /\ caseFile \in [Staff -> DisputeStatus \cup {None}]

\* create_order_for_request just ran: the order waits for its payment.
Init ==
    /\ order = [status |-> "awaiting_payment", paid |-> FALSE, revisions_used |-> 0,
                auto_approve_at |-> None, completed_at |-> None,
                has_open_dispute |-> FALSE]
    /\ request = "matched"
    /\ deliveries = [r \in Revisions |-> None]
    /\ payment = [status |-> None, refunded |-> 0]
    /\ ledger = [charge |-> 0, refund |-> 0, commission |-> 0,
                 expert_credit |-> 0, payout |-> 0]
    /\ payouts = <<>>
    /\ dispute = [status |-> None, prior |-> None]
    /\ payCall = "idle"
    /\ failHook = "idle"
    /\ dueBatch = FALSE
    /\ sweep = [w \in Sweepers |-> [at |-> "idle", amount |-> 0]]
    /\ caseFile = [s \in Staff |-> None]
=============================================================================
