------------------------------ MODULE Selection ------------------------------
(***************************************************************************)
(* How one service request finds its expert: service_requests/services.py, *)
(* bidding/services.py and tasks.py, assignments/services.py, up to the    *)
(* order that orders.create_order_for_request books.                       *)
(*                                                                         *)
(* The three acceptances re-read their rows under select_for_update, so    *)
(* each is one step.  Every other call works on the row its view loaded:   *)
(* it is a step that reads and tests, kept in calls[h], and a later step   *)
(* that writes what the service computed over whatever the rows hold then. *)
(***************************************************************************)
EXTENDS Integers, Sequences, FiniteSets

CONSTANTS
    Experts,      \* experts who could take the request
    Prices,       \* offered, assigned and quoted amounts at or above the minimum
    Handlers,     \* HTTP requests in flight at a time
    MaxDirects,   \* bound: direct assignments made for the request
    MaxOrders,    \* bound: orders booked for the request
    MaxCount      \* bound: the largest offer_count

ASSUME SelectionAssumption ==
    /\ Prices \subseteq Nat \ {0}
    /\ {MaxDirects, MaxOrders, MaxCount} \subseteq Nat

VARIABLES
    request,   \* ServiceRequest
    offers,    \* bidding.Offer, by expert (unique per request and expert)
    invites,   \* PoolInvitation.status, by expert (unique per request and expert)
    directs,   \* DirectAssignment rows, oldest first
    orders,    \* orders booked for the request, oldest first
    eligible,  \* experts expert_is_eligible says yes to
    calls,     \* per handler, the call in flight and what it has read
    sweep      \* expire_stale_requests: how far it is

rows == <<request, offers, invites, directs, orders>>
selectionVars == <<rows, eligible, calls, sweep>>

-----------------------------------------------------------------------------
(* Values. *)

None == "none"
NoPrice == 0
Modes == {"open", "managed"}
RequestStatus == {"draft", "open", "in_review", "pooled", "matched", "rejected",
                  "expired", "cancelled"}
OfferStatus == {"pending", "withdrawn", "declined", "accepted", "expired"}
AssignmentStatus == {"pending", "accepted", "declined", "expired", "superseded"}
Sources == {"open_bid", "managed_pool", "managed_direct"}

\* expires_at is null, ahead, or passed.
Timer == {None, "running", "due"}

RequestRow == [mode : Modes, status : RequestStatus, expires_at : Timer,
               reopened : BOOLEAN, offer_count : 0 .. MaxCount,
               quote : Prices \cup {NoPrice}]
OfferRow == [status : OfferStatus \cup {None}, amount : Prices \cup {NoPrice}]
DirectRow == [expert : Experts, status : AssignmentStatus, amount : Prices]
OrderRow == [expert : Experts, amount : Prices, source : Sources]

\* service_requests.services.TRANSITIONS, without the two moves of a paid order.
RequestMoves ==
    {<<"draft", "open">>, <<"draft", "cancelled">>, <<"draft", "in_review">>,
     <<"open", "matched">>, <<"open", "cancelled">>, <<"open", "expired">>,
     <<"expired", "open">>,
     <<"in_review", "pooled">>, <<"in_review", "rejected">>, <<"in_review", "matched">>,
     <<"in_review", "cancelled">>, <<"pooled", "matched">>, <<"pooled", "rejected">>,
     <<"pooled", "cancelled">>, <<"matched", "cancelled">>}

CanTransition(to) == <<request.status, to>> \in RequestMoves

\* ServiceRequest.is_open_for_offers.
OpenForOffers ==
    request.status = "open" /\ request.mode = "open" /\ request.expires_at # "due"

Blank == [mode |-> "open", status |-> "draft", expires_at |-> None,
          reopened |-> FALSE, offer_count |-> 0, quote |-> NoPrice]
Idle == [op |-> "idle", expert |-> None, row |-> 0, amount |-> NoPrice, seen |-> Blank]

Ops == {"update_draft", "publish", "cancel", "reopen", "approve_pool",
        "reject_managed", "assign_direct", "submit", "update_offer", "withdraw",
        "resubmit", "decline", "decline_invitation", "decline_direct",
        "supersede_direct"}
Call == [op : Ops \cup {"idle"}, expert : Experts \cup {None}, row : 0 .. MaxDirects,
         amount : Prices \cup {NoPrice}, seen : RequestRow]

SelectionTypeOK ==
    /\ request \in RequestRow
    /\ offers \in [Experts -> OfferRow]
    /\ invites \in [Experts -> (AssignmentStatus \ {"superseded"}) \cup {None}]
    /\ directs \in Seq(DirectRow) /\ Len(directs) <= MaxDirects
    /\ orders \in Seq(OrderRow) /\ Len(orders) <= MaxOrders
    /\ eligible \subseteq Experts
    /\ calls \in [Handlers -> Call]
    /\ sweep \in {"idle", "missed", "listed", "closing"}

\* create_request: always a draft.
SelectionInit ==
    /\ request \in {[Blank EXCEPT !.mode = m] : m \in Modes}
    /\ offers = [e \in Experts |-> [status |-> None, amount |-> NoPrice]]
    /\ invites = [e \in Experts |-> None]
    /\ directs = <<>>
    /\ orders = <<>>
    /\ eligible = Experts
    /\ calls = [h \in Handlers |-> Idle]
    /\ sweep = "idle"

\* A call whose checks on the rows it loaded have passed.
Reads(h, call) ==
    /\ calls[h] = Idle
    /\ calls' = [calls EXCEPT ![h] = call]
    /\ UNCHANGED <<rows, eligible, sweep>>

\* The same call getting to its save.
Saves(h, op) ==
    /\ calls[h].op = op
    /\ calls' = [calls EXCEPT ![h] = Idle]
    /\ UNCHANGED <<eligible, sweep>>

-----------------------------------------------------------------------------
(* The student's request. *)

ReadToUpdateDraft(h) ==
    /\ request.status = "draft"
    /\ \E m \in Modes :
         Reads(h, [Idle EXCEPT !.op = "update_draft", !.seen = [request EXCEPT !.mode = m]])

\* update_draft saves every column of the row it loaded.
UpdateDraft(h) ==
    /\ Saves(h, "update_draft")
    /\ request' = calls[h].seen
    /\ UNCHANGED <<offers, invites, directs, orders>>

ReadToPublish(h) ==
    Reads(h, [Idle EXCEPT !.op = "publish",
                          !.seen = [Blank EXCEPT !.mode = request.mode,
                                                 !.status = request.status]])

\* publish saves the new expires_at before transition looks at the status it
\* loaded, and the table lets it move an expired request as well as a draft.
Publish(h) ==
    LET seen == calls[h].seen
        to == IF seen.mode = "open" THEN "open" ELSE "in_review"
    IN  /\ Saves(h, "publish")
        /\ request' = [request EXCEPT
             !.expires_at = IF seen.mode = "open" THEN "running" ELSE @,
             !.status = IF <<seen.status, to>> \in RequestMoves THEN to ELSE @]
        /\ UNCHANGED <<offers, invites, directs, orders>>

ReadToCancel(h) ==
    /\ CanTransition("cancelled")
    /\ Reads(h, [Idle EXCEPT !.op = "cancel"])

CancelSelection(h) ==
    /\ Saves(h, "cancel")
    /\ request' = [request EXCEPT !.status = "cancelled"]
    /\ UNCHANGED <<offers, invites, directs, orders>>

ReadToReopen(h) ==
    /\ ~request.reopened
    /\ request.status = "expired"
    /\ Reads(h, [Idle EXCEPT !.op = "reopen"])

Reopen(h) ==
    /\ Saves(h, "reopen")
    /\ request' = [request EXCEPT !.status = "open", !.reopened = TRUE,
                                  !.expires_at = "running"]
    /\ UNCHANGED <<offers, invites, directs, orders>>

\* REQUEST_TTL_DAYS go by.
TtlPasses ==
    /\ request.expires_at = "running"
    /\ request' = [request EXCEPT !.expires_at = "due"]
    /\ UNCHANGED <<offers, invites, directs, orders, eligible, calls, sweep>>

RequestDue == request.status = "open" /\ request.expires_at = "due"

\* expire_stale_requests: the ids that are due are listed, ...
SweepLists ==
    /\ sweep = "idle"
    /\ sweep' = IF RequestDue THEN "listed" ELSE "missed"
    /\ UNCHANGED <<rows, eligible, calls>>

\* ... the bulk update expires whatever is due by now, listed or not, ...
SweepExpires ==
    /\ sweep \in {"missed", "listed"}
    /\ sweep' = IF sweep = "listed" THEN "closing" ELSE "idle"
    /\ request' = IF RequestDue THEN [request EXCEPT !.status = "expired"] ELSE request
    /\ UNCHANGED <<offers, invites, directs, orders, eligible, calls>>

\* ... and the pending offers of the listed ids are closed.
SweepClosesOffers ==
    /\ sweep = "closing"
    /\ sweep' = "idle"
    /\ offers' = [e \in Experts |->
                    IF offers[e].status = "pending"
                    THEN [offers[e] EXCEPT !.status = "expired"] ELSE offers[e]]
    /\ UNCHANGED <<request, invites, directs, orders, eligible, calls>>

\* The worker stops between two of these statements; nothing ties them together.
SweepStops ==
    /\ sweep # "idle"
    /\ sweep' = "idle"
    /\ UNCHANGED <<rows, eligible, calls>>

-----------------------------------------------------------------------------
(* Offers. *)

Counted == [Blank EXCEPT !.offer_count = request.offer_count]

ReadToSubmit(h, e) ==
    /\ e \in eligible /\ OpenForOffers
    /\ offers[e].status = None
    /\ request.offer_count < MaxCount
    /\ \E p \in Prices :
         Reads(h, [Idle EXCEPT !.op = "submit", !.expert = e, !.amount = p,
                               !.seen = Counted])

\* submit: the row is inserted unless the unique constraint refuses it, and the
\* counter is the one read plus one.
Submit(h) ==
    LET c == calls[h]
        inserted == offers[c.expert].status = None
    IN  /\ Saves(h, "submit")
        /\ offers' = IF inserted
                     THEN [offers EXCEPT ![c.expert] =
                             [status |-> "pending", amount |-> c.amount]]
                     ELSE offers
        /\ request' = IF inserted
                      THEN [request EXCEPT !.offer_count = c.seen.offer_count + 1]
                      ELSE request
        /\ UNCHANGED <<invites, directs, orders>>

ReadToUpdateOffer(h, e) ==
    /\ offers[e].status = "pending" /\ e \in eligible /\ OpenForOffers
    /\ \E p \in Prices :
         Reads(h, [Idle EXCEPT !.op = "update_offer", !.expert = e, !.amount = p])

\* Slip: only the amount is saved.
UpdateAmountOnly(h) ==
    /\ Saves(h, "update_offer")
    /\ offers' = [offers EXCEPT ![calls[h].expert].amount = calls[h].amount]
    /\ UNCHANGED <<request, invites, directs, orders>>

\* update_offer saves every column: the status it loaded was pending.
UpdateOffer(h) ==
    /\ Saves(h, "update_offer")
    /\ offers' = [offers EXCEPT ![calls[h].expert] =
                    [status |-> "pending", amount |-> calls[h].amount]]
    /\ UNCHANGED <<request, invites, directs, orders>>

ReadToWithdraw(h, e) ==
    /\ offers[e].status = "pending"
    /\ Reads(h, [Idle EXCEPT !.op = "withdraw", !.expert = e, !.seen = Counted])

\* withdraw: offer_count is a PositiveIntegerField, and a counter read as zero
\* makes the transaction fail.
Withdraw(h) ==
    LET c == calls[h]
    IN  /\ Saves(h, "withdraw")
        /\ IF c.seen.offer_count > 0
           THEN /\ offers' = [offers EXCEPT ![c.expert].status = "withdrawn"]
                /\ request' = [request EXCEPT !.offer_count = c.seen.offer_count - 1]
           ELSE UNCHANGED <<offers, request>>
        /\ UNCHANGED <<invites, directs, orders>>

ReadToResubmit(h, e) ==
    /\ offers[e].status = "withdrawn" /\ e \in eligible /\ OpenForOffers
    /\ request.offer_count < MaxCount
    /\ Reads(h, [Idle EXCEPT !.op = "resubmit", !.expert = e, !.seen = Counted])

Resubmit(h) ==
    /\ Saves(h, "resubmit")
    /\ offers' = [offers EXCEPT ![calls[h].expert].status = "pending"]
    /\ request' = [request EXCEPT !.offer_count = calls[h].seen.offer_count + 1]
    /\ UNCHANGED <<invites, directs, orders>>

ReadToDecline(h, e) ==
    /\ offers[e].status = "pending"
    /\ Reads(h, [Idle EXCEPT !.op = "decline", !.expert = e])

Decline(h) ==
    /\ Saves(h, "decline")
    /\ offers' = [offers EXCEPT ![calls[h].expert].status = "declined"]
    /\ UNCHANGED <<request, invites, directs, orders>>

\* create_order_for_request, inside the transaction that accepts.
Booked(e, amount, source) ==
    Append(orders, [expert |-> e, amount |-> amount, source |-> source])

\* bidding.accept: the offer and the request under lock, the other pending
\* offers declined, the request matched and the order booked, in one commit.
Accept(e) ==
    /\ offers[e].status = "pending"
    /\ request.status = "open"
    /\ e \in eligible
    /\ Len(orders) < MaxOrders
    /\ offers' = [f \in Experts |->
                    IF f = e THEN [offers[f] EXCEPT !.status = "accepted"]
                    ELSE IF offers[f].status = "pending"
                         THEN [offers[f] EXCEPT !.status = "declined"] ELSE offers[f]]
    /\ request' = [request EXCEPT !.status = "matched"]
    /\ orders' = Booked(e, offers[e].amount, "open_bid")
    /\ UNCHANGED <<invites, directs, eligible, calls, sweep>>

-----------------------------------------------------------------------------
(* Managed requests. *)

\* Slip: the guard looks at the status only.
UnmatchedByStatus == request.status \in {"in_review", "pooled"}

\* _matched_guard.
Unmatched == request.status \in {"in_review", "pooled"} /\ orders = <<>>

ReadToApprovePool(h) ==
    /\ request.mode = "managed" /\ request.status = "in_review"
    /\ \E p \in Prices : Reads(h, [Idle EXCEPT !.op = "approve_pool", !.amount = p])

\* approve_pool: one transaction; an expert invited before makes it fail.
ApprovePool(h) ==
    /\ Saves(h, "approve_pool")
    /\ \/ \E pool \in SUBSET eligible :
            /\ pool # {}
            /\ \A e \in pool : invites[e] = None
            /\ invites' = [e \in Experts |-> IF e \in pool THEN "pending" ELSE invites[e]]
            /\ request' = [request EXCEPT !.status = "pooled", !.quote = calls[h].amount]
       \/ UNCHANGED <<invites, request>>
    /\ UNCHANGED <<offers, directs, orders>>

ReadToReject(h) ==
    /\ request.mode = "managed" /\ CanTransition("rejected")
    /\ Reads(h, [Idle EXCEPT !.op = "reject_managed"])

RejectManaged(h) ==
    /\ Saves(h, "reject_managed")
    /\ invites' = [e \in Experts |-> IF invites[e] = "pending" THEN "expired" ELSE invites[e]]
    /\ request' = [request EXCEPT !.status = "rejected"]
    /\ UNCHANGED <<offers, directs, orders>>

ReadToAssign(h, e) ==
    /\ request.mode = "managed" /\ request.status \in {"in_review", "pooled"}
    /\ e \in eligible
    /\ \A i \in DOMAIN directs : directs[i].expert = e => directs[i].status # "pending"
    /\ \E p \in Prices :
         Reads(h, [Idle EXCEPT !.op = "assign_direct", !.expert = e, !.amount = p])

\* Slip: the amount is the quote the request had before.
AssignAtOldQuote(h) ==
    /\ Saves(h, "assign_direct")
    /\ Len(directs) < MaxDirects
    /\ request' = [request EXCEPT !.quote = calls[h].amount]
    /\ directs' = Append(directs, [expert |-> calls[h].expert, status |-> "pending",
                                   amount |-> request.quote])
    /\ UNCHANGED <<offers, invites, orders>>

\* Slip: assigning already matches the request.
AssignAndMatch(h) ==
    /\ Saves(h, "assign_direct")
    /\ Len(directs) < MaxDirects
    /\ request' = [request EXCEPT !.quote = calls[h].amount, !.status = "matched"]
    /\ directs' = Append(directs, [expert |-> calls[h].expert, status |-> "pending",
                                   amount |-> calls[h].amount])
    /\ UNCHANGED <<offers, invites, orders>>

AssignDirect(h) ==
    /\ Saves(h, "assign_direct")
    /\ Len(directs) < MaxDirects
    /\ request' = [request EXCEPT !.quote = calls[h].amount]
    /\ directs' = Append(directs, [expert |-> calls[h].expert, status |-> "pending",
                                   amount |-> calls[h].amount])
    /\ UNCHANGED <<offers, invites, orders>>

ReadToDeclineInvitation(h, e) ==
    /\ invites[e] = "pending" /\ e \in eligible
    /\ Reads(h, [Idle EXCEPT !.op = "decline_invitation", !.expert = e])

DeclineInvitation(h) ==
    /\ Saves(h, "decline_invitation")
    /\ invites' = [invites EXCEPT ![calls[h].expert] = "declined"]
    /\ UNCHANGED <<request, offers, directs, orders>>

\* decline_direct by the expert, supersede_direct by staff: the same save.
ReadToCloseDirect(h, i, op) ==
    /\ directs[i].status = "pending"
    /\ op = "decline_direct" => directs[i].expert \in eligible
    /\ Reads(h, [Idle EXCEPT !.op = op, !.row = i])

CloseDirect(h, op, to) ==
    /\ Saves(h, op)
    /\ directs' = [directs EXCEPT ![calls[h].row].status = to]
    /\ UNCHANGED <<request, offers, invites, orders>>

\* accept_invitation: first accept wins; the others are declined.  Without a
\* quote the commission cannot be computed and the transaction fails.
AcceptInvitation(e) ==
    /\ e \in eligible
    /\ invites[e] = "pending"
    /\ Unmatched
    /\ request.quote # NoPrice
    /\ Len(orders) < MaxOrders
    /\ invites' = [f \in Experts |->
                     IF f = e THEN "accepted"
                     ELSE IF invites[f] = "pending" THEN "declined" ELSE invites[f]]
    /\ request' = [request EXCEPT !.status = "matched"]
    /\ orders' = Booked(e, request.quote, "managed_pool")
    /\ UNCHANGED <<offers, directs, eligible, calls, sweep>>

\* Slip: the status is not tested again under the lock.
AcceptAnyDirect(i) ==
    /\ directs[i].expert \in eligible
    /\ Unmatched
    /\ Len(orders) < MaxOrders
    /\ directs' = [directs EXCEPT ![i].status = "accepted"]
    /\ request' = [request EXCEPT !.status = "matched"]
    /\ orders' = Booked(directs[i].expert, directs[i].amount, "managed_direct")
    /\ UNCHANGED <<offers, invites, eligible, calls, sweep>>

AcceptDirect(i) ==
    /\ directs[i].expert \in eligible
    /\ directs[i].status = "pending"
    /\ Unmatched
    /\ Len(orders) < MaxOrders
    /\ directs' = [directs EXCEPT ![i].status = "accepted"]
    /\ request' = [request EXCEPT !.status = "matched"]
    /\ orders' = Booked(directs[i].expert, directs[i].amount, "managed_direct")
    /\ UNCHANGED <<offers, invites, eligible, calls, sweep>>

\* assignments.expire_due, per row whose time has passed.
ExpireInvitation(e) ==
    /\ invites[e] = "pending"
    /\ invites' = [invites EXCEPT ![e] = "expired"]
    /\ UNCHANGED <<request, offers, directs, orders, eligible, calls, sweep>>

ExpireDirect(i) ==
    /\ directs[i].status = "pending"
    /\ directs' = [directs EXCEPT ![i].status = "expired"]
    /\ UNCHANGED <<request, offers, invites, orders, eligible, calls, sweep>>

\* Suspension, deactivation, or the expert pausing and resuming.
ChangeEligibility(e) ==
    /\ eligible' = IF e \in eligible THEN eligible \ {e} ELSE eligible \cup {e}
    /\ UNCHANGED <<rows, calls, sweep>>

RequestNext ==
    \/ \E h \in Handlers :
         \/ ReadToUpdateDraft(h) \/ UpdateDraft(h) \/ ReadToPublish(h) \/ Publish(h)
         \/ ReadToCancel(h) \/ CancelSelection(h) \/ ReadToReopen(h) \/ Reopen(h)
    \/ TtlPasses \/ SweepLists \/ SweepExpires \/ SweepClosesOffers \/ SweepStops

OffersNext ==
    \E e \in Experts :
      \/ Accept(e) \/ ChangeEligibility(e)
      \/ \E h \in Handlers :
           \/ ReadToSubmit(h, e) \/ ReadToUpdateOffer(h, e) \/ ReadToWithdraw(h, e)
           \/ ReadToResubmit(h, e) \/ ReadToDecline(h, e)
           \/ Submit(h) \/ UpdateOffer(h) \/ Withdraw(h) \/ Resubmit(h) \/ Decline(h)

ManagedNext ==
    \/ \E e \in Experts : AcceptInvitation(e) \/ ExpireInvitation(e)
    \/ \E i \in DOMAIN directs : AcceptDirect(i) \/ ExpireDirect(i)
    \/ \E h \in Handlers :
         \/ ReadToApprovePool(h) \/ ApprovePool(h) \/ ReadToReject(h) \/ RejectManaged(h)
         \/ \E e \in Experts : ReadToAssign(h, e) \/ ReadToDeclineInvitation(h, e)
         \/ \E i \in DOMAIN directs, op \in {"decline_direct", "supersede_direct"} :
              ReadToCloseDirect(h, i, op)
         \/ AssignDirect(h) \/ DeclineInvitation(h)
         \/ CloseDirect(h, "decline_direct", "declined")
         \/ CloseDirect(h, "supersede_direct", "superseded")

SelectionNext == RequestNext \/ OffersNext \/ ManagedNext

SelectionSpec == SelectionInit /\ [][SelectionNext]_selectionVars

-----------------------------------------------------------------------------
(* Properties. *)

\* A managed request converges: of its invitations and direct assignments at
\* most one is accepted, and a managed order is only ever the request's first
\* (assignments.services._matched_guard), whatever the calls in flight save.
ManagedConverges ==
    /\ \A i \in DOMAIN orders : orders[i].source # "open_bid" => i = 1
    /\ \A e, f \in Experts : invites[e] = "accepted" /\ invites[f] = "accepted" => e = f
    /\ \A i \in DOMAIN directs : directs[i].status = "accepted" =>
         /\ \A e \in Experts : invites[e] # "accepted"
         /\ \A j \in DOMAIN directs : directs[j].status = "accepted" => i = j

\* An answer that stands as accepted has its order: same expert, same amount.
AcceptedHasOrder ==
    /\ \A e \in Experts : offers[e].status = "accepted" =>
         \E i \in DOMAIN orders :
           orders[i] = [expert |-> e, amount |-> offers[e].amount, source |-> "open_bid"]
    /\ \A e \in Experts : invites[e] = "accepted" =>
         \E i \in DOMAIN orders :
           orders[i].expert = e /\ orders[i].source = "managed_pool"
    /\ \A d \in DOMAIN directs : directs[d].status = "accepted" =>
         \E i \in DOMAIN orders :
           orders[i] = [expert |-> directs[d].expert, amount |-> directs[d].amount,
                        source |-> "managed_direct"]

\* A matched request has an order for its student to pay.
MatchedHasOrder == request.status = "matched" => orders # <<>>

\* An invitation or a direct assignment that was declined, expired or superseded
\* is never accepted afterwards: acceptance re-reads it under the lock.
ClosedAnswerStaysClosed ==
    [][/\ \A e \in Experts :
            invites[e] \in {"declined", "expired"} => invites'[e] # "accepted"
       /\ \A i \in DOMAIN directs :
            directs[i].status \in {"declined", "expired", "superseded"} =>
              directs'[i].status \notin {"pending", "accepted"}]_selectionVars

\* What a call in flight still relies on when it saves: it read a row that exists
\* (none is ever deleted), a price, a count below the bound, a draft.
CallFits(c) ==
    /\ c.op \in {"submit", "update_offer", "assign_direct", "approve_pool"} =>
         c.amount \in Prices
    /\ c.op \in {"submit", "assign_direct"} => c.expert \in Experts
    /\ c.op \in {"submit", "resubmit"} => c.seen.offer_count < MaxCount
    /\ c.op \in {"update_offer", "withdraw", "resubmit", "decline"} =>
         c.expert \in Experts /\ offers[c.expert].status # None
    /\ c.op \in {"decline_direct", "supersede_direct"} => c.row \in DOMAIN directs
    /\ c.op = "update_draft" => c.seen.status = "draft"

\* The inductive invariant of the proofs: types, the calls in flight, a price on
\* every offer, a managed order only as the first, and the two order properties.
SelectionInv ==
    /\ SelectionTypeOK
    /\ \A h \in Handlers : CallFits(calls[h])
    /\ \A e \in Experts : offers[e].status # None => offers[e].amount \in Prices
    /\ \A i \in DOMAIN orders : orders[i].source # "open_bid" => i = 1
    /\ AcceptedHasOrder
    /\ MatchedHasOrder
    /\ \A i, j \in DOMAIN directs :
         directs[i].status = "accepted" /\ directs[j].status = "accepted" => i = j

\* An expired request goes back on the market once (BR-08).
ReopenedOnce ==
    [][request.status = "expired" /\ request'.status = "open"
         => ~request.reopened]_selectionVars
=============================================================================
