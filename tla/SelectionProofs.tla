-------------------------- MODULE SelectionProofs --------------------------
(***************************************************************************)
(* The selection of an expert, for any set of experts and prices and any   *)
(* number of HTTP requests in flight, where TLC explores only one.         *)
(***************************************************************************)
EXTENDS Selection, TLAPS

\* The typed part of SelectionInv, split into the rows and the calls on them.
RowsTyped ==
    /\ request \in RequestRow
    /\ offers \in [Experts -> OfferRow]
    /\ \A e \in Experts : offers[e].status # None => offers[e].amount \in Prices
    /\ invites \in [Experts -> (AssignmentStatus \ {"superseded"}) \cup {None}]
    /\ directs \in Seq(DirectRow) /\ Len(directs) <= MaxDirects
    /\ orders \in Seq(OrderRow) /\ Len(orders) <= MaxOrders

CallsTyped ==
    /\ calls \in [Handlers -> Call]
    /\ \A h \in Handlers : CallFits(calls[h])

RestTyped ==
    /\ eligible \subseteq Experts
    /\ sweep \in {"idle", "missed", "listed", "closing"}

SelectionTyped == RowsTyped /\ CallsTyped /\ RestTyped

\* No row disappears: what the calls in flight rely on.
RowsStay ==
    /\ \A e \in Experts : offers[e].status # None => offers'[e].status # None
    /\ DOMAIN directs \subseteq DOMAIN directs'

LEMMA BlankTyped ==
    /\ Blank \in RequestRow /\ Idle \in Call
    /\ Idle.op = "idle"
  BY SelectionAssumption DEF Blank, Idle, RequestRow, Call, Modes, RequestStatus, Timer, Ops

LEMMA RequestFields ==
    ASSUME NEW r \in RequestRow
    PROVE  /\ r.mode \in Modes /\ r.status \in RequestStatus /\ r.expires_at \in Timer
           /\ r.reopened \in BOOLEAN /\ r.offer_count \in 0 .. MaxCount
           /\ r.quote \in Prices \cup {NoPrice}
  BY DEF RequestRow

LEMMA CallFields ==
    ASSUME NEW c \in Call
    PROVE  /\ c.op \in Ops \cup {"idle"} /\ c.expert \in Experts \cup {None}
           /\ c.row \in 0 .. MaxDirects /\ c.amount \in Prices \cup {NoPrice}
           /\ c.seen \in RequestRow
  BY DEF Call

\* A step that leaves well-typed rows, removes none and puts at most one call
\* back to idle keeps the typed part.
LEMMA CallsKept ==
    ASSUME SelectionTyped, RowsTyped', RowsStay, RestTyped',
           \/ calls' = calls
           \/ \E h \in Handlers : calls' = [calls EXCEPT ![h] = Idle]
    PROVE  SelectionTyped'
  <1>1. ASSUME NEW c, CallFits(c), NEW h \in Handlers
        PROVE  CallFits(c)'
    BY <1>1 DEF CallFits, RowsStay
  <1>2. CallFits(Idle)'
    BY BlankTyped DEF CallFits
  <1>3. \A h \in Handlers : calls'[h] = calls[h] \/ calls'[h] = Idle
    BY DEF SelectionTyped, CallsTyped
  <1>4. calls' \in [Handlers -> Call]
    BY BlankTyped DEF SelectionTyped, CallsTyped
  <1>5. \A h \in Handlers : CallFits(calls[h])'
    <2> SUFFICES ASSUME NEW h \in Handlers PROVE CallFits(calls[h])'
      OBVIOUS
    <2>1. CallFits(calls[h])
      BY DEF SelectionTyped, CallsTyped
    <2>2. CASE calls'[h] = calls[h]
      BY <2>1, <2>2 DEF CallFits, RowsStay
    <2>3. CASE calls'[h] = Idle
      BY <2>3, BlankTyped DEF CallFits
    <2> QED BY <1>3, <2>2, <2>3
  <1> QED BY <1>4, <1>5 DEF SelectionTyped, CallsTyped

\* A call that starts with what it relies on keeps the typed part.
LEMMA ReadsKept ==
    ASSUME SelectionTyped, NEW h \in Handlers, NEW c \in Call, CallFits(c), Reads(h, c)
    PROVE  SelectionTyped'
  <1>1. /\ RowsTyped' /\ RestTyped'
        /\ offers' = offers /\ directs' = directs
    BY DEF Reads, rows, SelectionTyped, RowsTyped, RestTyped
  <1>2. calls' \in [Handlers -> Call] /\ \A k \in Handlers : calls'[k] \in {calls[k], c}
    BY DEF Reads, SelectionTyped, CallsTyped
  <1>3. \A k \in Handlers : CallFits(calls[k])'
    BY <1>1, <1>2 DEF SelectionTyped, CallsTyped, CallFits
  <1> QED BY <1>1, <1>2, <1>3 DEF SelectionTyped, CallsTyped

\* A save puts its call back to idle and touches neither eligibility nor the job.
LEMMA SavesKept ==
    ASSUME SelectionTyped, NEW h \in Handlers, NEW op, Saves(h, op), RowsTyped', RowsStay
    PROVE  SelectionTyped'
  <1>1. RestTyped' /\ calls' = [calls EXCEPT ![h] = Idle]
    BY DEF Saves, SelectionTyped, RestTyped
  <1> QED BY <1>1, CallsKept

LEMMA UntouchedRows ==
    ASSUME SelectionTyped,
           offers' = offers, invites' = invites, directs' = directs, orders' = orders,
           request' \in RequestRow
    PROVE  RowsTyped' /\ RowsStay
  BY DEF SelectionTyped, RowsTyped, RowsStay

\* The student's side and the sweep.
LEMMA RequestTyped ==
    ASSUME SelectionTyped, RequestNext
    PROVE  SelectionTyped'
  <1> USE SelectionAssumption
  <1>0. request \in RequestRow
    BY DEF SelectionTyped, RowsTyped
  <1>1. ASSUME NEW h \in Handlers, ReadToUpdateDraft(h) PROVE SelectionTyped'
    <2>1. PICK m \in Modes : Reads(h, [Idle EXCEPT !.op = "update_draft",
                                                   !.seen = [request EXCEPT !.mode = m]])
      BY <1>1 DEF ReadToUpdateDraft
    <2> DEFINE c == [Idle EXCEPT !.op = "update_draft", !.seen = [request EXCEPT !.mode = m]]
    <2>2. [request EXCEPT !.mode = m] \in RequestRow
          /\ [request EXCEPT !.mode = m].status = request.status
      BY <1>0 DEF RequestRow
    <2>3. c \in Call /\ c.op = "update_draft" /\ c.seen.status = request.status
      BY <2>2, BlankTyped DEF Idle, Call, Ops
    <2>4. CallFits(c)
      BY <1>1, <2>3 DEF CallFits, ReadToUpdateDraft
    <2> QED BY <2>1, <2>3, <2>4, ReadsKept
  <1>2. ASSUME NEW h \in Handlers, UpdateDraft(h) PROVE SelectionTyped'
    <2>1. calls[h] \in Call
      BY DEF SelectionTyped, CallsTyped
    <2>2. calls[h].seen \in RequestRow
      BY <2>1, CallFields
    <2>3. RowsTyped' /\ RowsStay /\ Saves(h, "update_draft")
      BY <1>2, <2>2, UntouchedRows DEF UpdateDraft
    <2> QED BY <2>3, SavesKept
  <1>3. ASSUME NEW h \in Handlers, ReadToPublish(h) PROVE SelectionTyped'
    <2> DEFINE seen == [Blank EXCEPT !.mode = request.mode, !.status = request.status]
    <2> DEFINE c == [Idle EXCEPT !.op = "publish", !.seen = seen]
    <2>1. seen \in RequestRow
      BY <1>0, RequestFields, BlankTyped DEF RequestRow, Blank
    <2>2. c \in Call /\ c.op = "publish"
      BY <2>1, BlankTyped DEF Idle, Call, Ops
    <2>3. CallFits(c)
      BY <2>2 DEF CallFits
    <2> QED BY <1>3, <2>2, <2>3, ReadsKept DEF ReadToPublish
  <1>4. ASSUME NEW h \in Handlers, Publish(h) PROVE SelectionTyped'
    <2>1. request' \in RequestRow
      BY <1>0, <1>4 DEF Publish, RequestRow, RequestStatus, Timer
    <2>2. RowsTyped' /\ RowsStay /\ Saves(h, "publish")
      BY <1>4, <2>1, UntouchedRows DEF Publish
    <2> QED BY <2>2, SavesKept
  <1>5. ASSUME NEW h \in Handlers, ReadToCancel(h) \/ ReadToReopen(h) PROVE SelectionTyped'
    <2>1. ASSUME NEW op \in {"cancel", "reopen"} PROVE
            /\ [Idle EXCEPT !.op = op] \in Call
            /\ CallFits([Idle EXCEPT !.op = op])
      BY BlankTyped DEF Idle, Call, Ops, CallFits
    <2> QED BY <1>5, <2>1, ReadsKept DEF ReadToCancel, ReadToReopen
  <1>6. ASSUME NEW h \in Handlers, CancelSelection(h) PROVE SelectionTyped'
    <2>1. request' \in RequestRow
      BY <1>0, <1>6 DEF CancelSelection, RequestRow, RequestStatus
    <2>2. RowsTyped' /\ RowsStay /\ Saves(h, "cancel")
      BY <1>6, <2>1, UntouchedRows DEF CancelSelection
    <2> QED BY <2>2, SavesKept
  <1>7. ASSUME NEW h \in Handlers, Reopen(h) PROVE SelectionTyped'
    <2>1. request' \in RequestRow
      BY <1>0, <1>7 DEF Reopen, RequestRow, RequestStatus, Timer
    <2>2. RowsTyped' /\ RowsStay /\ Saves(h, "reopen")
      BY <1>7, <2>1, UntouchedRows DEF Reopen
    <2> QED BY <2>2, SavesKept
  <1>8. CASE TtlPasses \/ SweepLists \/ SweepExpires \/ SweepStops
    <2>1. request' \in RequestRow
      BY <1>0, <1>8 DEF TtlPasses, SweepLists, SweepExpires, SweepStops, rows, RequestRow,
                        RequestStatus, Timer
    <2>2. RowsTyped' /\ RowsStay
      BY <1>8, <2>1, UntouchedRows DEF TtlPasses, SweepLists, SweepExpires, SweepStops, rows
    <2>3. RestTyped' /\ calls' = calls
      BY <1>8 DEF TtlPasses, SweepLists, SweepExpires, SweepStops, SelectionTyped, RestTyped
    <2> QED BY <2>2, <2>3, CallsKept
  <1>9. CASE SweepClosesOffers
    <2>1. /\ offers' \in [Experts -> OfferRow]
          /\ \A e \in Experts : offers[e].status # None => offers'[e].status # None
          /\ \A e \in Experts : offers'[e].status # None => offers'[e].amount \in Prices
      BY <1>9 DEF SweepClosesOffers, SelectionTyped, RowsTyped, OfferRow, OfferStatus, None
    <2>2. RowsTyped' /\ RowsStay
      BY <1>9, <2>1 DEF SweepClosesOffers, SelectionTyped, RowsTyped, RowsStay
    <2>3. RestTyped' /\ calls' = calls
      BY <1>9 DEF SweepClosesOffers, SelectionTyped, RestTyped
    <2> QED BY <2>2, <2>3, CallsKept
  <1> QED BY <1>1, <1>2, <1>3, <1>4, <1>5, <1>6, <1>7, <1>8, <1>9 DEF RequestNext

\* Offers: reads, saves, the acceptance and the change of eligibility.
LEMMA OfferRowTyped ==
    ASSUME NEW e \in Experts, SelectionTyped
    PROVE  /\ offers[e].status \in OfferStatus \cup {None}
           /\ offers[e].amount \in Prices \cup {NoPrice}
           /\ offers[e].status # None => offers[e].amount \in Prices
  BY DEF SelectionTyped, RowsTyped, OfferRow

\* A save that changes one existing offer, or inserts a priced one, and the request.
LEMMA OfferSaved ==
    ASSUME SelectionTyped, NEW e \in Experts, NEW row \in OfferRow,
           row.status # None, row.amount \in Prices,
           offers' = [offers EXCEPT ![e] = row],
           request' \in RequestRow, UNCHANGED <<invites, directs, orders>>
    PROVE  RowsTyped' /\ RowsStay
  <1>1. offers' \in [Experts -> OfferRow]
    BY DEF SelectionTyped, RowsTyped
  <1>2. \A f \in Experts : offers'[f] = IF f = e THEN row ELSE offers[f]
    BY DEF SelectionTyped, RowsTyped
  <1> QED BY <1>1, <1>2 DEF SelectionTyped, RowsTyped, RowsStay

LEMMA OfferReadsTyped ==
    ASSUME SelectionTyped, NEW h \in Handlers, NEW e \in Experts,
           \/ ReadToSubmit(h, e) \/ ReadToUpdateOffer(h, e) \/ ReadToWithdraw(h, e)
           \/ ReadToResubmit(h, e) \/ ReadToDecline(h, e)
    PROVE  SelectionTyped'
  <1> USE SelectionAssumption
  <1>1. Counted \in RequestRow /\ Counted.offer_count = request.offer_count
    BY RequestFields, BlankTyped DEF Counted, Blank, RequestRow, SelectionTyped, RowsTyped
  <1>2. CASE ReadToSubmit(h, e)
    <2>1. PICK p \in Prices : Reads(h, [Idle EXCEPT !.op = "submit", !.expert = e,
                                                    !.amount = p, !.seen = Counted])
      BY <1>2 DEF ReadToSubmit
    <2> DEFINE c == [Idle EXCEPT !.op = "submit", !.expert = e, !.amount = p, !.seen = Counted]
    <2>2. /\ c \in Call
          /\ c.op = "submit" /\ c.expert = e /\ c.amount = p
          /\ c.seen.offer_count = request.offer_count
      BY <1>1, BlankTyped DEF Idle, Call, Ops
    <2>3. CallFits(c)
      BY <1>2, <2>2 DEF CallFits, ReadToSubmit
    <2> QED BY <2>1, <2>2, <2>3, ReadsKept
  <1>3. CASE ReadToUpdateOffer(h, e)
    <2>1. PICK p \in Prices : Reads(h, [Idle EXCEPT !.op = "update_offer", !.expert = e,
                                                    !.amount = p])
      BY <1>3 DEF ReadToUpdateOffer
    <2> DEFINE c == [Idle EXCEPT !.op = "update_offer", !.expert = e, !.amount = p]
    <2>2. /\ c \in Call
          /\ c.op = "update_offer" /\ c.expert = e /\ c.amount = p
      BY BlankTyped DEF Idle, Call, Ops
    <2>3. CallFits(c)
      BY <1>3, <2>2 DEF CallFits, ReadToUpdateOffer, None
    <2> QED BY <2>1, <2>2, <2>3, ReadsKept
  <1>4. CASE ReadToWithdraw(h, e) \/ ReadToResubmit(h, e)
    <2> DEFINE c(op) == [Idle EXCEPT !.op = op, !.expert = e, !.seen = Counted]
    <2>1. ASSUME NEW op \in {"withdraw", "resubmit"}
          PROVE  c(op) \in Call /\ c(op).op = op /\ c(op).expert = e
                 /\ c(op).seen.offer_count = request.offer_count
      BY <1>1, BlankTyped DEF Idle, Call, Ops
    <2>2. ReadToWithdraw(h, e) => CallFits(c("withdraw")) /\ Reads(h, c("withdraw"))
      BY <2>1 DEF CallFits, ReadToWithdraw, None
    <2>3. ReadToResubmit(h, e) => CallFits(c("resubmit")) /\ Reads(h, c("resubmit"))
      BY <2>1 DEF CallFits, ReadToResubmit, None
    <2> QED BY <1>4, <2>1, <2>2, <2>3, ReadsKept
  <1>5. CASE ReadToDecline(h, e)
    <2> DEFINE c == [Idle EXCEPT !.op = "decline", !.expert = e]
    <2>1. c \in Call /\ c.op = "decline" /\ c.expert = e
      BY BlankTyped DEF Idle, Call, Ops
    <2>2. CallFits(c) /\ Reads(h, c)
      BY <1>5, <2>1 DEF CallFits, ReadToDecline, None
    <2> QED BY <2>1, <2>2, ReadsKept
  <1> QED BY <1>2, <1>3, <1>4, <1>5

LEMMA OfferSavesTyped ==
    ASSUME SelectionTyped, NEW h \in Handlers,
           Submit(h) \/ UpdateOffer(h) \/ Withdraw(h) \/ Resubmit(h) \/ Decline(h)
    PROVE  SelectionTyped'
  <1> USE SelectionAssumption
  <1> DEFINE c == calls[h]
  <1>1. /\ c \in Call /\ CallFits(c)
        /\ request \in RequestRow /\ request.offer_count \in 0 .. MaxCount
        /\ c.seen.offer_count \in 0 .. MaxCount
        /\ offers \in [Experts -> OfferRow]
    BY CallFields, RequestFields DEF SelectionTyped, CallsTyped, RowsTyped
  <1>2. ASSUME NEW n \in 0 .. MaxCount PROVE [request EXCEPT !.offer_count = n] \in RequestRow
    BY <1>1 DEF RequestRow
  <1>3. CASE Submit(h)
    <2>1. c.expert \in Experts /\ c.amount \in Prices /\ c.seen.offer_count + 1 \in 0 .. MaxCount
      BY <1>1, <1>3 DEF CallFits, Submit, Saves
    <2> DEFINE row == [status |-> "pending", amount |-> c.amount]
    <2>2. row \in OfferRow /\ row.status # None /\ row.amount \in Prices
      BY <2>1 DEF OfferRow, OfferStatus, None
    <2>3. CASE offers[c.expert].status = None
      BY <1>2, <1>3, <2>1, <2>2, <2>3, OfferSaved, SavesKept DEF Submit
    <2>4. CASE offers[c.expert].status # None
      BY <1>1, <1>3, <2>4, UntouchedRows, SavesKept DEF Submit
    <2> QED BY <2>3, <2>4
  <1>4. CASE UpdateOffer(h)
    <2>1. c.expert \in Experts /\ c.amount \in Prices
      BY <1>1, <1>4 DEF CallFits, UpdateOffer, Saves
    <2>2. [status |-> "pending", amount |-> c.amount] \in OfferRow
      BY <2>1 DEF OfferRow, OfferStatus
    <2>3. RowsTyped' /\ RowsStay /\ Saves(h, "update_offer")
      BY <1>1, <1>4, <2>1, <2>2, OfferSaved DEF UpdateOffer, None
    <2> QED BY <2>3, SavesKept
  <1>5. ASSUME NEW st \in OfferStatus, NEW e \in Experts, offers[e].status # None
        PROVE  /\ [offers[e] EXCEPT !.status = st] \in OfferRow
               /\ [offers[e] EXCEPT !.status = st].status # None
               /\ [offers[e] EXCEPT !.status = st].amount \in Prices
               /\ [offers EXCEPT ![e].status = st]
                    = [offers EXCEPT ![e] = [offers[e] EXCEPT !.status = st]]
    <2>1. offers[e] \in OfferRow /\ offers[e].amount \in Prices
      BY <1>5 DEF SelectionTyped, RowsTyped
    <2> QED BY <2>1, <1>5 DEF OfferRow, OfferStatus, None
  <1>6. CASE Withdraw(h)
    <2>1. c.expert \in Experts /\ offers[c.expert].status # None
      BY <1>1, <1>6 DEF CallFits, Withdraw, Saves
    <2>2. CASE c.seen.offer_count > 0
      <3>1. c.seen.offer_count - 1 \in 0 .. MaxCount
        BY <1>1, <2>2
      <3>2. "withdrawn" \in OfferStatus
        BY DEF OfferStatus
      <3> QED BY <1>2, <1>5, <1>6, <2>1, <2>2, <3>1, <3>2, OfferSaved, SavesKept DEF Withdraw
    <2>3. CASE ~(c.seen.offer_count > 0)
      BY <1>1, <1>6, <2>3, UntouchedRows, SavesKept DEF Withdraw
    <2> QED BY <2>2, <2>3
  <1>7. CASE Resubmit(h)
    <2>1. /\ c.expert \in Experts /\ offers[c.expert].status # None
          /\ c.seen.offer_count + 1 \in 0 .. MaxCount
      BY <1>1, <1>7 DEF CallFits, Resubmit, Saves
    <2>2. "pending" \in OfferStatus
      BY DEF OfferStatus
    <2> QED BY <1>2, <1>5, <1>7, <2>1, <2>2, OfferSaved, SavesKept DEF Resubmit
  <1>8. CASE Decline(h)
    <2>1. c.expert \in Experts /\ offers[c.expert].status # None
      BY <1>1, <1>8 DEF CallFits, Decline, Saves
    <2>2. "declined" \in OfferStatus
      BY DEF OfferStatus
    <2> QED BY <1>1, <1>5, <1>8, <2>1, <2>2, OfferSaved, SavesKept DEF Decline
  <1> QED BY <1>3, <1>4, <1>6, <1>7, <1>8

\* Booking an order keeps the orders typed and puts it last.
LEMMA BookedTyped ==
    ASSUME SelectionTyped, NEW e \in Experts, NEW a \in Prices, NEW src \in Sources,
           Len(orders) < MaxOrders
    PROVE  Booked(e, a, src) \in Seq(OrderRow) /\ Len(Booked(e, a, src)) <= MaxOrders
  <1>1. [expert |-> e, amount |-> a, source |-> src] \in OrderRow
    BY DEF OrderRow
  <1> QED BY <1>1, SelectionAssumption DEF Booked, SelectionTyped, RowsTyped

LEMMA OffersTyped ==
    ASSUME SelectionTyped, OffersNext
    PROVE  SelectionTyped'
  <1>1. ASSUME NEW e \in Experts, Accept(e) PROVE SelectionTyped'
    <2>1. offers[e].amount \in Prices
      BY <1>1, OfferRowTyped DEF Accept, None
    <2>2. orders' \in Seq(OrderRow) /\ Len(orders') <= MaxOrders
      BY <1>1, <2>1, BookedTyped DEF Accept, Sources
    <2>3. request' \in RequestRow
      BY <1>1 DEF Accept, SelectionTyped, RowsTyped, RequestRow, RequestStatus
    <2>4. /\ offers' \in [Experts -> OfferRow]
          /\ \A f \in Experts : offers[f].status # None => offers'[f].status # None
          /\ \A f \in Experts : offers'[f].status # None => offers'[f].amount \in Prices
      BY <1>1, <2>1 DEF Accept, SelectionTyped, RowsTyped, OfferRow, OfferStatus, None
    <2>5. RowsTyped' /\ RowsStay /\ RestTyped' /\ calls' = calls
      BY <1>1, <2>2, <2>3, <2>4 DEF Accept, SelectionTyped, RowsTyped, RestTyped, RowsStay
    <2> QED BY <2>5, CallsKept
  <1>2. ASSUME NEW e \in Experts, ChangeEligibility(e) PROVE SelectionTyped'
    <2>1. RowsTyped' /\ RowsStay /\ RestTyped' /\ calls' = calls
      BY <1>2 DEF ChangeEligibility, rows, SelectionTyped, RowsTyped, RestTyped, RowsStay
    <2> QED BY <2>1, CallsKept
  <1> QED BY <1>1, <1>2, OfferReadsTyped, OfferSavesTyped DEF OffersNext

\* Managed requests.
LEMMA ManagedReadsTyped ==
    ASSUME SelectionTyped, NEW h \in Handlers,
           \/ ReadToApprovePool(h) \/ ReadToReject(h)
           \/ \E e \in Experts : ReadToAssign(h, e) \/ ReadToDeclineInvitation(h, e)
           \/ \E i \in DOMAIN directs, op \in {"decline_direct", "supersede_direct"} :
                ReadToCloseDirect(h, i, op)
    PROVE  SelectionTyped'
  <1>1. CASE ReadToApprovePool(h)
    <2>1. PICK p \in Prices : Reads(h, [Idle EXCEPT !.op = "approve_pool", !.amount = p])
      BY <1>1 DEF ReadToApprovePool
    <2> DEFINE c == [Idle EXCEPT !.op = "approve_pool", !.amount = p]
    <2>2. c \in Call /\ c.op = "approve_pool" /\ c.amount = p
      BY BlankTyped DEF Idle, Call, Ops
    <2>3. CallFits(c)
      BY <2>2 DEF CallFits
    <2> QED BY <2>1, <2>2, <2>3, ReadsKept
  <1>2. CASE ReadToReject(h)
    <2> DEFINE c == [Idle EXCEPT !.op = "reject_managed"]
    <2>1. c \in Call /\ CallFits(c) /\ Reads(h, c)
      BY <1>2, BlankTyped DEF ReadToReject, Idle, Call, Ops, CallFits
    <2> QED BY <2>1, ReadsKept
  <1>3. ASSUME NEW e \in Experts, ReadToAssign(h, e) PROVE SelectionTyped'
    <2>1. PICK p \in Prices : Reads(h, [Idle EXCEPT !.op = "assign_direct", !.expert = e,
                                                    !.amount = p])
      BY <1>3 DEF ReadToAssign
    <2> DEFINE c == [Idle EXCEPT !.op = "assign_direct", !.expert = e, !.amount = p]
    <2>2. c \in Call /\ c.op = "assign_direct" /\ c.expert = e /\ c.amount = p
      BY BlankTyped DEF Idle, Call, Ops
    <2>3. CallFits(c)
      BY <2>2 DEF CallFits
    <2> QED BY <2>1, <2>2, <2>3, ReadsKept
  <1>4. ASSUME NEW e \in Experts, ReadToDeclineInvitation(h, e) PROVE SelectionTyped'
    <2> DEFINE c == [Idle EXCEPT !.op = "decline_invitation", !.expert = e]
    <2>1. c \in Call /\ CallFits(c) /\ Reads(h, c)
      BY <1>4, BlankTyped DEF ReadToDeclineInvitation, Idle, Call, Ops, CallFits
    <2> QED BY <2>1, ReadsKept
  <1>5. ASSUME NEW i \in DOMAIN directs, NEW op \in {"decline_direct", "supersede_direct"},
               ReadToCloseDirect(h, i, op)
        PROVE  SelectionTyped'
    <2> DEFINE c == [Idle EXCEPT !.op = op, !.row = i]
    <2>1. i \in 0 .. MaxDirects
      BY SelectionAssumption DEF SelectionTyped, RowsTyped
    <2>2. c \in Call /\ c.op = op /\ c.row = i
      BY <2>1, BlankTyped DEF Idle, Call, Ops
    <2>3. CallFits(c) /\ Reads(h, c)
      BY <1>5, <2>2 DEF CallFits, ReadToCloseDirect
    <2> QED BY <2>2, <2>3, ReadsKept
  <1> QED BY <1>1, <1>2, <1>3, <1>4, <1>5

\* One direct assignment changes its status; nothing else of the row does.
LEMMA DirectMarked ==
    ASSUME SelectionTyped, NEW i \in DOMAIN directs, NEW st \in AssignmentStatus
    PROVE  /\ [directs EXCEPT ![i].status = st] \in Seq(DirectRow)
           /\ Len([directs EXCEPT ![i].status = st]) = Len(directs)
           /\ DOMAIN [directs EXCEPT ![i].status = st] = DOMAIN directs
  <1>1. directs \in Seq(DirectRow) /\ directs[i] \in DirectRow
    BY DEF SelectionTyped, RowsTyped
  <1>2. [directs[i] EXCEPT !.status = st] \in DirectRow
    BY <1>1 DEF DirectRow
  <1>3. [directs EXCEPT ![i].status = st] = [directs EXCEPT ![i] = [directs[i] EXCEPT !.status = st]]
    BY <1>1
  <1> QED BY <1>1, <1>2, <1>3

LEMMA ManagedSavesTyped ==
    ASSUME SelectionTyped, NEW h \in Handlers,
           \/ ApprovePool(h) \/ RejectManaged(h) \/ AssignDirect(h) \/ DeclineInvitation(h)
           \/ CloseDirect(h, "decline_direct", "declined")
           \/ CloseDirect(h, "supersede_direct", "superseded")
    PROVE  SelectionTyped'
  <1> USE SelectionAssumption
  <1> DEFINE c == calls[h]
  <1>1. c \in Call /\ CallFits(c) /\ request \in RequestRow
    BY DEF SelectionTyped, CallsTyped, RowsTyped
  <1>2. CASE ApprovePool(h)
    <2>1. c.amount \in Prices
      BY <1>1, <1>2 DEF ApprovePool, Saves, CallFits
    <2>2. request' \in RequestRow
      BY <1>1, <1>2, <2>1 DEF ApprovePool, RequestRow, RequestStatus
    <2>3. invites' \in [Experts -> (AssignmentStatus \ {"superseded"}) \cup {None}]
      BY <1>2 DEF ApprovePool, SelectionTyped, RowsTyped, AssignmentStatus
    <2>4. RowsTyped' /\ RowsStay /\ Saves(h, "approve_pool")
      BY <1>2, <2>2, <2>3 DEF ApprovePool, SelectionTyped, RowsTyped, RowsStay
    <2> QED BY <2>4, SavesKept
  <1>3. CASE RejectManaged(h)
    <2>1. request' \in RequestRow
      BY <1>1, <1>3 DEF RejectManaged, RequestRow, RequestStatus
    <2>2. invites' \in [Experts -> (AssignmentStatus \ {"superseded"}) \cup {None}]
      BY <1>3 DEF RejectManaged, SelectionTyped, RowsTyped, AssignmentStatus
    <2>3. RowsTyped' /\ RowsStay /\ Saves(h, "reject_managed")
      BY <1>3, <2>1, <2>2 DEF RejectManaged, SelectionTyped, RowsTyped, RowsStay
    <2> QED BY <2>3, SavesKept
  <1>4. CASE AssignDirect(h)
    <2>1. c.amount \in Prices /\ c.expert \in Experts
      BY <1>1, <1>4 DEF AssignDirect, Saves, CallFits
    <2>2. request' \in RequestRow
      BY <1>1, <1>4, <2>1 DEF AssignDirect, RequestRow
    <2>3. [expert |-> c.expert, status |-> "pending", amount |-> c.amount] \in DirectRow
      BY <2>1 DEF DirectRow, AssignmentStatus
    <2>4. /\ directs' \in Seq(DirectRow) /\ Len(directs') <= MaxDirects
          /\ DOMAIN directs \subseteq DOMAIN directs'
      BY <1>4, <2>3 DEF AssignDirect, SelectionTyped, RowsTyped
    <2>5. RowsTyped' /\ RowsStay /\ Saves(h, "assign_direct")
      BY <1>4, <2>2, <2>4 DEF AssignDirect, SelectionTyped, RowsTyped, RowsStay
    <2> QED BY <2>5, SavesKept
  <1>5. CASE DeclineInvitation(h)
    <2>1. invites' \in [Experts -> (AssignmentStatus \ {"superseded"}) \cup {None}]
      BY <1>5 DEF DeclineInvitation, SelectionTyped, RowsTyped, AssignmentStatus
    <2>2. RowsTyped' /\ RowsStay /\ Saves(h, "decline_invitation")
      BY <1>5, <2>1 DEF DeclineInvitation, SelectionTyped, RowsTyped, RowsStay
    <2> QED BY <2>2, SavesKept
  <1>6. ASSUME NEW op \in {"decline_direct", "supersede_direct"}, NEW st \in AssignmentStatus,
               CloseDirect(h, op, st)
        PROVE  SelectionTyped'
    <2>1. c.row \in DOMAIN directs
      BY <1>1, <1>6 DEF CloseDirect, Saves, CallFits
    <2>2. /\ directs' \in Seq(DirectRow) /\ Len(directs') <= MaxDirects
          /\ DOMAIN directs' = DOMAIN directs
      BY <1>6, <2>1, DirectMarked DEF CloseDirect, SelectionTyped, RowsTyped
    <2>3. RowsTyped' /\ RowsStay /\ Saves(h, op)
      BY <1>6, <2>2 DEF CloseDirect, SelectionTyped, RowsTyped, RowsStay
    <2> QED BY <2>3, SavesKept
  <1>7. "declined" \in AssignmentStatus /\ "superseded" \in AssignmentStatus
    BY DEF AssignmentStatus
  <1> QED BY <1>2, <1>3, <1>4, <1>5, <1>6, <1>7

LEMMA ManagedTyped ==
    ASSUME SelectionTyped, ManagedNext
    PROVE  SelectionTyped'
  <1>1. ASSUME NEW e \in Experts, AcceptInvitation(e) PROVE SelectionTyped'
    <2>1. request.quote \in Prices
      BY <1>1, RequestFields DEF AcceptInvitation, SelectionTyped, RowsTyped
    <2>2. orders' \in Seq(OrderRow) /\ Len(orders') <= MaxOrders
      BY <1>1, <2>1, BookedTyped DEF AcceptInvitation, Sources
    <2>3. request' \in RequestRow
      BY <1>1 DEF AcceptInvitation, SelectionTyped, RowsTyped, RequestRow, RequestStatus
    <2>4. invites' \in [Experts -> (AssignmentStatus \ {"superseded"}) \cup {None}]
      BY <1>1 DEF AcceptInvitation, SelectionTyped, RowsTyped, AssignmentStatus
    <2>5. RowsTyped' /\ RowsStay /\ RestTyped' /\ calls' = calls
      BY <1>1, <2>2, <2>3, <2>4 DEF AcceptInvitation, SelectionTyped, RowsTyped, RestTyped, RowsStay
    <2> QED BY <2>5, CallsKept
  <1>2. ASSUME NEW i \in DOMAIN directs, AcceptDirect(i) PROVE SelectionTyped'
    <2>0. directs[i] \in DirectRow
      BY DEF SelectionTyped, RowsTyped
    <2>1. directs[i].expert \in Experts /\ directs[i].amount \in Prices
      BY <2>0 DEF DirectRow
    <2>2. orders' \in Seq(OrderRow) /\ Len(orders') <= MaxOrders
      BY <1>2, <2>1, BookedTyped DEF AcceptDirect, Sources
    <2>3. request' \in RequestRow
      BY <1>2 DEF AcceptDirect, SelectionTyped, RowsTyped, RequestRow, RequestStatus
    <2>4. /\ directs' \in Seq(DirectRow) /\ Len(directs') <= MaxDirects
          /\ DOMAIN directs' = DOMAIN directs
      BY <1>2, DirectMarked DEF AcceptDirect, SelectionTyped, RowsTyped, AssignmentStatus
    <2>5. RowsTyped' /\ RowsStay /\ RestTyped' /\ calls' = calls
      BY <1>2, <2>2, <2>3, <2>4 DEF AcceptDirect, SelectionTyped, RowsTyped, RestTyped, RowsStay
    <2> QED BY <2>5, CallsKept
  <1>3. ASSUME NEW e \in Experts, ExpireInvitation(e) PROVE SelectionTyped'
    <2>1. invites' \in [Experts -> (AssignmentStatus \ {"superseded"}) \cup {None}]
      BY <1>3 DEF ExpireInvitation, SelectionTyped, RowsTyped, AssignmentStatus
    <2>2. RowsTyped' /\ RowsStay /\ RestTyped' /\ calls' = calls
      BY <1>3, <2>1 DEF ExpireInvitation, SelectionTyped, RowsTyped, RestTyped, RowsStay
    <2> QED BY <2>2, CallsKept
  <1>4. ASSUME NEW i \in DOMAIN directs, ExpireDirect(i) PROVE SelectionTyped'
    <2>1. /\ directs' \in Seq(DirectRow) /\ Len(directs') <= MaxDirects
          /\ DOMAIN directs' = DOMAIN directs
      BY <1>4, DirectMarked DEF ExpireDirect, SelectionTyped, RowsTyped, AssignmentStatus
    <2>2. RowsTyped' /\ RowsStay /\ RestTyped' /\ calls' = calls
      BY <1>4, <2>1 DEF ExpireDirect, SelectionTyped, RowsTyped, RestTyped, RowsStay
    <2> QED BY <2>2, CallsKept
  <1> QED BY <1>1, <1>2, <1>3, <1>4, ManagedReadsTyped, ManagedSavesTyped DEF ManagedNext

LEMMA InitTyped == ASSUME SelectionInit PROVE SelectionTyped
  <1> USE SelectionAssumption
  <1>1. request \in RequestRow
    <2>1. PICK m \in Modes : request = [Blank EXCEPT !.mode = m]
      BY DEF SelectionInit
    <2>2. [Blank EXCEPT !.mode = m] \in RequestRow
      BY BlankTyped DEF RequestRow
    <2> QED BY <2>1, <2>2
  <1>2. RowsTyped
    BY <1>1 DEF SelectionInit, RowsTyped, OfferRow, None
  <1>3. CallsTyped
    BY BlankTyped DEF SelectionInit, CallsTyped, CallFits
  <1> QED BY <1>2, <1>3 DEF SelectionInit, SelectionTyped, RestTyped

LEMMA StutterTyped == ASSUME SelectionTyped, UNCHANGED selectionVars PROVE SelectionTyped'
  <1>1. RowsTyped' /\ RowsStay /\ RestTyped' /\ calls' = calls
    BY DEF selectionVars, rows, SelectionTyped, RowsTyped, RestTyped, RowsStay
  <1> QED BY <1>1, CallsKept

LEMMA StepTyped == ASSUME SelectionTyped, [SelectionNext]_selectionVars PROVE SelectionTyped'
  BY RequestTyped, OffersTyped, ManagedTyped, StutterTyped DEF SelectionNext

\* Every reachable state of a request's selection has the declared types, for any
\* experts, prices, bounds and number of requests in flight; offer_count stays
\* non-negative although it is written from stale reads.
THEOREM SelectionTypesHold == SelectionSpec => []SelectionTypeOK
  <1>1. SelectionTyped => SelectionTypeOK
    BY DEF SelectionTyped, RowsTyped, CallsTyped, RestTyped, SelectionTypeOK
  <1> QED BY <1>1, InitTyped, StepTyped, PTL DEF SelectionSpec

-----------------------------------------------------------------------------
(* Orders and answers. *)

\* The rest of SelectionInv: a managed order comes first, what is accepted or
\* matched has its order, at most one direct assignment is accepted.
SelectionBooked ==
    /\ \A i \in DOMAIN orders : orders[i].source # "open_bid" => i = 1
    /\ AcceptedHasOrder
    /\ MatchedHasOrder
    /\ \A i, j \in DOMAIN directs :
         directs[i].status = "accepted" /\ directs[j].status = "accepted" => i = j

\* A step that books nothing, accepts nothing, and does not move the request to
\* matched keeps it.
LEMMA NothingAccepted ==
    ASSUME SelectionBooked, orders' = orders,
           \A e \in Experts : offers'[e].status = "accepted" => offers'[e] = offers[e],
           \A e \in Experts : invites'[e] = "accepted" => invites[e] = "accepted",
           \A i \in DOMAIN directs' : directs'[i].status = "accepted" =>
             i \in DOMAIN directs /\ directs'[i] = directs[i],
           request'.status = "matched" => request.status = "matched"
    PROVE  SelectionBooked'
  <1>1. AcceptedHasOrder'
    BY DEF SelectionBooked, AcceptedHasOrder
  <1> QED BY <1>1 DEF SelectionBooked, MatchedHasOrder

\* What a booking leaves: the earlier orders, then the new one.
LEMMA BookedLast ==
    ASSUME SelectionTyped, NEW e, NEW a, NEW src, orders' = Booked(e, a, src)
    PROVE  /\ DOMAIN orders' = DOMAIN orders \cup {Len(orders) + 1}
           /\ \A i \in DOMAIN orders : orders'[i] = orders[i]
           /\ orders'[Len(orders) + 1] = [expert |-> e, amount |-> a, source |-> src]
           /\ orders' # <<>>
           /\ orders = <<>> => DOMAIN orders' = {1} /\ Len(orders) + 1 = 1
  BY DEF Booked, SelectionTyped, RowsTyped

\* Before the first order nothing stands as accepted.
LEMMA NoOrderNoAcceptance ==
    ASSUME SelectionBooked, orders = <<>>
    PROVE  /\ \A e \in Experts : offers[e].status # "accepted" /\ invites[e] # "accepted"
           /\ \A i \in DOMAIN directs : directs[i].status # "accepted"
  BY DEF SelectionBooked, AcceptedHasOrder

LEMMA RequestBooked ==
    ASSUME SelectionTyped, SelectionBooked, RequestNext
    PROVE  SelectionBooked'
  <1>1. ASSUME NEW h \in Handlers, UpdateDraft(h) PROVE SelectionBooked'
    <2>1. CallFits(calls[h])
      BY DEF SelectionTyped, CallsTyped
    <2>2. request'.status = "draft"
      BY <1>1, <2>1 DEF UpdateDraft, Saves, CallFits
    <2> QED BY <1>1, <2>2, NothingAccepted DEF UpdateDraft
  <1>2. ASSUME NEW h \in Handlers,
               \/ ReadToUpdateDraft(h) \/ ReadToPublish(h) \/ ReadToCancel(h) \/ ReadToReopen(h)
        PROVE  SelectionBooked'
    BY <1>2, NothingAccepted DEF ReadToUpdateDraft, ReadToPublish, ReadToCancel, ReadToReopen,
                                 Reads, rows
  <1>3. ASSUME NEW h \in Handlers, Publish(h) \/ CancelSelection(h) \/ Reopen(h)
        PROVE  SelectionBooked'
    <2>1. request'.status = "matched" => request.status = "matched"
      BY <1>3 DEF Publish, CancelSelection, Reopen, SelectionTyped, RowsTyped, RequestRow
    <2>2. CASE Publish(h) \/ CancelSelection(h)
      BY <2>1, <2>2, NothingAccepted DEF Publish, CancelSelection
    <2>3. CASE Reopen(h)
      BY <2>1, <2>3, NothingAccepted DEF Reopen
    <2> QED BY <1>3, <2>2, <2>3
  <1>4. CASE TtlPasses \/ SweepLists \/ SweepExpires \/ SweepStops
    <2>1. request'.status = "matched" => request.status = "matched"
      BY <1>4 DEF TtlPasses, SweepLists, SweepExpires, SweepStops, rows, SelectionTyped, RowsTyped, RequestRow
    <2> QED BY <1>4, <2>1, NothingAccepted DEF TtlPasses, SweepLists, SweepExpires, SweepStops, rows
  <1>5. CASE SweepClosesOffers
    <2>1. \A e \in Experts : offers'[e].status = "accepted" => offers'[e] = offers[e]
      BY <1>5 DEF SweepClosesOffers, SelectionTyped, RowsTyped, OfferRow
    <2> QED BY <1>5, <2>1, NothingAccepted DEF SweepClosesOffers
  <1> QED BY <1>1, <1>2, <1>3, <1>4, <1>5 DEF RequestNext

LEMMA OffersBooked ==
    ASSUME SelectionTyped, SelectionBooked, OffersNext
    PROVE  SelectionBooked'
  <1>1. ASSUME NEW e \in Experts, Accept(e) PROVE SelectionBooked'
    <2> DEFINE o == [expert |-> e, amount |-> offers[e].amount, source |-> "open_bid"]
    <2>1. /\ DOMAIN orders' = DOMAIN orders \cup {Len(orders) + 1}
          /\ \A i \in DOMAIN orders : orders'[i] = orders[i]
          /\ orders'[Len(orders) + 1] = o /\ orders' # <<>>
      <3>1. orders' = Booked(e, offers[e].amount, "open_bid")
        BY <1>1 DEF Accept
      <3> QED BY <3>1, BookedLast
    <2>2. \A f \in Experts : offers'[f].status = "accepted" =>
            \/ f = e /\ offers'[f].amount = offers[e].amount
            \/ offers'[f] = offers[f]
      BY <1>1 DEF Accept, SelectionTyped, RowsTyped, OfferRow
    <2>3. AcceptedHasOrder'
      <3>1. ASSUME NEW f \in Experts, offers'[f].status = "accepted"
            PROVE  \E i \in DOMAIN orders' : orders'[i] =
                     [expert |-> f, amount |-> offers'[f].amount, source |-> "open_bid"]
        BY <2>1, <2>2, <3>1 DEF SelectionBooked, AcceptedHasOrder
      <3>2. UNCHANGED <<invites, directs>>
        BY <1>1 DEF Accept
      <3> QED BY <2>1, <3>1, <3>2 DEF SelectionBooked, AcceptedHasOrder
    <2>4. \A i \in DOMAIN orders' : orders'[i].source # "open_bid" => i = 1
      BY <2>1 DEF SelectionBooked
    <2> QED BY <1>1, <2>1, <2>3, <2>4 DEF Accept, SelectionBooked, MatchedHasOrder
  <1>2. ASSUME NEW e \in Experts, NEW h \in Handlers,
               \/ ChangeEligibility(e)
               \/ ReadToSubmit(h, e) \/ ReadToUpdateOffer(h, e) \/ ReadToWithdraw(h, e)
               \/ ReadToResubmit(h, e) \/ ReadToDecline(h, e)
        PROVE  SelectionBooked'
    BY <1>2, NothingAccepted DEF ChangeEligibility, ReadToSubmit, ReadToUpdateOffer,
         ReadToWithdraw, ReadToResubmit, ReadToDecline, Reads, rows
  <1>3. ASSUME NEW h \in Handlers,
               Submit(h) \/ UpdateOffer(h) \/ Withdraw(h) \/ Resubmit(h) \/ Decline(h)
        PROVE  SelectionBooked'
    <2>1. \A e \in Experts : offers'[e].status = "accepted" => offers'[e] = offers[e]
      BY <1>3 DEF Submit, UpdateOffer, Withdraw, Resubmit, Decline, SelectionTyped, RowsTyped, OfferRow
    <2>2. request'.status = "matched" => request.status = "matched"
      BY <1>3 DEF Submit, UpdateOffer, Withdraw, Resubmit, Decline, SelectionTyped, RowsTyped, RequestRow
    <2> QED BY <1>3, <2>1, <2>2, NothingAccepted
         DEF Submit, UpdateOffer, Withdraw, Resubmit, Decline
  <1>4. ASSUME NEW e \in Experts, ChangeEligibility(e) PROVE SelectionBooked'
    BY <1>4, NothingAccepted DEF ChangeEligibility, rows
  <1> QED BY <1>1, <1>2, <1>3, <1>4 DEF OffersNext

LEMMA ManagedBooked ==
    ASSUME SelectionTyped, SelectionBooked, ManagedNext
    PROVE  SelectionBooked'
  <1>1. ASSUME NEW e \in Experts, AcceptInvitation(e) PROVE SelectionBooked'
    <2>1. orders = <<>>
      BY <1>1 DEF AcceptInvitation, Unmatched
    <2>0. /\ DOMAIN orders' = {1} /\ orders' # <<>>
          /\ orders'[1] = [expert |-> e, amount |-> request.quote, source |-> "managed_pool"]
      BY <1>1, <2>1, BookedLast DEF AcceptInvitation
    <2>2. /\ DOMAIN orders' = {1} /\ orders' # <<>>
          /\ orders'[1].expert = e /\ orders'[1].source = "managed_pool"
      BY <2>0
    <2>3. \A f \in Experts : invites'[f] = "accepted" => f = e
      BY <1>1, <2>1, NoOrderNoAcceptance DEF AcceptInvitation, SelectionTyped, RowsTyped
    <2>4. AcceptedHasOrder'
      BY <1>1, <2>1, <2>2, <2>3, NoOrderNoAcceptance DEF AcceptInvitation, AcceptedHasOrder
    <2> QED BY <1>1, <2>1, <2>2, <2>4, NoOrderNoAcceptance
         DEF AcceptInvitation, SelectionBooked, MatchedHasOrder
  <1>2. ASSUME NEW i \in DOMAIN directs, AcceptDirect(i) PROVE SelectionBooked'
    <2>1. orders = <<>>
      BY <1>2 DEF AcceptDirect, Unmatched
    <2>2. /\ DOMAIN orders' = {1} /\ orders' # <<>>
          /\ orders'[1] = [expert |-> directs[i].expert, amount |-> directs[i].amount,
                           source |-> "managed_direct"]
      BY <1>2, <2>1, BookedLast DEF AcceptDirect
    <2>3. directs \in Seq(DirectRow) /\ directs[i] \in DirectRow
      BY DEF SelectionTyped, RowsTyped
    <2>4. /\ DOMAIN directs' = DOMAIN directs
          /\ \A j \in DOMAIN directs : j # i => directs'[j] = directs[j]
          /\ directs'[i].expert = directs[i].expert /\ directs'[i].amount = directs[i].amount
      BY <1>2, <2>3 DEF AcceptDirect, DirectRow
    <2>5. \A j \in DOMAIN directs' : directs'[j].status = "accepted" => j = i
      BY <2>1, <2>4, NoOrderNoAcceptance
    <2>6. AcceptedHasOrder'
      BY <1>2, <2>1, <2>2, <2>4, <2>5, NoOrderNoAcceptance DEF AcceptDirect, AcceptedHasOrder
    <2> QED BY <1>2, <2>2, <2>5, <2>6 DEF AcceptDirect, SelectionBooked, MatchedHasOrder
  <1>3. ASSUME NEW h \in Handlers,
               \/ ReadToApprovePool(h) \/ ReadToReject(h)
               \/ \E e \in Experts : ReadToAssign(h, e) \/ ReadToDeclineInvitation(h, e)
               \/ \E i \in DOMAIN directs, op \in {"decline_direct", "supersede_direct"} :
                    ReadToCloseDirect(h, i, op)
        PROVE  SelectionBooked'
    BY <1>3, NothingAccepted DEF ReadToApprovePool, ReadToReject, ReadToAssign,
         ReadToDeclineInvitation, ReadToCloseDirect, Reads, rows
  <1>4. ASSUME NEW h \in Handlers, ApprovePool(h) \/ RejectManaged(h) \/ DeclineInvitation(h)
        PROVE  SelectionBooked'
    <2>1. \A e \in Experts : invites'[e] = "accepted" => invites[e] = "accepted"
      BY <1>4 DEF ApprovePool, RejectManaged, DeclineInvitation, SelectionTyped, RowsTyped
    <2>2. request'.status = "matched" => request.status = "matched"
      BY <1>4 DEF ApprovePool, RejectManaged, DeclineInvitation, SelectionTyped, RowsTyped, RequestRow
    <2> QED BY <1>4, <2>1, <2>2, NothingAccepted DEF ApprovePool, RejectManaged, DeclineInvitation
  <1>5. ASSUME NEW h \in Handlers, AssignDirect(h) PROVE SelectionBooked'
    <2>1. \A i \in DOMAIN directs' : directs'[i].status = "accepted" =>
            i \in DOMAIN directs /\ directs'[i] = directs[i]
      BY <1>5 DEF AssignDirect, SelectionTyped, RowsTyped
    <2>2. request'.status = request.status
      BY <1>5 DEF AssignDirect, SelectionTyped, RowsTyped, RequestRow
    <2> QED BY <1>5, <2>1, <2>2, NothingAccepted DEF AssignDirect
  <1>6. ASSUME NEW i \in DOMAIN directs, NEW st \in {"declined", "superseded", "expired"},
               directs' = [directs EXCEPT ![i].status = st],
               UNCHANGED <<request, offers, invites, orders>>
        PROVE  SelectionBooked'
    <2>1. directs \in Seq(DirectRow) /\ directs[i] \in DirectRow
      BY DEF SelectionTyped, RowsTyped
    <2>2. \A j \in DOMAIN directs' : directs'[j].status = "accepted" =>
            j \in DOMAIN directs /\ directs'[j] = directs[j]
      BY <1>6, <2>1 DEF DirectRow
    <2> QED BY <1>6, <2>2, NothingAccepted
  <1>7. ASSUME NEW h \in Handlers, NEW op \in {"decline_direct", "supersede_direct"},
               NEW st \in {"declined", "superseded"}, CloseDirect(h, op, st)
        PROVE  SelectionBooked'
    <2>1. calls[h].row \in DOMAIN directs
      BY <1>7 DEF CloseDirect, Saves, CallFits, SelectionTyped, CallsTyped
    <2> QED BY <1>6, <1>7, <2>1 DEF CloseDirect
  <1>8. ASSUME NEW i \in DOMAIN directs, ExpireDirect(i) PROVE SelectionBooked'
    BY <1>6, <1>8 DEF ExpireDirect
  <1>9. ASSUME NEW e \in Experts, ExpireInvitation(e) PROVE SelectionBooked'
    <2>1. \A f \in Experts : invites'[f] = "accepted" => invites[f] = "accepted"
      BY <1>9 DEF ExpireInvitation, SelectionTyped, RowsTyped
    <2> QED BY <1>9, <2>1, NothingAccepted DEF ExpireInvitation
  <1> QED BY <1>1, <1>2, <1>3, <1>4, <1>5, <1>7, <1>8, <1>9 DEF ManagedNext

LEMMA StutterBooked ==
    ASSUME SelectionBooked, UNCHANGED selectionVars
    PROVE  SelectionBooked'
  BY NothingAccepted DEF selectionVars, rows

LEMMA InvParts == SelectionInv <=> SelectionTyped /\ SelectionBooked
  BY DEF SelectionInv, SelectionTyped, SelectionBooked, SelectionTypeOK, RowsTyped, CallsTyped, RestTyped

\* The strengthened invariant of the selection holds in every reachable state.
THEOREM SelectionInvariant == SelectionSpec => []SelectionInv
  <1>1. SelectionInit => SelectionInv
    <2> SUFFICES ASSUME SelectionInit PROVE SelectionBooked
      BY InitTyped, InvParts
    <2> QED BY DEF SelectionInit, SelectionBooked, AcceptedHasOrder, MatchedHasOrder, None, Blank
  <1>2. SelectionInv /\ [SelectionNext]_selectionVars => SelectionInv'
    <2> SUFFICES ASSUME SelectionTyped, SelectionBooked, [SelectionNext]_selectionVars
                 PROVE  SelectionTyped' /\ SelectionBooked'
      BY InvParts DEF SelectionInv, SelectionTyped, SelectionBooked, SelectionTypeOK, RowsTyped,
                      CallsTyped, RestTyped
    <2> QED BY StepTyped, RequestBooked, OffersBooked, ManagedBooked, StutterBooked DEF SelectionNext
  <1> QED BY <1>1, <1>2, PTL DEF SelectionSpec

\* Whatever the racing calls save, an answer that stands as accepted has an order
\* for the same expert at the same amount (bidding.accept, accept_invitation,
\* accept_direct).
THEOREM AcceptancesAreBooked == SelectionSpec => []AcceptedHasOrder
  <1>1. SelectionInv => AcceptedHasOrder
    BY DEF SelectionInv
  <1> QED BY <1>1, SelectionInvariant, PTL

\* A matched request always has an order for its student to pay.
THEOREM MatchesAreBooked == SelectionSpec => []MatchedHasOrder
  <1>1. SelectionInv => MatchedHasOrder
    BY DEF SelectionInv
  <1> QED BY <1>1, SelectionInvariant, PTL

\* A managed request converges on one answer, for any number of experts and of
\* calls in flight: _matched_guard is enough although most saves take no lock.
THEOREM ManagedRequestsConverge == SelectionSpec => []ManagedConverges
  <1>1. SelectionInv => ManagedConverges
    <2> SUFFICES ASSUME SelectionInv PROVE ManagedConverges
      OBVIOUS
    <2>1. \A e \in Experts : invites[e] = "accepted" =>
            /\ 1 \in DOMAIN orders /\ orders[1].expert = e
            /\ orders[1].source = "managed_pool"
      BY DEF SelectionInv, AcceptedHasOrder
    <2>2. \A d \in DOMAIN directs : directs[d].status = "accepted" =>
            1 \in DOMAIN orders /\ orders[1].source = "managed_direct"
      BY DEF SelectionInv, AcceptedHasOrder
    <2> QED BY <2>1, <2>2 DEF SelectionInv, ManagedConverges
  <1> QED BY <1>1, SelectionInvariant, PTL

\* No step accepts an invitation or a direct assignment that was closed.
THEOREM ClosedForGood == SelectionSpec => ClosedAnswerStaysClosed
  <1> DEFINE Stays ==
        /\ \A e \in Experts : invites[e] \in {"declined", "expired"} => invites'[e] # "accepted"
        /\ \A i \in DOMAIN directs :
             directs[i].status \in {"declined", "expired", "superseded"} =>
               directs'[i].status \notin {"pending", "accepted"}
  <1>1. ASSUME SelectionTyped, [SelectionNext]_selectionVars PROVE Stays
    <2>0. /\ invites \in [Experts -> (AssignmentStatus \ {"superseded"}) \cup {None}]
          /\ directs \in Seq(DirectRow)
          /\ \A i \in DOMAIN directs : directs[i] \in DirectRow
      BY <1>1 DEF SelectionTyped, RowsTyped
    <2>1. CASE RequestNext
      BY <2>1 DEF RequestNext, ReadToUpdateDraft, UpdateDraft, ReadToPublish, Publish,
           ReadToCancel, CancelSelection, ReadToReopen, Reopen, TtlPasses, SweepLists,
           SweepExpires, SweepClosesOffers, SweepStops, Reads, rows
    <2>2. CASE OffersNext
      <3>1. ASSUME NEW e \in Experts, NEW h \in Handlers,
                   \/ ReadToSubmit(h, e) \/ ReadToUpdateOffer(h, e) \/ ReadToWithdraw(h, e)
                   \/ ReadToResubmit(h, e) \/ ReadToDecline(h, e)
            PROVE  UNCHANGED <<invites, directs>>
        BY <3>1 DEF ReadToSubmit, ReadToUpdateOffer, ReadToWithdraw, ReadToResubmit,
             ReadToDecline, Reads, rows
      <3>2. ASSUME NEW h \in Handlers, Submit(h) \/ UpdateOffer(h) \/ Withdraw(h)
            PROVE  UNCHANGED <<invites, directs>>
        BY <3>2 DEF Submit, UpdateOffer, Withdraw
      <3>3. ASSUME NEW h \in Handlers, Resubmit(h) \/ Decline(h)
            PROVE  UNCHANGED <<invites, directs>>
        BY <3>3 DEF Resubmit, Decline
      <3>4. ASSUME NEW e \in Experts, Accept(e) \/ ChangeEligibility(e)
            PROVE  UNCHANGED <<invites, directs>>
        BY <3>4 DEF Accept, ChangeEligibility, rows
      <3>5. UNCHANGED <<invites, directs>>
        BY <2>2, <3>1, <3>2, <3>3, <3>4 DEF OffersNext
      <3> QED BY <3>5
    <2>3. CASE UNCHANGED selectionVars
      BY <2>3 DEF selectionVars, rows
    <2>4. CASE ManagedNext
      <3>1. ASSUME NEW e \in Experts, AcceptInvitation(e) PROVE Stays
        BY <2>0, <3>1 DEF AcceptInvitation
      <3>2. ASSUME NEW i \in DOMAIN directs, AcceptDirect(i) PROVE Stays
        BY <2>0, <3>2 DEF AcceptDirect, DirectRow
      <3>3. ASSUME NEW e \in Experts, ExpireInvitation(e) PROVE Stays
        BY <2>0, <3>3 DEF ExpireInvitation
      <3>4. ASSUME NEW i \in DOMAIN directs, ExpireDirect(i) PROVE Stays
        BY <2>0, <3>4 DEF ExpireDirect, DirectRow
      <3>5. ASSUME NEW h \in Handlers,
                   \/ ReadToApprovePool(h) \/ ReadToReject(h)
                   \/ \E e \in Experts : ReadToAssign(h, e) \/ ReadToDeclineInvitation(h, e)
                   \/ \E i \in DOMAIN directs, op \in {"decline_direct", "supersede_direct"} :
                        ReadToCloseDirect(h, i, op)
            PROVE  Stays
        BY <3>5 DEF ReadToApprovePool, ReadToReject, ReadToAssign, ReadToDeclineInvitation,
             ReadToCloseDirect, Reads, rows
      <3>6. ASSUME NEW h \in Handlers, ApprovePool(h) \/ RejectManaged(h) \/ DeclineInvitation(h)
            PROVE  Stays
        BY <2>0, <3>6 DEF ApprovePool, RejectManaged, DeclineInvitation
      <3>7. ASSUME NEW h \in Handlers, AssignDirect(h) PROVE Stays
        BY <2>0, <3>7 DEF AssignDirect
      <3>8. ASSUME NEW h \in Handlers,
                   \/ CloseDirect(h, "decline_direct", "declined")
                   \/ CloseDirect(h, "supersede_direct", "superseded")
            PROVE  Stays
        BY <2>0, <3>8 DEF CloseDirect, DirectRow
      <3> QED BY <2>4, <3>1, <3>2, <3>3, <3>4, <3>5, <3>6, <3>7, <3>8 DEF ManagedNext
    <2> QED BY <1>1, <2>1, <2>2, <2>3, <2>4 DEF SelectionNext
  <1>2. SelectionSpec => [][Stays]_selectionVars
    BY <1>1, InitTyped, StepTyped, PTL DEF SelectionSpec
  <1> QED BY <1>2 DEF ClosedAnswerStaysClosed
=============================================================================
