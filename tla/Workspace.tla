----------------------------- MODULE Workspace -----------------------------
(***************************************************************************)
(* The page of one order (order-workspace*.tsx with its payment, review    *)
(* and dispute panels) in the tab of its student or of its expert, and the *)
(* server it acts on: the order's rules as the page meets them, and the    *)
(* two places where a service tests a row it has loaded and saves it       *)
(* later, without a lock: the payment's (start_payment, the payment.failed *)
(* handler) and the review's (edit, reply, moderation).                    *)
(***************************************************************************)
EXTENDS Integers

CONSTANTS
    Calls,         \* requests of the page under way at a time, the mount's included
    MountCall,
    RevisionLimit, \* revisions_allowed
    DevConfirm,    \* PAYMENT_DEV_SELF_CONFIRM
    MaxMissed      \* bound: changes by others since the page last read the order

ASSUME WorkspaceAssumption ==
    MountCall \in Calls /\ RevisionLimit \in Nat /\ DevConfirm \in BOOLEAN /\ MaxMissed \in Nat

VARIABLES
    viewer,     \* whose page it is
    deal,       \* the order row with its payment's status ("refunded": wholly or in
                \* part), and whether its dispute window is open
    quarrel,    \* the order's dispute: "none", "active" or "over"
    review,     \* the order's review
    late,       \* what a request of the counterparty, of another tab or of the provider is
                \* about to save, having read a row that allowed it (bound: one in a run)
    workspace,  \* the page: its copies of the three, busy, and what it has missed
    calls       \* per call: what it is, where it is, what it read

workspaceVars == <<viewer, deal, quarrel, review, late, workspace, calls>>

\* "reload" is the load() an action ends with.
Keys == {"load", "reload", "pay", "confirm-payment", "deliver", "approve", "revise", "submit-review",
         "edit-review", "reply-review", "open-dispute", "add-evidence"}
ReviewWrites == {"edit-review", "reply-review"}
UnlockedSaves == {"pending", "failed", "reply"}

\* The keys whose composer uploads files before the call.
UploadsFirst == {"deliver", "open-dispute", "add-evidence"}

DealStatuses == {"awaiting_payment", "active", "delivered", "revision_requested", "completed",
             "cancelled", "disputed"}
DealPayments == {"none", "pending", "failed", "paid", "refunded", "canceled"}
Deals == [status : DealStatuses, payment : DealPayments, revisions_used : 0 .. RevisionLimit,
          window : BOOLEAN]
\* The page is not told the window.
ShownDeals == [status : DealStatuses, payment : DealPayments, revisions_used : 0 .. RevisionLimit]
Shown(d) == [status |-> d.status, payment |-> d.payment, revisions_used |-> d.revisions_used]
Quarrels == {"none", "active", "over"}
\* The reply is told apart by the request that wrote it: this page's or another one.
Reviews == [status : {"none", "published", "hidden"}, reply : {"none", "page", "other"}]
Copies == [loaded : BOOLEAN, order : ShownDeals, review : Reviews, dispute : Quarrels]

NoReview == [status |-> "none", reply |-> "none"]
Replied(r) == r.reply # "none"
NewDeal == [status |-> "awaiting_payment", payment |-> "none", revisions_used |-> 0,
            window |-> TRUE]
NoCopy == [loaded |-> FALSE, order |-> Shown(NewDeal), review |-> NoReview, dispute |-> "none"]
NoCall == [key |-> "load", step |-> "idle", seen |-> NoReview]

WorkspaceTypeOK ==
    /\ viewer \in {"student", "expert"}
    /\ deal \in Deals
    /\ quarrel \in Quarrels
    /\ review \in Reviews
    /\ late \in UnlockedSaves \cup {"none", "done"}
    /\ workspace \in [copy : Copies, busy : BOOLEAN, missed : 0 .. MaxMissed]
    /\ calls \in [Calls -> [key : Keys, seen : Reviews,
                            step : {"idle", "uploading", "asked", "viewed", "reading",
                                    "answered", "order", "panels"}]]

WorkspaceInit ==
    /\ viewer \in {"student", "expert"}
    /\ deal = NewDeal
    /\ quarrel = "none"
    /\ review = NoReview
    /\ late = "none"
    /\ workspace = [copy |-> NoCopy, busy |-> FALSE, missed |-> 0]
    /\ calls = [c \in Calls |-> IF c = MountCall THEN [NoCall EXCEPT !.step = "order"]
                                ELSE NoCall]

-----------------------------------------------------------------------------
(* What the page offers. *)

\* Slip: the revisions left are not looked at.
ActionsWithoutLimit(o) ==
    {k \in {"pay", "deliver", "approve", "revise"} :
       \/ k = "pay" /\ o.status = "awaiting_payment"
       \/ k = "deliver" /\ viewer = "expert" /\ o.status = "active"
       \/ k \in {"approve", "revise"} /\ viewer = "student" /\ o.status = "delivered"}

\* workspaceActions, without "cancel": its tone is "ghost", and the action bar
\* shows those as a text, not as a button.
workspaceActions(o) ==
    {k \in {"pay", "deliver", "approve", "revise"} :
       \/ k = "pay" /\ o.status = "awaiting_payment"
       \/ k = "deliver" /\ viewer = "expert" /\ o.status = "active"
       \/ k = "approve" /\ viewer = "student" /\ o.status = "delivered"
       \/ k = "revise" /\ viewer = "student" /\ o.status = "delivered"
          /\ o.revisions_used < RevisionLimit}

PaymentOffers(o) ==
    {k \in {"pay", "confirm-payment"} :
       /\ viewer = "student"
       /\ \/ o.payment = "pending" /\ (k = "confirm-payment" => DevConfirm)
          \/ o.payment = "failed" /\ k = "pay"}

\* ReviewSection, canEditReview and canReplyToReview.
ReviewOffers(o, r) ==
    {k \in {"submit-review", "edit-review", "reply-review"} :
       \/ k = "submit-review" /\ viewer = "student"
          /\ o.status = "completed" /\ r.status = "none"
       \/ k = "edit-review" /\ viewer = "student" /\ r.status = "published" /\ ~Replied(r)
       \/ k = "reply-review" /\ viewer = "expert" /\ r.status = "published" /\ ~Replied(r)}

\* DisputeSection and canOpenDispute.
DisputeOffers(o, d) ==
    {k \in {"open-dispute", "add-evidence"} :
       \/ k = "open-dispute" /\ viewer = "student" /\ d = "none"
          /\ o.status \in {"active", "delivered", "revision_requested", "completed"}
       \/ k = "add-evidence" /\ d = "active"}

Offers(copy) ==
    IF ~copy.loaded THEN {}
    ELSE workspaceActions(copy.order) \cup PaymentOffers(copy.order)
         \cup ReviewOffers(copy.order, copy.review) \cup DisputeOffers(copy.order, copy.dispute)

-----------------------------------------------------------------------------
(* The server. *)

\* What each service tests, for the viewer's account.
Allowed(k) ==
    CASE k \in {"pay", "confirm-payment"} ->
           /\ viewer = "student" /\ deal.status = "awaiting_payment"
           /\ deal.payment # "paid"
           /\ k = "confirm-payment" => DevConfirm /\ deal.payment \in {"pending", "failed"}
      [] k = "deliver" -> viewer = "expert" /\ deal.status \in {"active", "revision_requested"}
      [] k = "approve" -> viewer = "student" /\ deal.status = "delivered"
      [] k = "revise" -> /\ viewer = "student" /\ deal.status = "delivered"
                         /\ deal.revisions_used < RevisionLimit
      [] k = "submit-review" -> /\ viewer = "student" /\ deal.status = "completed"
                                /\ review.status = "none"
      [] k = "edit-review" -> viewer = "student" /\ review.status # "none" /\ ~Replied(review)
      [] k = "reply-review" -> viewer = "expert" /\ review.status # "none" /\ ~Replied(review)
      [] k = "open-dispute" -> /\ quarrel = "none"
                               /\ \/ deal.status \in {"active", "delivered",
                                                      "revision_requested"}
                                  \/ deal.status = "completed" /\ deal.window
      [] k = "add-evidence" -> quarrel = "active"

\* The rows after an order action that runs under the order's lock.
DealAfter(k) ==
    CASE k = "confirm-payment" -> [deal EXCEPT !.status = "active", !.payment = "paid"]
      [] k = "deliver" -> [deal EXCEPT !.status = "delivered"]
      [] k = "approve" -> [deal EXCEPT !.status = "completed"]
      [] k = "revise" -> [deal EXCEPT !.status = "revision_requested",
                                      !.revisions_used = @ + 1]
      [] k = "open-dispute" -> [deal EXCEPT !.status = "disputed"]
      [] OTHER -> deal

Done(k) ==
    /\ deal' = DealAfter(k)
    /\ quarrel' = IF k = "open-dispute" THEN "active" ELSE quarrel
    /\ review' = IF k = "submit-review" THEN [review EXCEPT !.status = "published"]
                 ELSE review

\* The handler's own object after its changes: what it answers with.
Answered(k, seen) ==
    IF k = "reply-review" THEN [seen EXCEPT !.reply = "page"] ELSE seen

\* Slip: every column of the review that was loaded is saved.
WholeReview(k, seen, writer) ==
    IF k = "reply-review" THEN [seen EXCEPT !.reply = writer] ELSE seen

\* edit_review and reply_to_review save the columns they change and no other.
SavedReview(k, seen, writer) ==
    IF k = "reply-review" THEN [review EXCEPT !.reply = writer] ELSE review

-----------------------------------------------------------------------------
(* The calls of the page. *)

Step(c, step) == calls' = [calls EXCEPT ![c].step = step]
Load(c) == IF calls[c].key = "load" THEN NoCall ELSE [NoCall EXCEPT !.key = "reload"]
server == <<viewer, deal, quarrel, review, late>>

\* A call that is refused or lost: the composer's message, and finally.
Refuse(c) ==
    /\ calls' = [calls EXCEPT ![c] = NoCall]
    /\ workspace' = [workspace EXCEPT !.busy = @ /\ calls[c].key = "load"]

\* A button: those of onAction are disabled while busy, except the evidence's,
\* which only looks at its own upload.
Click(c, k) ==
    /\ calls[c].step = "idle"
    /\ k \in Offers(workspace.copy)
    /\ \A b \in Calls : calls[b].step = "uploading" => calls[b].key # k
    /\ workspace.busy => k = "add-evidence"
    /\ calls' = [calls EXCEPT ![c] = [NoCall EXCEPT !.key = k,
                    !.step = IF k \in UploadsFirst THEN "uploading" ELSE "asked"]]
    /\ workspace' = [workspace EXCEPT !.busy = @ \/ k \notin UploadsFirst]
    /\ UNCHANGED server

\* onAction starts when the last file is up.
UploadEnds(c) ==
    /\ calls[c].step = "uploading"
    /\ Step(c, "asked")
    /\ workspace' = [workspace EXCEPT !.busy = TRUE]
    /\ UNCHANGED server

UploadFails(c) ==
    /\ calls[c].step = "uploading"
    /\ Step(c, "idle")
    /\ UNCHANGED <<server, workspace>>

\* The two review writes load the review first.
LoadReview(c) ==
    /\ calls[c].step = "asked" /\ calls[c].key \in ReviewWrites
    /\ calls' = [calls EXCEPT ![c].step = "reading", ![c].seen = review]
    /\ UNCHANGED <<server, workspace>>

ServeReviewWrite(c) ==
    /\ calls[c].step = "reading" /\ calls[c].key \in ReviewWrites
    /\ LET seen == calls[c].seen IN
       IF Replied(seen)
       THEN Refuse(c) /\ UNCHANGED review
       ELSE /\ Step(c, "answered") /\ review' = SavedReview(calls[c].key, seen, "page")
            /\ UNCHANGED workspace
    /\ UNCHANGED <<viewer, deal, quarrel, late>>

\* The pay view loads the order.
ViewOrderToPay(c) ==
    /\ calls[c].step = "asked" /\ calls[c].key = "pay"
    /\ IF viewer = "student" /\ deal.status = "awaiting_payment"
       THEN Step(c, "viewed") /\ UNCHANGED workspace
       ELSE Refuse(c)
    /\ UNCHANGED server

\* start_payment on that order: create the payment, answer with a pending one,
\* refuse a paid one, or go on to re-arm the one it has read.
StartsPayment(c) ==
    /\ calls[c].step = "viewed"
    /\ \/ deal.payment = "paid" /\ Refuse(c)
       \/ /\ deal.payment # "paid" /\ UNCHANGED workspace
          /\ Step(c, IF deal.payment \in {"none", "pending"} THEN "answered" ELSE "reading")
    /\ deal' = IF deal.payment = "none" THEN [deal EXCEPT !.payment = "pending"] ELSE deal
    /\ UNCHANGED <<viewer, quarrel, review, late>>

\* The re-armed attempt is saved over whatever order and payment are by now.
RearmsPayment(c) ==
    /\ calls[c].step = "reading" /\ calls[c].key = "pay"
    /\ deal' = [deal EXCEPT !.payment = "pending"]
    /\ Step(c, "answered")
    /\ UNCHANGED <<viewer, quarrel, review, late, workspace>>

\* The other services run under a lock, or are one insert.
ServeAction(c) ==
    /\ calls[c].step = "asked" /\ calls[c].key \notin ReviewWrites \cup {"pay"}
    /\ IF Allowed(calls[c].key)
       THEN Done(calls[c].key) /\ Step(c, "answered") /\ UNCHANGED workspace
       ELSE Refuse(c) /\ UNCHANGED <<deal, quarrel, review>>
    /\ UNCHANGED <<viewer, late>>

AnswerLost(c) ==
    /\ calls[c].step \in {"asked", "answered", "order", "panels"}
    /\ Refuse(c)
    /\ UNCHANGED server

\* setReview, setDispute (read once more after evidence), and on to load().
ReadAction(c) ==
    /\ calls[c].step = "answered"
    /\ calls' = [calls EXCEPT ![c] = [Load(c) EXCEPT !.step = "order"]]
    /\ workspace' = [workspace EXCEPT
         !.copy.review = CASE calls[c].key = "submit-review" ->
                                [status |-> "published", reply |-> "none"]
                           [] calls[c].key \in ReviewWrites ->
                                Answered(calls[c].key, calls[c].seen)
                           [] OTHER -> @,
         !.copy.dispute = CASE calls[c].key = "open-dispute" -> "active"
                            [] calls[c].key = "add-evidence" -> quarrel
                            [] OTHER -> @]
    /\ UNCHANGED server

\* load: the order is shown when it arrives, and then the panels are asked for.  What
\* changes while an answer is on its way is a change the page misses, like any other.
LoadOrder(c) ==
    /\ calls[c].step = "order"
    /\ Step(c, "panels")
    /\ workspace' = [workspace EXCEPT !.copy.loaded = TRUE, !.copy.order = Shown(deal), !.missed = 0]
    /\ UNCHANGED server

\* Both panels; the one that fails counts as "none yet".
LoadPanels(c) ==
    /\ calls[c].step = "panels"
    /\ \E r \in {review, NoReview}, d \in {quarrel, "none"} :
         workspace' = [workspace EXCEPT !.copy.review = r, !.copy.dispute = d,
                                        !.busy = @ /\ calls[c].key = "load"]
    /\ calls' = [calls EXCEPT ![c] = NoCall]
    /\ UNCHANGED server

\* The user opens the page again.
OpenAgain ==
    /\ \A c \in Calls : calls[c].step = "idle"
    /\ workspace' = [workspace EXCEPT !.copy = NoCopy]
    /\ Step(MountCall, "order")
    /\ UNCHANGED server

-----------------------------------------------------------------------------
(* Everyone else. *)

\* A change the page does not see until it loads again.
PageMisses ==
    /\ workspace.missed < MaxMissed
    /\ workspace' = [workspace EXCEPT !.missed = @ + 1]
    /\ UNCHANGED calls

\* The counterparty, support, the payment's confirmation and the worker, each under
\* the order's lock.  (The window's end is left out where no dispute can be opened.)
OrderMoves ==
    /\ \/ /\ deal.status = "awaiting_payment" /\ deal.payment \in {"pending", "failed"}
          /\ deal' \in {[deal EXCEPT !.payment = "failed"], DealAfter("confirm-payment")}
       \/ /\ deal.status \notin {"completed", "cancelled"}
          /\ deal' = [deal EXCEPT !.status = "cancelled",
                                  !.payment = IF @ = "pending" THEN "canceled" ELSE @]
       \/ /\ deal.status \in {"active", "revision_requested"}
          /\ viewer = "student" /\ deal' = DealAfter("deliver")
       \/ deal.status = "delivered" /\ deal' = DealAfter("approve")
       \/ /\ deal.status = "delivered" /\ deal.revisions_used < RevisionLimit
          /\ viewer = "expert" /\ deal' = DealAfter("revise")
       \/ /\ deal.status = "completed" /\ quarrel = "none"
          /\ deal' = [deal EXCEPT !.window = FALSE]
       \/ deal.payment = "paid" /\ deal' = [deal EXCEPT !.payment = "refunded"]
    /\ PageMisses
    /\ UNCHANGED <<viewer, quarrel, review, late>>

\* start_payment in another tab of the student, its order loaded before: a first
\* payment is one insert ...
OtherStartsPayment ==
    /\ deal.payment = "none"
    /\ deal' = [deal EXCEPT !.payment = "pending"]
    /\ PageMisses
    /\ UNCHANGED <<viewer, quarrel, review, late>>

\* ... a later one reads the payment, as the payment.failed handler does ...  (The
\* expert's page shows no payment: there the two are left out.)
OtherReadsPayment(status) ==
    /\ viewer = "student"
    /\ deal.payment \in IF status = "pending" THEN {"failed", "canceled", "refunded"}
                        ELSE {"pending", "failed", "refunded"}
    /\ late = "none" /\ late' = status
    /\ UNCHANGED <<viewer, deal, quarrel, review, workspace, calls>>

\* ... and both save over whatever order and payment are by then.
OtherSavesPayment(status) ==
    /\ late = status
    /\ deal' = [deal EXCEPT !.payment = status]
    /\ late' = "done"
    /\ PageMisses
    /\ UNCHANGED <<viewer, quarrel, review>>

OtherOpensDispute ==
    /\ Allowed("open-dispute")
    /\ Done("open-dispute")
    /\ PageMisses
    /\ UNCHANGED <<viewer, late>>

\* What a close without fault puts back: the status the dispute was opened in, which is
\* not kept here; an order that has a review had been completed.
Restored ==
    IF review.status # "none" THEN {"completed"}
    ELSE {"active", "delivered", "revision_requested", "completed"}

\* The outcomes of resolve: release (to "completed", which is in Restored) or a close
\* without fault, and the two refunds of a paid order; support may have cancelled it
\* with the dispute open.
Outcomes ==
    {[deal EXCEPT !.status = s] : s \in IF deal.status = "disputed" THEN Restored ELSE {}}
    \cup {[deal EXCEPT !.status = s, !.payment = "refunded"] :
             s \in {t \in {"completed", "cancelled"} :
                     deal.payment = "paid" /\ deal.status \in {"disputed", t}}}

DisputeResolved ==
    /\ quarrel = "active"
    /\ quarrel' = "over"
    /\ deal' \in Outcomes
    /\ PageMisses
    /\ UNCHANGED <<viewer, review, late>>

OtherSubmitsReview ==
    /\ viewer = "expert" /\ deal.status = "completed" /\ review.status = "none"
    /\ review' = [review EXCEPT !.status = "published"]
    /\ PageMisses
    /\ UNCHANGED <<viewer, deal, quarrel, late>>

\* A reply from the counterparty or another tab, in the same two steps (an edit from
\* there writes nothing that is told apart here).
OtherLoadsReview ==
    /\ review.status # "none" /\ ~Replied(review)
    /\ late = "none" /\ late' = "reply"
    /\ UNCHANGED <<viewer, deal, quarrel, review, workspace, calls>>

OtherReplies ==
    /\ late = "reply"
    /\ review' = [review EXCEPT !.reply = "other"]
    /\ late' = "done"
    /\ PageMisses
    /\ UNCHANGED <<viewer, deal, quarrel>>

\* Staff: set_hidden.
SetHidden(hidden) ==
    /\ review.status # "none"
    /\ review' = [review EXCEPT !.status = IF hidden THEN "hidden" ELSE "published"]
    /\ PageMisses
    /\ UNCHANGED <<viewer, deal, quarrel, late>>

CallStep(c) ==
    \/ UploadEnds(c) \/ UploadFails(c) \/ LoadReview(c) \/ ServeReviewWrite(c)
    \/ ViewOrderToPay(c) \/ StartsPayment(c) \/ RearmsPayment(c) \/ ServeAction(c)
    \/ AnswerLost(c) \/ ReadAction(c) \/ LoadOrder(c) \/ LoadPanels(c)

WorkspaceNext ==
    \/ \E c \in Calls : CallStep(c) \/ \E k \in Keys : Click(c, k)
    \/ OpenAgain \/ OtherLoadsReview \/ OtherReplies
    \/ \E h \in BOOLEAN : SetHidden(h)
    \/ \E p \in {"pending", "failed"} : OtherReadsPayment(p) \/ OtherSavesPayment(p)
    \/ OrderMoves \/ OtherStartsPayment \/ OtherOpensDispute \/ DisputeResolved \/ OtherSubmitsReview

WorkspaceSpec == WorkspaceInit /\ [][WorkspaceNext]_workspaceVars

-----------------------------------------------------------------------------
(* Properties. *)

\* What is offered and refused: the action bar's "Pay now" for the expert; the payment
\* card's buttons, which look at no order status, on an order that is not waiting for a
\* payment: cancelled, or paid with an old failure or re-arm saved over the payment; and
\* a dispute after the window has closed.
Gap(k) ==
    \/ k = "pay" /\ viewer = "expert"
    \/ k \in {"pay", "confirm-payment"} /\ deal.status # "awaiting_payment"
    \/ k = "open-dispute" /\ deal.status = "completed" /\ ~deal.window

\* orders/types.ts:116: the page repeats the server's rules.  With current copies it
\* offers nothing else the server would refuse, in whatever state the order, its
\* payment, its dispute and its review have got to together, unlocked saves included.
OffersAllowed ==
    \/ workspace.copy # [loaded |-> TRUE, order |-> Shown(deal), review |-> review, dispute |-> quarrel]
    \/ \A k \in Offers(workspace.copy) : Allowed(k) \/ Gap(k)

\* A reply about to be saved by a request that has read the review unanswered.
ReplyUnderWay ==
    \/ \E c \in Calls : /\ calls[c].step = "reading" /\ calls[c].key = "reply-review"
                        /\ ~Replied(calls[c].seen)
    \/ late = "reply"

\* reviews/services.py:118-159.  The documents say more than the code does: a reply,
\* once posted, is not for ever (docs/workflows/reviews.md:7, BR-37), because a second
\* reply that had read the review unanswered replaces it.  What holds: nothing else ever
\* changes a reply, nothing removes one, and a review staff have hidden stays hidden,
\* whatever edits and replies were under way on an older copy.
ReviewWritesKeepApart ==
    [][/\ review'.reply # review.reply => Replied(review') /\ ReplyUnderWay
       /\ review.status = "hidden" /\ review'.status = "published" => SetHidden(FALSE)]_workspaceVars
=============================================================================
