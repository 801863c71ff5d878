----------------------------- MODULE PageProofs -----------------------------
(***************************************************************************)
(* Proofs about the pages of WebPages: each page's invariant is proved of  *)
(* its own specification, and the composition implements every one of      *)
(* them, whichever page is mounted.                                        *)
(***************************************************************************)
EXTENDS WebPages, DeliveryProofs

-----------------------------------------------------------------------------
(* The composition. *)

\* The mounted page takes its own steps and the others take none: whichever page is
\* mounted, each of them behaves as its own specification says.
LEMMA PagesRunApart ==
    WebSafety => /\ SessionSpec /\ NotificationsSpec /\ ConversationSpec
                 /\ WorkspaceSpec /\ RequestFormSpec /\ ExpertApplicationSpec
<1>1. WebInit => /\ SessionInit /\ NotificationsInit /\ ConversationInit
                 /\ WorkspaceInit /\ RequestFormInit /\ ExpertApplicationInit
  BY DEF WebInit
<1>2. [WebNext]_webVars =>
        /\ [SessionNext]_sessionVars /\ [NotificationsNext]_noteVars
        /\ [ConversationNext]_threadVars /\ [WorkspaceNext]_workspaceVars
        /\ [RequestFormNext]_formVars /\ [ExpertApplicationNext]_applicationVars
  BY DEF WebNext, webVars, SessionRuns, BellRuns, ThreadRuns, OrderRuns, RequestRuns, ApplyRuns
<1> QED
  BY <1>1, <1>2, PTL DEF WebSafety, SessionSpec, NotificationsSpec, ConversationSpec,
     WorkspaceSpec, RequestFormSpec, ExpertApplicationSpec

-----------------------------------------------------------------------------
(* The session. *)

\* The type invariant of the provider, its refreshes and the page shown.
THEOREM SessionTypesHold == SessionSpec => []SessionTypeOK
<1>1. SessionInit => SessionTypeOK
  BY SessionAssumption DEF SessionInit, SessionTypeOK, Asked, Finished, Statuses, Steps, Landing
<1>2. SessionTypeOK /\ [SessionNext]_sessionVars => SessionTypeOK'
  <2> SUFFICES ASSUME SessionTypeOK, [SessionNext]_sessionVars PROVE SessionTypeOK'
    OBVIOUS
  <2> USE SessionAssumption DEF SessionTypeOK, Statuses, Steps
  <2>1. ASSUME NEW r \in Refreshes, Serve(r) PROVE SessionTypeOK'
    BY <2>1 DEF Serve
  <2>2. ASSUME NEW r \in Refreshes, NEW s \in [user : BOOLEAN, status : Statuses], EndRefresh(r, s)
        PROVE SessionTypeOK'
    <3>1. Finished \in [step : Steps, attempt : 0 .. MaxRetries]
      BY DEF Finished
    <3>2. Pushed(r, s) \in [page : {"form", "app"}, redirect : BOOLEAN]
      BY DEF Pushed, AfterStatus, Landing
    <3> QED
      BY <2>2, <3>1, <3>2 DEF EndRefresh
  <2>3. ASSUME NEW r \in Refreshes, ReadAnswer(r) PROVE SessionTypeOK'
    BY <2>2, <2>3 DEF ReadAnswer, SignedIn, SignedOut
  <2>4. ASSUME NEW r \in Refreshes, Retry(r) PROVE SessionTypeOK'
    BY <2>2, <2>4 DEF Retry, GivenUp
  <2>5. ASSUME NEW r \in Refreshes, Wake(r) \/ LoseAnswer(r) \/ TryAgain(r) PROVE SessionTypeOK'
    BY <2>5 DEF Wake, LoseAnswer, TryAgain, Asked
  <2>6. CASE Submit
    BY <2>6 DEF Submit
  <2>7. CASE SubmitAnswered
    BY <2>7 DEF SubmitAnswered, Asked
  <2>8. CASE LogOut
    BY <2>8 DEF LogOut
  <2>9. CASE LogOutEnds
    BY <2>9 DEF LogOutEnds, SignedOut, AfterStatus
  <2>10. CASE RedirectToLogin
    <3>1. Landing("/login") \in {"form", "app"}
      BY DEF Landing
    <3> QED
      BY <2>10, <3>1 DEF RedirectToLogin
  <2>12. CASE CookieEnds
    BY <2>12 DEF CookieEnds
  <2>11. CASE UNCHANGED sessionVars
    BY <2>11 DEF sessionVars
  <2> QED
    BY <2>1, <2>3, <2>4, <2>5, <2>6, <2>7, <2>8, <2>9, <2>10, <2>11, <2>12 DEF SessionNext, RefreshStep
<1> QED
  BY <1>1, <1>2, PTL DEF SessionSpec

-----------------------------------------------------------------------------
\* The two setters of the provider never disagree, in whatever order refreshes, the
\* sign-in and the sign-out are answered.
THEOREM UserIsKnown == SessionSpec => []UserMatchesStatus
<1>1. SessionInit => UserMatchesStatus
  BY DEF SessionInit, UserMatchesStatus
<1>2. SessionTypeOK /\ UserMatchesStatus /\ [SessionNext]_sessionVars => UserMatchesStatus'
  <2> SUFFICES ASSUME SessionTypeOK, UserMatchesStatus, [SessionNext]_sessionVars
               PROVE  UserMatchesStatus'
    OBVIOUS
  <2>1. session' \in {session, SignedIn, SignedOut, GivenUp}
    BY DEF SessionNext, RefreshStep, Serve, ReadAnswer, Retry, Wake, LoseAnswer, TryAgain,
           EndRefresh, Submit, SubmitAnswered, LogOut, LogOutEnds, RedirectToLogin, CookieEnds,
           sessionVars
  <2> QED
    BY <2>1 DEF SessionTypeOK, UserMatchesStatus, SignedIn, SignedOut, GivenUp
<1> QED
  BY <1>1, <1>2, SessionTypesHold, PTL DEF SessionSpec

\* An outage never signs a known user out.
THEOREM OutagesAreOutlived == SessionSpec => OutageKeepsUser
<1>1. SessionTypeOK /\ [SessionNext]_sessionVars =>
        [session.status = "authenticated" /\ session'.status # "authenticated"
           => signOut = "asked" \/ \E r \in Refreshes : refreshes[r].step = "denied"]_sessionVars
  <2> SUFFICES ASSUME SessionTypeOK, SessionNext, session.status = "authenticated",
                      session'.status # "authenticated", signOut # "asked"
               PROVE  \E r \in Refreshes : refreshes[r].step = "denied"
    BY DEF sessionVars
  <2>1. CASE \E r \in Refreshes : ReadAnswer(r) \/ Retry(r)
    BY <2>1 DEF ReadAnswer, Retry, EndRefresh, SignedIn, GivenUp
  <2>2. CASE ~\E r \in Refreshes : ReadAnswer(r) \/ Retry(r)
    BY <2>2 DEF SessionNext, RefreshStep, Serve, Wake, LoseAnswer, TryAgain, Submit,
                SubmitAnswered, LogOut, LogOutEnds, RedirectToLogin, CookieEnds
  <2> QED
    BY <2>1, <2>2
<1> QED
  BY <1>1, SessionTypesHold, PTL DEF SessionSpec, OutageKeepsUser

-----------------------------------------------------------------------------
(* The expert application. *)

\* An edit under way remembers an editable status, and "submitted" only of a row that
\* had its documents: whatever it writes back later is backed.
ApplicationInv ==
    /\ ExpertApplicationTypeOK
    /\ ApprovedIsBacked
    /\ \A t \in ApplyTabs : AtStep(t, "patching") =>
         /\ applyPages[t].seen \in USER_EDITABLE_STATUSES
         /\ applyPages[t].seen = "submitted" => application.credentials # {}

\* The invariant behind ApprovedIsBacked, preserved by the unlocked edits too.
THEOREM ApplicationInvariant == ExpertApplicationSpec => []ApplicationInv
<1>1. ExpertApplicationInit => ApplicationInv
  <2> SUFFICES ASSUME ExpertApplicationInit PROVE ApplicationInv
    OBVIOUS
  <2>1. ExpertApplicationTypeOK
    BY DEF ExpertApplicationInit, ExpertApplicationTypeOK, ApplicationStatuses, ApplyPage,
           FreshPage, PageSteps
  <2>2. ApprovedIsBacked
    BY DEF ExpertApplicationInit, ApprovedIsBacked
  <2>3. \A t \in ApplyTabs : ~AtStep(t, "patching")
    BY DEF ExpertApplicationInit, AtStep, FreshPage
  <2> QED
    BY <2>1, <2>2, <2>3 DEF ApplicationInv
<1>2. ApplicationInv /\ [ExpertApplicationNext]_applicationVars => ApplicationInv'
  <2> SUFFICES ASSUME ApplicationInv, [ExpertApplicationNext]_applicationVars
               PROVE  ApplicationInv'
    OBVIOUS
  <2> USE DEF ApplicationInv, ExpertApplicationTypeOK, ApprovedIsBacked, ApplicationStatuses,
              ApplyPage, PageSteps, AtStep, USER_EDITABLE_STATUSES, Shows, GoesTo, NothingSeen
  <2>1. ASSUME NEW t \in ApplyTabs, Mount(t)
        PROVE  ApplicationInv'
    BY <2>1 DEF Mount, ShowsForm
  <2>2. ASSUME NEW t \in ApplyTabs, SubmitFails(t)
        PROVE  ApplicationInv'
    BY <2>2 DEF SubmitFails, BackToForm
  <2>3. ASSUME NEW t \in ApplyTabs, NEW k \in Credentials, AddCredential(t, k)
        PROVE  ApplicationInv'
    BY <2>3 DEF AddCredential
  <2>4. ASSUME NEW t \in ApplyTabs, ReadToCreate(t)
        PROVE  ApplicationInv'
    BY <2>4 DEF ReadToCreate
  <2>5. ASSUME NEW t \in ApplyTabs, SaveNew(t)
        PROVE  ApplicationInv'
    BY <2>5 DEF SaveNew, ToSubmit
  <2>6. ASSUME NEW t \in ApplyTabs, SaveEdit(t)
        PROVE  ApplicationInv'
    BY <2>6 DEF SaveEdit, ToSubmit
  <2>7. ASSUME NEW t \in ApplyTabs, SaveSubmit(t)
        PROVE  ApplicationInv'
    BY <2>7 DEF SaveSubmit, BackToForm, ContentValid
  <2>8. ASSUME NEW t \in ApplyTabs, PressSubmit(t)
        PROVE  ApplicationInv'
    BY <2>8 DEF PressSubmit
  <2>9. ASSUME NEW t \in ApplyTabs, ApplicationAnswered(t)
        PROVE  ApplicationInv'
    BY <2>9 DEF ApplicationAnswered, ShowsForm
  <2>10. ASSUME NEW t \in ApplyTabs, ReadToEdit(t)
        PROVE  ApplicationInv'
    BY <2>10 DEF ReadToEdit
  <2>11. ASSUME NEW t \in ApplyTabs, ReadToSubmit(t)
        PROVE  ApplicationInv'
    BY <2>11 DEF ReadToSubmit, SUBMITTABLE_FROM
  <2>12. ASSUME NEW to \in {"under_review", "approved", "rejected", "suspended"}, Decide(to)
         PROVE  ApplicationInv'
    BY <2>12 DEF Decide, STAFF_TRANSITIONS
  <2>13. CASE UNCHANGED applicationVars
    BY <2>13 DEF applicationVars
  <2> QED
    BY <2>1, <2>2, <2>3, <2>4, <2>5, <2>6, <2>7, <2>8, <2>9, <2>10, <2>11, <2>12, <2>13
       DEF ExpertApplicationNext
<1> QED
  BY <1>1, <1>2, PTL DEF ExpertApplicationSpec

\* Whoever counts as an expert has a profile and documents, for any number of tabs.
THEOREM ExpertsAreBacked == ExpertApplicationSpec => []ApprovedIsBacked
BY ApplicationInvariant, PTL DEF ApplicationInv

-----------------------------------------------------------------------------
(* The order page. *)

\* The server's rows, whatever unlocked saves have left in the payment: an order that
\* waits for its payment has none that is paid.
DealInv ==
    /\ viewer \in {"student", "expert"}
    /\ deal \in Deals /\ quarrel \in Quarrels /\ review \in Reviews
    /\ deal.status = "awaiting_payment" => deal.payment # "paid"

\* A payment saved over the one there is, by whoever had read an earlier one.
LEMMA PaymentKeepsDeal ==
    ASSUME DealInv, NEW p \in DealPayments \ {"paid"}, deal' = [deal EXCEPT !.payment = p],
           UNCHANGED <<viewer, quarrel, review>>
    PROVE  DealInv'
BY DEF DealInv, Deals

\* A status set over the one there is, with the payment kept or given back.
LEMMA StatusKeepsDeal ==
    ASSUME DealInv, NEW s \in DealStatuses \ {"awaiting_payment"}, NEW p \in DealPayments,
           deal' = [deal EXCEPT !.status = s, !.payment = p],
           quarrel' \in Quarrels, UNCHANGED <<viewer, review>>
    PROVE  DealInv'
BY DEF DealInv, Deals

\* A revision that is counted leaves the order's rows in step.
LEMMA RevisionKeepsDeal ==
    ASSUME DealInv, deal.status = "delivered", deal.revisions_used < RevisionLimit,
           deal' = DealAfter("revise"), UNCHANGED <<viewer, quarrel, review>>
    PROVE  DealInv'
<1>1. deal' = [deal EXCEPT !.status = "revision_requested", !.revisions_used = @ + 1]
  BY DEF DealAfter
<1>2. deal.revisions_used + 1 \in 0 .. RevisionLimit
  BY WorkspaceAssumption DEF DealInv, Deals
<1>3. deal' \in Deals
  BY <1>1, <1>2 DEF DealInv, Deals, DealStatuses
<1>4. deal'.status = "revision_requested"
  BY <1>1 DEF DealInv, Deals
<1> QED
  BY <1>3, <1>4 DEF DealInv

\* What a service leaves in the rows when it is allowed, whatever it was asked for.
LEMMA DoneKeepsDeal ==
    ASSUME DealInv, NEW k, k # "pay", Allowed(k), Done(k), viewer' = viewer PROVE DealInv'
<1> USE DEF DealInv, Deals, Quarrels, Reviews, DealStatuses, DealPayments
<1>2. CASE k = "confirm-payment"
  BY <1>2 DEF Allowed, Done, DealAfter
<1>3. CASE k = "deliver"
  BY <1>3 DEF Allowed, Done, DealAfter
<1>4. CASE k = "approve"
  BY <1>4 DEF Allowed, Done, DealAfter
<1>5. CASE k = "revise"
  <2>1. deal.status = "delivered" /\ deal.revisions_used < RevisionLimit
        /\ deal' = DealAfter("revise") /\ UNCHANGED <<quarrel, review>>
    BY <1>5 DEF Allowed, Done
  <2> HIDE DEF DealInv
  <2> QED
    BY <2>1, RevisionKeepsDeal
<1>6. CASE k = "open-dispute"
  BY <1>6 DEF Allowed, Done, DealAfter
<1>7. CASE k \notin {"confirm-payment", "deliver", "approve", "revise", "open-dispute"}
  BY <1>7 DEF Done, DealAfter
<1> QED
  BY <1>2, <1>3, <1>4, <1>5, <1>6, <1>7

\* The rows keep to it however the page, its own payment attempts, the counterparty,
\* the provider's late failures and the dispute move them.
THEOREM DealInvariant == WorkspaceSpec => []DealInv
<1>1. WorkspaceInit => DealInv
  BY WorkspaceAssumption DEF WorkspaceInit, DealInv, Deals, DealStatuses, DealPayments, Quarrels,
     Reviews, NewDeal, NoReview
<1>2. DealInv /\ [WorkspaceNext]_workspaceVars => DealInv'
  <2> SUFFICES ASSUME DealInv, [WorkspaceNext]_workspaceVars PROVE DealInv'
    OBVIOUS
  <2>1. CASE UNCHANGED <<viewer, deal, quarrel, review>>
    BY <2>1 DEF DealInv
  <2>2. ASSUME NEW c \in Calls, ServeAction(c) PROVE DealInv'
    <3>1. CASE Allowed(calls[c].key)
      BY <2>2, <3>1, DoneKeepsDeal DEF ServeAction
    <3>2. CASE ~Allowed(calls[c].key)
      BY <2>1, <2>2, <3>2 DEF ServeAction
    <3> QED
      BY <3>1, <3>2
  <2>3. ASSUME NEW c \in Calls, ServeReviewWrite(c) PROVE DealInv'
    BY <2>3 DEF ServeReviewWrite, SavedReview, DealInv, Reviews
  <2>4. ASSUME NEW c \in Calls, StartsPayment(c) \/ RearmsPayment(c) PROVE DealInv'
    <3>1. \/ deal' = [deal EXCEPT !.payment = "pending"]
          \/ deal' = deal
      BY <2>4 DEF StartsPayment, RearmsPayment
    <3>2. UNCHANGED <<viewer, quarrel, review>>
      BY <2>4 DEF StartsPayment, RearmsPayment
    <3> QED
      BY <2>1, <3>1, <3>2, PaymentKeepsDeal DEF DealPayments
  <2>5. CASE OrderMoves
    <3>1. CASE deal' = DealAfter("confirm-payment")
      BY <2>5, <3>1 DEF OrderMoves, DealAfter, DealInv, Deals, DealStatuses, DealPayments
    <3>2. CASE deal' = DealAfter("revise") /\ deal.status = "delivered"
               /\ deal.revisions_used < RevisionLimit
      BY <2>5, <3>2, RevisionKeepsDeal DEF OrderMoves
    <3>3. CASE deal' = DealAfter("deliver") \/ deal' = DealAfter("approve")
      BY <2>5, <3>3 DEF OrderMoves, DealAfter, DealInv, Deals, DealStatuses
    <3>4. CASE deal' = [deal EXCEPT !.payment = "failed"] \/ deal' = [deal EXCEPT !.payment = "refunded"]
      BY <2>5, <3>4, PaymentKeepsDeal DEF OrderMoves, DealPayments
    <3>5. CASE deal' = [deal EXCEPT !.status = "cancelled",
                                    !.payment = IF @ = "pending" THEN "canceled" ELSE @]
      <4>1. PICK p \in DealPayments : deal' = [deal EXCEPT !.status = "cancelled", !.payment = p]
        BY <3>5 DEF DealInv, Deals, DealPayments
      <4>2. "cancelled" \in DealStatuses \ {"awaiting_payment"}
        BY DEF DealStatuses
      <4>3. quarrel' \in Quarrels /\ UNCHANGED <<viewer, review>>
        BY <2>5 DEF OrderMoves, DealInv
      <4> QED
        BY <4>1, <4>2, <4>3, StatusKeepsDeal
    <3>6. CASE deal' = [deal EXCEPT !.window = FALSE]
      BY <2>5, <3>6 DEF OrderMoves, DealInv, Deals
    <3> QED
      BY <2>5, <3>1, <3>2, <3>3, <3>4, <3>5, <3>6 DEF OrderMoves
  <2>6. CASE OtherOpensDispute
    BY <2>6, DoneKeepsDeal DEF OtherOpensDispute
  <2>7. CASE DisputeResolved
    <3>1. PICK s \in DealStatuses \ {"awaiting_payment"}, p \in DealPayments :
            deal' = [deal EXCEPT !.status = s, !.payment = p]
      <4>1. CASE \E s \in Restored : deal' = [deal EXCEPT !.status = s]
        <5>1. PICK s \in Restored : deal' = [deal EXCEPT !.status = s]
          BY <4>1
        <5>2. deal' = [deal EXCEPT !.status = s, !.payment = deal.payment]
          BY <5>1 DEF DealInv, Deals
        <5> QED
          BY <5>2 DEF Restored, DealStatuses, DealInv, Deals
      <4>2. CASE \E s \in {"completed", "cancelled"} :
                    deal' = [deal EXCEPT !.status = s, !.payment = "refunded"]
        BY <4>2 DEF DealStatuses, DealPayments
      <4> QED
        BY <2>7, <4>1, <4>2 DEF DisputeResolved, Outcomes
    <3>2. quarrel' \in Quarrels /\ UNCHANGED <<viewer, review>>
      BY <2>7 DEF DisputeResolved, Quarrels
    <3> QED
      BY <3>1, <3>2, StatusKeepsDeal
  <2>8. CASE OtherSubmitsReview \/ OtherReplies
    BY <2>8 DEF OtherSubmitsReview, OtherReplies, DealInv, Reviews
  <2>9. ASSUME NEW h \in BOOLEAN, SetHidden(h) PROVE DealInv'
    BY <2>9 DEF SetHidden, DealInv, Reviews
  <2>10. CASE OtherStartsPayment
    BY <2>10, PaymentKeepsDeal DEF OtherStartsPayment, DealPayments
  <2>11. ASSUME NEW p \in {"pending", "failed"}, OtherSavesPayment(p) PROVE DealInv'
    BY <2>11, PaymentKeepsDeal DEF OtherSavesPayment, DealPayments
  <2>12. ASSUME NEW p \in {"pending", "failed"}, OtherReadsPayment(p) PROVE DealInv'
    BY <2>1, <2>12 DEF OtherReadsPayment
  <2>13. ASSUME NEW c \in Calls,
                \/ UploadEnds(c) \/ UploadFails(c) \/ LoadReview(c) \/ ViewOrderToPay(c)
                \/ AnswerLost(c) \/ ReadAction(c) \/ LoadOrder(c) \/ LoadPanels(c)
                \/ (\E k \in Keys : Click(c, k))
         PROVE  DealInv'
    BY <2>1, <2>13 DEF UploadEnds, UploadFails, LoadReview, ViewOrderToPay, AnswerLost,
       ReadAction, LoadOrder, LoadPanels, Click, server
  <2>14. CASE OpenAgain \/ OtherLoadsReview \/ UNCHANGED workspaceVars
    BY <2>1, <2>14 DEF OpenAgain, OtherLoadsReview, server, workspaceVars
  <2> QED
    BY <2>2, <2>3, <2>4, <2>5, <2>6, <2>7, <2>8, <2>9, <2>10, <2>11, <2>12, <2>13, <2>14
       DEF WorkspaceNext, CallStep
<1> QED
  BY <1>1, <1>2, PTL DEF WorkspaceSpec

\* What a call of the page and the page itself can hold.
CallSteps == {"idle", "uploading", "asked", "viewed", "reading", "answered", "order", "panels"}
CallRecord == [key : Keys, seen : Reviews, step : CallSteps]
PageRecord == [copy : Copies, busy : BOOLEAN, missed : 0 .. MaxMissed]

CopiesInv ==
    /\ late \in UnlockedSaves \cup {"none", "done"}
    /\ workspace \in PageRecord
    /\ calls \in [Calls -> CallRecord]

\* Nothing loaded yet is also something a page can hold.
LEMMA EmptyCopies == NoReview \in Reviews /\ NoCopy \in Copies /\ NoCall \in CallRecord
<1>1. NoReview \in Reviews /\ Shown(NewDeal) \in ShownDeals
  BY WorkspaceAssumption
     DEF NoReview, Reviews, NewDeal, Shown, ShownDeals, DealStatuses, DealPayments
<1>2. NoCopy \in Copies
  BY <1>1 DEF NoCopy, Copies, Quarrels
<1> QED
  BY <1>1, <1>2 DEF NoCall, CallRecord, Keys, CallSteps

\* A call that goes on.
LEMMA CallTakesStep ==
    ASSUME CopiesInv, NEW c \in Calls, NEW s \in CallSteps, Step(c, s)
    PROVE  calls' \in [Calls -> CallRecord]
<1>1. calls[c] \in CallRecord /\ calls' = [calls EXCEPT ![c] = [calls[c] EXCEPT !.step = s]]
  BY DEF CopiesInv, Step
<1>2. [calls[c] EXCEPT !.step = s] \in CallRecord
  BY <1>1 DEF CallRecord
<1> QED
  BY <1>1, <1>2 DEF CopiesInv

\* A call that is over, refused or lost.
LEMMA RefusalIsRead ==
    ASSUME CopiesInv, NEW c \in Calls, Refuse(c)
    PROVE  calls' \in [Calls -> CallRecord] /\ workspace' \in PageRecord
<1>1. calls' \in [Calls -> CallRecord]
  BY EmptyCopies DEF Refuse, CopiesInv
<1>2. workspace' = [workspace EXCEPT !.busy = workspace.busy /\ calls[c].key = "load"]
  BY DEF Refuse
<1>3. workspace' \in PageRecord
  BY <1>2 DEF CopiesInv, PageRecord
<1> QED
  BY <1>1, <1>3

\* One more change the page has not seen.
LEMMA MissesAreCounted ==
    ASSUME CopiesInv, PageMisses
    PROVE  calls' \in [Calls -> CallRecord] /\ workspace' \in PageRecord
<1>1. workspace.missed + 1 \in 0 .. MaxMissed
  BY WorkspaceAssumption DEF PageMisses, CopiesInv, PageRecord
<1> QED
  BY <1>1 DEF PageMisses, CopiesInv, PageRecord

\* The copies are of rows the server has had.
THEOREM WorkspaceTypesHold == WorkspaceSpec => []WorkspaceTypeOK
<1>1. WorkspaceInit => CopiesInv
  <2> SUFFICES ASSUME WorkspaceInit PROVE CopiesInv
    OBVIOUS
  <2>1. [NoCall EXCEPT !.step = "order"] \in CallRecord
    BY EmptyCopies DEF CallRecord, CallSteps
  <2>2. workspace \in PageRecord
    BY EmptyCopies, WorkspaceAssumption DEF WorkspaceInit, PageRecord
  <2> QED
    BY <2>1, <2>2, EmptyCopies DEF WorkspaceInit, CopiesInv
<1>2. DealInv /\ CopiesInv /\ [WorkspaceNext]_workspaceVars => CopiesInv'
  <2> SUFFICES ASSUME DealInv, CopiesInv, [WorkspaceNext]_workspaceVars PROVE CopiesInv'
    OBVIOUS
  <2> USE EmptyCopies DEF server
  <2>1. /\ \A c \in Calls : calls[c] \in CallRecord
        /\ workspace.copy \in Copies /\ workspace.busy \in BOOLEAN
        /\ workspace.missed \in 0 .. MaxMissed
        /\ workspace = [copy |-> workspace.copy, busy |-> workspace.busy,
                        missed |-> workspace.missed]
    BY DEF CopiesInv, PageRecord
  <2>2. ASSUME UNCHANGED <<late, workspace>>, calls' \in [Calls -> CallRecord] PROVE CopiesInv'
    BY <2>2 DEF CopiesInv
  <2>3. ASSUME UNCHANGED late, calls' \in [Calls -> CallRecord], workspace' \in PageRecord
        PROVE  CopiesInv'
    BY <2>3 DEF CopiesInv
  <2>4. ASSUME NEW c \in Calls, CallStep(c) PROVE CopiesInv'
    <3>1. CASE UploadEnds(c)
      <4>1. workspace' \in PageRecord
        BY <3>1 DEF UploadEnds, CopiesInv, PageRecord
      <4> QED
        BY <2>3, <3>1, <4>1, CallTakesStep DEF UploadEnds, CallSteps
    <3>2. CASE UploadFails(c)
      BY <2>2, <3>2, CallTakesStep DEF UploadFails, CallSteps
    <3>3. CASE LoadReview(c)
      <4> DEFINE x == [calls[c] EXCEPT !.step = "reading", !.seen = review]
      <4>1. x \in CallRecord
        BY <2>1 DEF CallRecord, CallSteps, DealInv
      <4>2. calls' = [calls EXCEPT ![c] = x]
        BY <3>3 DEF LoadReview, CopiesInv
      <4> HIDE DEF x
      <4> QED
        BY <2>2, <3>3, <4>1, <4>2 DEF LoadReview, CopiesInv
    <3>4. CASE ServeReviewWrite(c)
      BY <2>2, <2>3, <3>4, CallTakesStep, RefusalIsRead DEF ServeReviewWrite, CallSteps
    <3>5. CASE ViewOrderToPay(c)
      BY <2>2, <2>3, <3>5, CallTakesStep, RefusalIsRead DEF ViewOrderToPay, CallSteps
    <3>6. CASE StartsPayment(c)
      <4>1. PICK t \in {"answered", "reading"} :
              Refuse(c) \/ (Step(c, t) /\ UNCHANGED workspace)
        BY <3>6 DEF StartsPayment
      <4> QED
        BY <2>2, <2>3, <3>6, <4>1, CallTakesStep, RefusalIsRead DEF StartsPayment, CallSteps
    <3>7. CASE RearmsPayment(c)
      BY <2>2, <3>7, CallTakesStep DEF RearmsPayment, CallSteps
    <3>8. CASE ServeAction(c)
      BY <2>2, <2>3, <3>8, CallTakesStep, RefusalIsRead DEF ServeAction, CallSteps
    <3>9. CASE AnswerLost(c)
      BY <2>3, <3>9, RefusalIsRead DEF AnswerLost
    <3>10. CASE ReadAction(c)
      <4> DEFINE r == CASE calls[c].key = "submit-review" ->
                                [status |-> "published", reply |-> "none"]
                        [] calls[c].key \in ReviewWrites ->
                                Answered(calls[c].key, calls[c].seen)
                        [] OTHER -> workspace.copy.review
                 d == CASE calls[c].key = "open-dispute" -> "active"
                        [] calls[c].key = "add-evidence" -> quarrel
                        [] OTHER -> workspace.copy.dispute
      <4>1. r \in Reviews
        <5>1. calls[c].seen \in Reviews /\ workspace.copy.review \in Reviews
          BY <2>1 DEF CallRecord, Copies
        <5>2. Answered(calls[c].key, calls[c].seen) \in Reviews
          BY <5>1 DEF Answered, Reviews
        <5>3. [status |-> "published", reply |-> "none"] \in Reviews
          BY DEF Reviews
        <5> QED
          BY <5>1, <5>2, <5>3
      <4>2. d \in Quarrels
        BY <2>1 DEF Copies, DealInv, Quarrels
      <4>3. workspace' = [workspace EXCEPT !.copy.review = r, !.copy.dispute = d]
        BY <3>10 DEF ReadAction
      <4> HIDE DEF r, d
      <4>4. [workspace.copy EXCEPT !.review = r, !.dispute = d] \in Copies
        BY <2>1, <4>1, <4>2 DEF Copies
      <4>5. workspace' = [workspace EXCEPT !.copy = [workspace.copy EXCEPT !.review = r,
                                                                           !.dispute = d]]
        BY <2>1, <4>3
      <4>6. workspace' \in PageRecord
        BY <4>4, <4>5 DEF CopiesInv, PageRecord
      <4> DEFINE x == [Load(c) EXCEPT !.step = "order"]
      <4>7. x \in CallRecord
        BY DEF Load, CallRecord, Keys, CallSteps
      <4>8. calls' = [calls EXCEPT ![c] = x]
        BY <3>10 DEF ReadAction
      <4> HIDE DEF x
      <4>9. calls' \in [Calls -> CallRecord]
        BY <4>7, <4>8 DEF CopiesInv
      <4> QED
        BY <2>3, <3>10, <4>6, <4>9 DEF ReadAction
    <3>11. CASE LoadOrder(c)
      <4> DEFINE x == [workspace.copy EXCEPT !.loaded = TRUE, !.order = Shown(deal)]
      <4>1. x \in Copies
        <5>1. Shown(deal) \in ShownDeals
          BY DEF Shown, ShownDeals, DealInv, Deals
        <5> QED
          BY <2>1, <5>1 DEF Copies
      <4>2. workspace' = [workspace EXCEPT !.copy = x, !.missed = 0]
        BY <2>1, <3>11 DEF LoadOrder
      <4> HIDE DEF x
      <4>3. 0 \in 0 .. MaxMissed
        BY WorkspaceAssumption
      <4>4. workspace' \in PageRecord
        BY <4>1, <4>2, <4>3 DEF CopiesInv, PageRecord
      <4> QED
        BY <2>3, <3>11, <4>4, CallTakesStep DEF LoadOrder, CallSteps
    <3>12. CASE LoadPanels(c)
      <4>1. PICK r \in {review, NoReview}, d \in {quarrel, "none"} :
              workspace' = [workspace EXCEPT !.copy.review = r, !.copy.dispute = d,
                                             !.busy = @ /\ calls[c].key = "load"]
        BY <3>12 DEF LoadPanels
      <4> DEFINE x == [workspace.copy EXCEPT !.review = r, !.dispute = d]
                 b == workspace.busy /\ calls[c].key = "load"
      <4>2. x \in Copies
        BY <2>1 DEF Copies, DealInv, Quarrels
      <4>3. workspace' = [workspace EXCEPT !.copy = x, !.busy = b]
        BY <2>1, <4>1
      <4>4. b \in BOOLEAN
        OBVIOUS
      <4> HIDE DEF x, b
      <4>5. workspace' \in PageRecord
        BY <4>2, <4>3, <4>4 DEF CopiesInv, PageRecord
      <4>6. calls' \in [Calls -> CallRecord]
        BY <3>12 DEF LoadPanels, CopiesInv
      <4> QED
        BY <2>3, <3>12, <4>5, <4>6 DEF LoadPanels
    <3> QED
      BY <2>4, <3>1, <3>2, <3>3, <3>4, <3>5, <3>6, <3>7, <3>8, <3>9, <3>10, <3>11, <3>12
         DEF CallStep
  <2>5. ASSUME NEW c \in Calls, NEW k \in Keys, Click(c, k) PROVE CopiesInv'
    <3>1. [NoCall EXCEPT !.key = k, !.step = IF k \in UploadsFirst THEN "uploading" ELSE "asked"]
            \in CallRecord
      BY DEF CallRecord, CallSteps
    <3>2. workspace' \in PageRecord
      BY <2>5 DEF Click, CopiesInv, PageRecord
    <3>3. calls' \in [Calls -> CallRecord]
      BY <2>5, <3>1 DEF Click, CopiesInv
    <3> QED
      BY <2>3, <2>5, <3>2, <3>3 DEF Click
  <2>6. CASE OpenAgain
    <3>1. workspace' \in PageRecord
      BY <2>6 DEF OpenAgain, CopiesInv, PageRecord
    <3> QED
      BY <2>3, <2>6, <3>1, CallTakesStep, WorkspaceAssumption DEF OpenAgain, CallSteps
  <2>7. CASE \/ \E h \in BOOLEAN : SetHidden(h)
             \/ OrderMoves \/ OtherStartsPayment \/ OtherOpensDispute \/ DisputeResolved
             \/ OtherSubmitsReview
    BY <2>3, <2>7, MissesAreCounted DEF SetHidden, OrderMoves, OtherStartsPayment,
       OtherOpensDispute, DisputeResolved, OtherSubmitsReview
  <2>8. CASE OtherReplies \/ \E p \in {"pending", "failed"} : OtherSavesPayment(p)
    <3>1. late' = "done" /\ PageMisses
      BY <2>8 DEF OtherReplies, OtherSavesPayment
    <3> QED
      BY <3>1, MissesAreCounted DEF CopiesInv
  <2>9. CASE OtherLoadsReview \/ \E p \in {"pending", "failed"} : OtherReadsPayment(p)
    BY <2>9 DEF OtherLoadsReview, OtherReadsPayment, CopiesInv, UnlockedSaves
  <2>10. CASE UNCHANGED workspaceVars
    BY <2>10 DEF workspaceVars, CopiesInv
  <2> QED
    BY <2>4, <2>5, <2>6, <2>7, <2>8, <2>9, <2>10 DEF WorkspaceNext
<1>3. DealInv /\ CopiesInv => WorkspaceTypeOK
  BY DEF DealInv, CopiesInv, WorkspaceTypeOK, CallRecord, CallSteps, PageRecord
<1> QED
  BY <1>1, <1>2, <1>3, DealInvariant, PTL DEF WorkspaceSpec

\* A page with current copies offers what the services allow, but for the listed gaps,
\* whatever an unlocked save has left in the payment, for any revision limit and with or
\* without self-confirmed payments.
THEOREM OffersAreHonoured == WorkspaceSpec => []OffersAllowed
<1>1. DealInv => OffersAllowed
  <2> SUFFICES ASSUME DealInv,
                      workspace.copy = [loaded |-> TRUE, order |-> Shown(deal),
                                        review |-> review, dispute |-> quarrel],
                      NEW k \in Offers(workspace.copy)
               PROVE  Allowed(k) \/ Gap(k)
    BY DEF OffersAllowed
  <2>1. \/ k \in workspaceActions(Shown(deal)) \/ k \in PaymentOffers(Shown(deal))
        \/ k \in ReviewOffers(Shown(deal), review) \/ k \in DisputeOffers(Shown(deal), quarrel)
    BY DEF Offers
  <2> USE DEF DealInv, Allowed, Gap, Shown
  <2>2. CASE k \in workspaceActions(Shown(deal))
    BY <2>2 DEF workspaceActions
  <2>3. CASE k \in PaymentOffers(Shown(deal))
    BY <2>3 DEF PaymentOffers
  <2>4. CASE k \in ReviewOffers(Shown(deal), review)
    BY <2>4 DEF ReviewOffers
  <2>5. CASE k \in DisputeOffers(Shown(deal), quarrel)
    BY <2>5 DEF DisputeOffers
  <2> QED
    BY <2>1, <2>2, <2>3, <2>4, <2>5
<1> QED
  BY <1>1, DealInvariant, PTL

\* Only a reply that has read the review unanswered changes a reply, and no edit or reply
\* takes one back or shows a hidden review, for any number of requests under way.
THEOREM ReviewsKeepApart == WorkspaceSpec => ReviewWritesKeepApart
<1>1. DealInv /\ [WorkspaceNext]_workspaceVars =>
        [/\ review'.reply # review.reply => Replied(review') /\ ReplyUnderWay
         /\ review.status = "hidden" /\ review'.status = "published"
              => SetHidden(FALSE)]_workspaceVars
  <2> SUFFICES ASSUME DealInv, WorkspaceNext
               PROVE  /\ review'.reply # review.reply => Replied(review') /\ ReplyUnderWay
                      /\ review.status = "hidden" /\ review'.status = "published"
                           => SetHidden(FALSE)
    OBVIOUS
  <2> DEFINE Kept == /\ review'.reply # review.reply => Replied(review') /\ ReplyUnderWay
                     /\ ~(review.status = "hidden" /\ review'.status = "published")
  <2> USE DEF DealInv, Reviews
  <2>1. ASSUME NEW c \in Calls, ServeReviewWrite(c) PROVE Kept
    <3>1. CASE UNCHANGED review
      BY <3>1
    <3>2. CASE /\ ~Replied(calls[c].seen)
               /\ review' = SavedReview(calls[c].key, calls[c].seen, "page")
      <4>1. CASE calls[c].key = "reply-review"
        <5>1. ReplyUnderWay
          BY <2>1, <3>2, <4>1 DEF ServeReviewWrite, ReplyUnderWay
        <5>2. review'.reply = "page" /\ review'.status = review.status
          BY <3>2, <4>1 DEF SavedReview
        <5> QED
          BY <5>1, <5>2 DEF Replied
      <4>2. CASE calls[c].key # "reply-review"
        BY <3>2, <4>2 DEF SavedReview
      <4> QED
        BY <4>1, <4>2
    <3> QED
      BY <2>1, <3>1, <3>2 DEF ServeReviewWrite
  <2>2. ASSUME NEW k, Allowed(k), Done(k) PROVE Kept
    BY <2>2 DEF Allowed, Done
  <2>3. ASSUME UNCHANGED review PROVE Kept
    BY <2>3
  <2>4. ASSUME NEW h \in BOOLEAN, SetHidden(h)
        PROVE  /\ review'.reply = review.reply
               /\ review.status = "hidden" /\ review'.status = "published" => SetHidden(FALSE)
    BY <2>4 DEF SetHidden
  <2>5. CASE OtherSubmitsReview
    BY <2>5 DEF OtherSubmitsReview
  <2>6. CASE OtherReplies
    BY <2>6 DEF OtherReplies, ReplyUnderWay, Replied
  <2> HIDE DEF Kept
  <2>7. ASSUME NEW c \in Calls, CallStep(c) PROVE Kept
    <3>1. CASE ServeAction(c)
      BY <2>2, <2>3, <3>1 DEF ServeAction
    <3>2. CASE ServeReviewWrite(c)
      BY <2>1, <3>2
    <3> QED
      BY <2>3, <2>7, <3>1, <3>2 DEF CallStep, UploadEnds, UploadFails, LoadReview,
         ViewOrderToPay, StartsPayment, RearmsPayment, AnswerLost, ReadAction, LoadOrder,
         LoadPanels, server
  <2>8. ASSUME NEW c \in Calls, NEW k \in Keys, Click(c, k) PROVE Kept
    BY <2>3, <2>8 DEF Click, server
  <2>9. CASE OpenAgain \/ OtherLoadsReview
    BY <2>3, <2>9 DEF OpenAgain, OtherLoadsReview, server
  <2>10. ASSUME NEW p \in {"pending", "failed"}, OtherReadsPayment(p) \/ OtherSavesPayment(p)
         PROVE  Kept
    BY <2>3, <2>10 DEF OtherReadsPayment, OtherSavesPayment
  <2>11. CASE OrderMoves \/ OtherStartsPayment \/ DisputeResolved
    BY <2>3, <2>11 DEF OrderMoves, OtherStartsPayment, DisputeResolved
  <2>12. ASSUME OtherOpensDispute PROVE Kept
    BY <2>2, <2>12 DEF OtherOpensDispute
  <2>13. CASE Kept
    BY <2>13 DEF Kept
  <2>14. CASE \E h \in BOOLEAN : SetHidden(h)
    BY <2>4, <2>14
  <2> QED
    BY <2>5, <2>6, <2>7, <2>8, <2>9, <2>10, <2>11, <2>12, <2>13, <2>14 DEF WorkspaceNext
<1> QED
  BY <1>1, DealInvariant, PTL DEF WorkspaceSpec, ReviewWritesKeepApart

-----------------------------------------------------------------------------
(* The request wizard. *)

DraftRecord ==
    [status : {"none", "draft", "published", "cancelled"}, brief : Brief, files : SUBSET Files]
SubmitSteps == {"idle", "uploading", "updating", "saved", "publishing", "published", "away"}
SubmitRecord == [step : SubmitSteps, held : Pressed, ids : SUBSET Files, request : Ids,
                 touched : BOOLEAN]

\* From the save on, the draft on record holds what was on the screen at the press, as
\* long as no other tab has saved over it.
OnRecord ==
    sending.step \in {"saved", "publishing", "published", "away"} /\ ~sending.touched =>
      /\ drafts[sending.request].brief = sending.held.brief
      /\ sending.held.files \subseteq drafts[sending.request].files
      /\ sending.step = "published" \/ (sending.step = "away" /\ sending.held.publish)
           => drafts[sending.request].status = "published"

SubmitInv ==
    /\ form \in [brief : Brief, files : SUBSET Files] /\ enhancing \in BOOLEAN
    /\ sending \in SubmitRecord
    /\ drafts \in [Ids -> DraftRecord]
    /\ elsewhere \in [does : {"nothing", "edit", "publish", "cancel", "done"}, request : Ids]
    /\ sending.step = "updating" => sending.held.files \subseteq sending.ids
    /\ OnRecord

\* What stands before anything was typed or pressed.
LEMMA EmptyForms ==
    /\ EmptyBrief \in Brief /\ NoForm \in [brief : Brief, files : SUBSET Files]
    /\ NoDraft \in DraftRecord /\ NoSubmit \in SubmitRecord /\ Existing \in Ids
<1>1. EmptyBrief \in Brief
  BY DEF EmptyBrief, Brief
<1>2. Existing \in Ids
  BY RequestFormAssumption DEF Existing, Ids
<1>3. NoPress \in Pressed
  BY <1>1 DEF NoPress, Pressed
<1> QED
  BY <1>1, <1>2, <1>3 DEF NoForm, NoDraft, DraftRecord, NoSubmit, SubmitRecord, SubmitSteps

\* One draft saved: the others are as they were.
LEMMA DraftSaved ==
    ASSUME drafts \in [Ids -> DraftRecord], NEW r \in Ids, NEW x \in DraftRecord,
           drafts' = [drafts EXCEPT ![r] = x]
    PROVE  /\ drafts' \in [Ids -> DraftRecord] /\ drafts'[r] = x
           /\ \A i \in Ids : i # r => drafts'[i] = drafts[i]
OBVIOUS

\* A status saved over the one there is keeps brief and files.
LEMMA StatusMoves ==
    ASSUME drafts \in [Ids -> DraftRecord], NEW r \in Ids, NEW s \in {"published", "cancelled"},
           drafts' = [drafts EXCEPT ![r].status = s]
    PROVE  /\ drafts' \in [Ids -> DraftRecord]
           /\ drafts'[r].brief = drafts[r].brief /\ drafts'[r].files = drafts[r].files
           /\ drafts'[r].status = s
           /\ \A i \in Ids : i # r => drafts'[i] = drafts[i]
<1> DEFINE x == [drafts[r] EXCEPT !.status = s]
<1>1. drafts[r] \in DraftRecord
  OBVIOUS
<1>2. /\ x \in DraftRecord /\ x.status = s
      /\ x.brief = drafts[r].brief /\ x.files = drafts[r].files
  BY <1>1 DEF DraftRecord
<1>3. drafts' = [drafts EXCEPT ![r] = x]
  OBVIOUS
<1> HIDE DEF x
<1> QED
  BY <1>2, <1>3, DraftSaved

\* A press that is over, however: nothing is promised of it any more.
LEMMA FailureEndsIt ==
    ASSUME SubmitInv, Fails, drafts' \in [Ids -> DraftRecord], UNCHANGED <<form, enhancing, elsewhere>>
    PROVE  SubmitInv'
<1>1. sending'.step = "idle" /\ sending' \in SubmitRecord
  BY EmptyForms DEF Fails, NoSubmit
<1> QED
  BY <1>1 DEF SubmitInv, OnRecord

\* What create and update have put on record when they answer.
LEMMA SavedAsPressed ==
    ASSUME SubmitInv, NEW r \in Ids, NEW x \in DraftRecord,
           drafts' = [drafts EXCEPT ![r] = x], x.brief = sending.held.brief,
           sending.held.files \subseteq x.files,
           Fails \/ sending' = [sending EXCEPT !.step = "saved", !.request = r],
           UNCHANGED <<form, enhancing, elsewhere>>
    PROVE  SubmitInv'
<1>1. drafts' \in [Ids -> DraftRecord] /\ drafts'[r] = x
  BY DraftSaved DEF SubmitInv
<1>2. CASE Fails
  BY <1>1, <1>2, FailureEndsIt
<1>3. CASE sending' = [sending EXCEPT !.step = "saved", !.request = r]
  <2>1. /\ sending' \in SubmitRecord /\ sending'.step = "saved" /\ sending'.request = r
        /\ sending'.held = sending.held
    BY <1>3 DEF SubmitInv, SubmitRecord, SubmitSteps
  <2> QED
    BY <1>1, <2>1 DEF SubmitInv, OnRecord
<1> QED
  BY <1>2, <1>3

\* The invariant of the wizard, whatever fails halfway, is typed meanwhile or is saved by
\* another tab.
THEOREM SubmitInvariant == RequestFormSpec => []SubmitInv
<1>1. RequestFormInit => SubmitInv
  <2> SUFFICES ASSUME RequestFormInit PROVE SubmitInv
    OBVIOUS
  <2>1. sending = NoSubmit /\ enhancing = FALSE /\ elsewhere = NothingElsewhere
    BY DEF RequestFormInit
  <2>2. drafts \in [Ids -> DraftRecord] /\ form \in [brief : Brief, files : SUBSET Files]
    <3>1. ASSUME NEW b \in Brief, NEW S \in SUBSET Files,
                 drafts = [i \in Ids |-> IF i = Existing
                                        THEN [status |-> "draft", brief |-> b, files |-> S]
                                        ELSE NoDraft],
                 form = [brief |-> b, files |-> {}]
          PROVE  drafts \in [Ids -> DraftRecord] /\ form \in [brief : Brief, files : SUBSET Files]
      <4>1. [status |-> "draft", brief |-> b, files |-> S] \in DraftRecord
        BY DEF DraftRecord
      <4> QED
        BY <3>1, <4>1, EmptyForms
    <3>2. ASSUME NEW text \in Words \cup {Blank}, drafts = [i \in Ids |-> NoDraft],
                 form = [brief |-> [text |-> text, filled |-> FALSE], files |-> {}]
          PROVE  drafts \in [Ids -> DraftRecord] /\ form \in [brief : Brief, files : SUBSET Files]
      <4>1. [text |-> text, filled |-> FALSE] \in Brief
        BY DEF Brief
      <4> QED
        BY <3>2, <4>1, EmptyForms
    <3> QED
      BY <3>1, <3>2 DEF RequestFormInit
  <2> QED
    BY <2>1, <2>2, EmptyForms DEF SubmitInv, OnRecord, NoSubmit, NothingElsewhere
<1>2. SubmitInv /\ [RequestFormNext]_formVars => SubmitInv'
  <2> SUFFICES ASSUME SubmitInv, [RequestFormNext]_formVars PROVE SubmitInv'
    OBVIOUS
  <2> USE DEF records
  <2>1. /\ sending.held \in Pressed /\ sending.ids \subseteq Files /\ sending.request \in Ids
        /\ sending.held.brief \in Brief /\ Existing \in Ids
    BY EmptyForms DEF SubmitInv, SubmitRecord, Pressed
  <2>2. ASSUME form' \in [brief : Brief, files : SUBSET Files], enhancing' \in BOOLEAN,
               UNCHANGED <<sending, drafts, elsewhere>>
        PROVE  SubmitInv'
    BY <2>2 DEF SubmitInv, OnRecord
  <2>3. ASSUME NEW b \in Brief, Edit(b) PROVE SubmitInv'
    BY <2>2, <2>3 DEF Edit, SubmitInv
  <2>4. ASSUME NEW f \in Files, PickFile(f) PROVE SubmitInv'
    BY <2>2, <2>4 DEF PickFile, SubmitInv
  <2>5. CASE Enhance
    BY <2>2, <2>5 DEF Enhance, SubmitInv
  <2>6. CASE EnhanceEnds
    <3> DEFINE b == [form.brief EXCEPT !.text = Enhanced]
    <3>1. b \in Brief
      BY DEF SubmitInv, Brief
    <3>2. form' = [form EXCEPT !.brief = b]
      BY <2>6 DEF EnhanceEnds, SubmitInv
    <3> HIDE DEF b
    <3> QED
      BY <2>2, <2>6, <3>1, <3>2 DEF EnhanceEnds, SubmitInv
  <2>7. ASSUME NEW p \in BOOLEAN, Press(p) PROVE SubmitInv'
    <3> DEFINE h == [brief |-> form.brief, files |-> form.files, publish |-> p]
    <3>1. h \in Pressed
      BY DEF SubmitInv, Pressed
    <3>2. sending' = [NoSubmit EXCEPT !.step = "uploading", !.held = h]
      BY <2>7 DEF Press
    <3> HIDE DEF h
    <3>3. sending' \in SubmitRecord /\ sending'.step = "uploading"
      BY <3>1, <3>2, EmptyForms DEF SubmitRecord, SubmitSteps
    <3> QED
      BY <2>7, <3>3 DEF Press, SubmitInv, OnRecord
  <2>8. ASSUME NEW f \in Files, Upload(f) PROVE SubmitInv'
    <3>1. CASE Fails
      BY <2>8, <3>1, FailureEndsIt DEF Upload, SubmitInv
    <3>2. CASE sending' = [sending EXCEPT !.ids = @ \cup {f}]
      <4>1. sending' \in SubmitRecord /\ sending'.step = "uploading"
        BY <2>8, <3>2 DEF Upload, SubmitInv, SubmitRecord
      <4> QED
        BY <2>8, <4>1 DEF Upload, SubmitInv, OnRecord
    <3> QED
      BY <2>8, <3>1, <3>2 DEF Upload
  <2>9. CASE Create
    <3>1. CASE Fails /\ UNCHANGED drafts
      BY <2>9, <3>1, FailureEndsIt DEF Create, SubmitInv
    <3>2. ASSUME NEW i \in Ids,
                 drafts' = [drafts EXCEPT ![i] = [status |-> "draft", brief |-> Payload,
                                                  files |-> sending.ids]],
                 Fails \/ sending' = [sending EXCEPT !.step = "saved", !.request = i]
          PROVE  SubmitInv'
      <4> DEFINE x == [status |-> "draft", brief |-> Payload, files |-> sending.ids]
      <4>1. x \in DraftRecord /\ x.brief = sending.held.brief
            /\ sending.held.files \subseteq x.files
        BY <2>1, <2>9 DEF DraftRecord, Payload, Create, FilesAreUp
      <4> HIDE DEF x
      <4> QED
        BY <2>9, <3>2, <4>1, SavedAsPressed DEF Create, x
    <3> QED
      BY <2>9, <3>1, <3>2 DEF Create
  <2>10. CASE ReadToUpdate
    <3>1. CASE Fails
      BY <2>10, <3>1, FailureEndsIt DEF ReadToUpdate, SubmitInv
    <3>2. CASE sending' = [sending EXCEPT !.step = "updating"]
      <4>1. /\ sending' \in SubmitRecord /\ sending'.step = "updating"
            /\ sending'.held.files \subseteq sending'.ids
        BY <2>10, <3>2 DEF ReadToUpdate, FilesAreUp, SubmitInv, SubmitRecord, SubmitSteps
      <4> QED
        BY <2>10, <4>1 DEF ReadToUpdate, SubmitInv, OnRecord
    <3> QED
      BY <2>10, <3>1, <3>2 DEF ReadToUpdate
  <2>11. CASE Update
    <3> DEFINE x == [status |-> "draft", brief |-> Payload,
                     files |-> IF sending.ids = {} THEN drafts[Existing].files ELSE sending.ids]
    <3>1. drafts[Existing].files \subseteq Files
      BY <2>1 DEF SubmitInv, DraftRecord
    <3>2. x \in DraftRecord /\ x.brief = sending.held.brief
      BY <2>1, <3>1 DEF DraftRecord, Payload
    <3>3. sending.held.files \subseteq x.files
      BY <2>11 DEF Update, SubmitInv
    <3>4. drafts' = [drafts EXCEPT ![Existing] = x]
      BY <2>11 DEF Update
    <3> HIDE DEF x
    <3> QED
      BY <2>1, <2>11, <3>2, <3>3, <3>4, SavedAsPressed DEF Update
  <2>12. CASE ReadToPublish
    <3>1. CASE Fails
      BY <2>12, <3>1, FailureEndsIt DEF ReadToPublish, SubmitInv
    <3>2. CASE sending' = [sending EXCEPT !.step = "publishing"]
      <4>1. /\ sending' \in SubmitRecord /\ sending'.step = "publishing"
            /\ sending'.held = sending.held /\ sending'.request = sending.request
            /\ sending'.touched = sending.touched
        BY <3>2 DEF SubmitInv, SubmitRecord, SubmitSteps
      <4> QED
        BY <2>12, <4>1 DEF ReadToPublish, SubmitInv, OnRecord
    <3> QED
      BY <2>12, <3>1, <3>2 DEF ReadToPublish
  <2>13. CASE Publish
    <3> DEFINE r == sending.request
    <3>1. drafts' = [drafts EXCEPT ![r].status = "published"] /\ sending.step = "publishing"
      BY <2>13 DEF Publish
    <3> HIDE DEF r
    <3>2. /\ drafts' \in [Ids -> DraftRecord] /\ drafts'[r].status = "published"
          /\ drafts'[r].brief = drafts[r].brief /\ drafts'[r].files = drafts[r].files
      BY <2>1, <3>1, StatusMoves DEF SubmitInv, r
    <3>3. CASE Fails
      BY <2>13, <3>2, <3>3, FailureEndsIt DEF Publish
    <3>4. CASE sending' = [sending EXCEPT !.step = "published"]
      <4>1. /\ sending' \in SubmitRecord /\ sending'.step = "published"
            /\ sending'.held = sending.held /\ sending'.request = r
            /\ sending'.touched = sending.touched
        BY <3>4 DEF SubmitInv, SubmitRecord, SubmitSteps, r
      <4> QED
        BY <2>13, <3>1, <3>2, <4>1 DEF Publish, SubmitInv, OnRecord, r
    <3> QED
      BY <2>13, <3>3, <3>4 DEF Publish
  <2>14. CASE Leave
    <3>1. /\ sending' \in SubmitRecord /\ sending'.step = "away"
          /\ sending'.held = sending.held /\ sending'.request = sending.request
          /\ sending'.touched = sending.touched
      BY <2>14 DEF Leave, SubmitInv, SubmitRecord, SubmitSteps
    <3> QED
      BY <2>14, <3>1, EmptyForms DEF Leave, SubmitInv, OnRecord
  <2>15. ASSUME NEW i \in Ids, NEW a \in {"edit", "publish", "cancel"}, ElsewhereReads(i, a)
         PROVE  SubmitInv'
    BY <2>15 DEF ElsewhereReads, SubmitInv, OnRecord
  <2>16. CASE ElsewhereSaves
    <3> DEFINE i == elsewhere.request
    <3>1. /\ i \in Ids
          /\ elsewhere' = [NothingElsewhere EXCEPT !.does = "done"]
          /\ UNCHANGED <<form, enhancing>> /\ sending.step # "away"
          /\ sending' = [sending EXCEPT !.touched = busy /\ (sending.touched \/ i = sending.request)]
      BY <2>16 DEF ElsewhereSaves, SubmitInv, Away
    <3>2. \/ drafts' = [drafts EXCEPT ![i].status = "draft", ![i].brief = EmptyBrief]
          \/ drafts' = [drafts EXCEPT ![i].status = "published"]
          \/ drafts' = [drafts EXCEPT ![i].status = "cancelled"]
      BY <2>16 DEF ElsewhereSaves
    <3> HIDE DEF i
    <3>3. drafts' \in [Ids -> DraftRecord] /\ \A k \in Ids : k # i => drafts'[k] = drafts[k]
      <4>1. CASE drafts' = [drafts EXCEPT ![i].status = "draft", ![i].brief = EmptyBrief]
        <5> DEFINE x == [drafts[i] EXCEPT !.status = "draft", !.brief = EmptyBrief]
        <5>1. drafts[i] \in DraftRecord
          BY <3>1 DEF SubmitInv
        <5>2. x \in DraftRecord
          BY <5>1, EmptyForms DEF DraftRecord
        <5>3. drafts' = [drafts EXCEPT ![i] = x]
          BY <3>1, <4>1 DEF SubmitInv
        <5> HIDE DEF x
        <5> QED
          BY <3>1, <5>2, <5>3, DraftSaved DEF SubmitInv
      <4> QED
        BY <3>1, <3>2, <4>1, StatusMoves DEF SubmitInv
    <3>4. /\ sending' \in SubmitRecord /\ sending'.step = sending.step
          /\ sending'.held = sending.held /\ sending'.request = sending.request
          /\ sending'.ids = sending.ids
          /\ busy /\ ~sending'.touched => ~sending.touched /\ i # sending.request
      BY <3>1 DEF SubmitInv, SubmitRecord, busy
    <3>5. elsewhere' \in [does : {"nothing", "edit", "publish", "cancel", "done"}, request : Ids]
      BY <2>1, <3>1 DEF NothingElsewhere
    <3> QED
      BY <2>1, <3>1, <3>3, <3>4, <3>5 DEF SubmitInv, OnRecord, busy
  <2>17. CASE UNCHANGED formVars
    BY <2>17 DEF formVars, SubmitInv, OnRecord
  <2> QED
    BY <2>3, <2>4, <2>5, <2>6, <2>7, <2>8, <2>9, <2>10, <2>11, <2>12, <2>13, <2>14, <2>15,
       <2>16, <2>17 DEF RequestFormNext
<1> QED
  BY <1>1, <1>2, PTL DEF RequestFormSpec

\* The form is never left with anything else on record than what was pressed, but for
\* what another tab saved into the same request since the press, for any texts, files
\* and number of attempts.
THEOREM PressedIsOnRecord == RequestFormSpec => []LeavesAsPressed
<1>1. SubmitInv => LeavesAsPressed
  BY DEF SubmitInv, OnRecord, LeavesAsPressed, Away
<1> QED
  BY <1>1, SubmitInvariant, PTL

-----------------------------------------------------------------------------
\* Whichever page the tab is on: what was proved of each page's own specification holds
\* of the app, for every value of the constants.
THEOREM PagesAreSafe ==
    WebSafety => /\ []UserMatchesStatus /\ OutageKeepsUser
                 /\ MailedForGood /\ []SentOnce
                 /\ []OffersAllowed /\ ReviewWritesKeepApart
                 /\ []LeavesAsPressed /\ []ApprovedIsBacked
                 /\ []ShownIsStored
BY PagesRunApart, UserIsKnown, OutagesAreOutlived, MailedOnRecord, TextsAreSentOnce,
   OffersAreHonoured, ReviewsKeepApart, PressedIsOnRecord, ExpertsAreBacked,
   OnlyStoredIsShown, PTL

\* Every page keeps to its types and bounds, whichever is mounted, for any number of
\* retries, attempts, submissions and requests under way.
THEOREM PagesTypesHold == WebSafety => []PagesTypeOK
<1> DEFINE OnPage == page \in Pages
<1>1. WebInit => OnPage
  BY DEF WebInit
<1>2. OnPage /\ [WebNext]_webVars => OnPage'
  BY DEF WebNext, webVars, SessionRuns, BellRuns, ThreadRuns, OrderRuns, RequestRuns, ApplyRuns
<1>3. NoteInv => NotificationsTypeOK
  BY DEF NoteInv
<1>4. SubmitInv => RequestFormTypeOK
  BY DEF SubmitInv, RequestFormTypeOK, DraftRecord, SubmitRecord, SubmitSteps
<1>5. ApplicationInv => ExpertApplicationTypeOK
  BY DEF ApplicationInv
<1>6. /\ OnPage /\ SessionTypeOK /\ NotificationsTypeOK /\ ConversationTypeOK
      /\ WorkspaceTypeOK /\ RequestFormTypeOK /\ ExpertApplicationTypeOK
      => PagesTypeOK
  BY DEF PagesTypeOK
<1> HIDE DEF OnPage
<1> QED
  BY <1>1, <1>2, <1>3, <1>4, <1>5, <1>6, PagesRunApart, SessionTypesHold, NoteInvariant,
     ThreadTypesHold, WorkspaceTypesHold, SubmitInvariant, ApplicationInvariant, PTL
  DEF WebSafety
=============================================================================
