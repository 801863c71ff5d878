------------------------- MODULE ExpertApplication -------------------------
(***************************************************************************)
(* One account's expert application: experts/services.py, where staff      *)
(* decisions lock the row and the applicant's own requests do not, and the *)
(* apply page (expert/apply/page.tsx), which saves and then submits, in    *)
(* any number of the applicant's tabs.                                     *)
(***************************************************************************)
EXTENDS Integers

CONSTANTS
    ApplyTabs,   \* tabs of the applicant on the apply page
    Credentials  \* documents the applicant may upload

VARIABLES
    application, \* the row and its credentials
    profile,     \* an ExpertProfile exists
    applyPages   \* per tab: the status it knows, its credential ids and its submission

applicationVars == <<application, profile, applyPages>>

ApplicationStatuses == {"not_applied", "draft", "submitted", "under_review", "approved", "rejected",
              "suspended"}
USER_EDITABLE_STATUSES == {"draft", "submitted", "rejected"}
SUBMITTABLE_FROM == {"draft", "rejected"}

STAFF_TRANSITIONS ==
    {<<"submitted", "under_review">>, <<"under_review", "approved">>,
     <<"under_review", "rejected">>, <<"approved", "suspended">>, <<"suspended", "approved">>}

PageSteps == {"form", "create", "creating", "patch", "patching", "submit", "submitting", "answered"}

ApplyPage == [status : ApplicationStatuses, ids : SUBSET Credentials, step : PageSteps,
              held : SUBSET Credentials, seen : ApplicationStatuses]

ExpertApplicationTypeOK ==
    /\ application \in [status : ApplicationStatuses, credentials : SUBSET Credentials]
    /\ profile \in BOOLEAN
    /\ applyPages \in [ApplyTabs -> ApplyPage]

FreshPage == [status |-> "not_applied", ids |-> {}, step |-> "form", held |-> {},
              seen |-> "not_applied"]

ExpertApplicationInit ==
    /\ application = [status |-> "not_applied", credentials |-> {}]
    /\ profile = FALSE
    /\ applyPages = [t \in ApplyTabs |-> FreshPage]

-----------------------------------------------------------------------------
(* The apply page. *)

AtStep(t, step) == applyPages[t].step = step
Shows(t, p) == applyPages' = [applyPages EXCEPT ![t] = p]

\* The submission's next step, the ids its closure holds, the status its handler read.
GoesTo(t, step, held, seen) ==
    Shows(t, [status |-> applyPages[t].status, ids |-> applyPages[t].ids,
              step |-> step, held |-> held, seen |-> seen])
NothingSeen == "not_applied"
ToSubmit(t) == GoesTo(t, "submit", {}, NothingSeen)
BackToForm(t) == GoesTo(t, "form", {}, NothingSeen)
ShowsForm(t, status, ids) ==
    Shows(t, [status |-> status, ids |-> ids, step |-> "form", held |-> {}, seen |-> NothingSeen])

\* A mount and its answer.  Without an answer the page stays on "not_applied" and
\* offers the empty form.
Mount(t) ==
    /\ AtStep(t, "form")
    /\ ShowsForm(t, "not_applied", {}) \/ ShowsForm(t, application.status, application.credentials)
    /\ UNCHANGED <<application, profile>>

\* onFileChange, also while a submission is under way.
AddCredential(t, k) ==
    /\ k \notin applyPages[t].ids
    /\ Shows(t, [applyPages[t] EXCEPT !.ids = @ \cup {k}])
    /\ UNCHANGED <<application, profile>>

\* isApplicationEditable: the form and its button are there.
isApplicationEditable(status) == status \in {"not_applied", "draft", "submitted", "rejected"}

\* onSubmit: create or patch, by the status the page knows.
PressSubmit(t) ==
    /\ AtStep(t, "form")
    /\ isApplicationEditable(applyPages[t].status)
    /\ GoesTo(t, IF applyPages[t].status = "not_applied" THEN "create" ELSE "patch",
              applyPages[t].ids, NothingSeen)
    /\ UNCHANGED <<application, profile>>

\* Refused, failed or lost: the catch leaves everything as it is, the status the
\* page knows included.
SubmitFails(t) ==
    /\ ~AtStep(t, "form")
    /\ BackToForm(t)
    /\ UNCHANGED <<application, profile>>

\* The last answer: the page knows the new status and leaves.
ApplicationAnswered(t) ==
    /\ AtStep(t, "answered")
    /\ ShowsForm(t, "submitted", applyPages[t].ids)
    /\ UNCHANGED <<application, profile>>

-----------------------------------------------------------------------------
(* The applicant's requests. *)

\* apply is refused when there is a row already ...
ReadToCreate(t) ==
    /\ AtStep(t, "create")
    /\ application.status = "not_applied"
    /\ GoesTo(t, "creating", applyPages[t].held, NothingSeen)
    /\ UNCHANGED <<application, profile>>

\* ... and saves over one that has come since: its key is the user's, so save()
\* tries an UPDATE first.
SaveNew(t) ==
    /\ AtStep(t, "creating")
    /\ application' = [status |-> "draft",
                       credentials |-> IF applyPages[t].held = {} THEN application.credentials
                                       ELSE applyPages[t].held]
    /\ ToSubmit(t)
    /\ UNCHANGED profile

\* update_application and submit_application load the row without a lock ...
ReadToEdit(t) ==
    /\ AtStep(t, "patch")
    /\ application.status \in USER_EDITABLE_STATUSES
    /\ GoesTo(t, "patching", applyPages[t].held, application.status)
    /\ UNCHANGED <<application, profile>>

\* ... and the edit saves every column of it, the status too.
SaveEdit(t) ==
    /\ AtStep(t, "patching")
    /\ application' = [status |-> applyPages[t].seen,
                       credentials |-> application.credentials \cup applyPages[t].held]
    /\ ToSubmit(t)
    /\ UNCHANGED profile

ReadToSubmit(t) ==
    /\ AtStep(t, "submit")
    /\ application.status \in SUBMITTABLE_FROM
    /\ GoesTo(t, "submitting", {}, application.status)
    /\ UNCHANGED <<application, profile>>

\* Slip: the credentials are left to the reviewer.
ContentUnchecked == TRUE

\* _validate_application_content: the page's form requires every field, so only
\* the documents can be missing.
ContentValid == application.credentials # {}

SaveSubmit(t) ==
    /\ AtStep(t, "submitting")
    /\ \/ /\ ContentValid
          /\ application' = [application EXCEPT !.status = "submitted"]
          /\ GoesTo(t, "answered", {}, NothingSeen)
       \/ ~ContentValid /\ BackToForm(t) /\ UNCHANGED application
    /\ UNCHANGED profile

-----------------------------------------------------------------------------
(* Staff. *)

\* _staff_transition on the locked row, and the profile that approve and reinstate
\* create or refresh.
Decide(to) ==
    /\ <<application.status, to>> \in STAFF_TRANSITIONS
    /\ application' = [application EXCEPT !.status = to]
    /\ profile' = (profile \/ to = "approved")
    /\ UNCHANGED applyPages

ExpertApplicationNext ==
    \/ \E t \in ApplyTabs :
         \/ Mount(t) \/ PressSubmit(t) \/ SubmitFails(t) \/ ApplicationAnswered(t)
         \/ ReadToCreate(t) \/ SaveNew(t) \/ ReadToEdit(t) \/ SaveEdit(t)
         \/ ReadToSubmit(t) \/ SaveSubmit(t)
         \/ \E k \in Credentials : AddCredential(t, k)
    \/ \E to \in {"under_review", "approved", "rejected", "suspended"} : Decide(to)

ExpertApplicationSpec == ExpertApplicationInit /\ [][ExpertApplicationNext]_applicationVars

-----------------------------------------------------------------------------
(* Properties. *)

\* docs/workflows/expert-journey.md:26-33: whatever an edit or a submission that
\* was under way has written back, an expert who counts as approved or suspended
\* has a profile and at least one document, and so has every profile's owner.
ApprovedIsBacked ==
    /\ application.status \in {"approved", "suspended"} => profile
    /\ profile \/ application.status \in {"submitted", "under_review"}
         => application.credentials # {}
=============================================================================
