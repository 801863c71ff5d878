---------------------------- MODULE RequestForm ----------------------------
(***************************************************************************)
(* The request wizard (RequestForm.tsx) from the first keystroke to the    *)
(* redirect: uploads, create or update, publish, each a request that may   *)
(* fail or lose its answer, while the form stays open to edits and the     *)
(* scope copilot rewrites the brief behind a timer.  The services test a   *)
(* request they have loaded and save it later, so another tab of the       *)
(* student's can save between the two.                                     *)
(***************************************************************************)
EXTENDS Integers, FiniteSets

CONSTANTS
    Words,      \* descriptions a student types
    Enhanced,   \* what the copilot puts in their place
    Files,
    MaxSubmits  \* bound: presses of the two buttons

Blank == "blank"

ASSUME RequestFormAssumption ==
    MaxSubmits \in Nat /\ Blank \notin Words \cup {Enhanced}

VARIABLES
    form,      \* the brief and the files picked
    enhancing, \* the copilot's timer runs
    sending,   \* submit(): where it is, the form and button its closure holds, and (history)
               \* whether another tab has saved its request since the press
    drafts,    \* the requests this form has written, existing first
    elsewhere  \* what a request of another tab is about to save, and where (bound:
               \* one such request in a run)

formVars == <<form, enhancing, sending, drafts, elsewhere>>

\* The description, and whether title, subject and budget are filled in.
Brief == [text : Words \cup {Blank, Enhanced}, filled : BOOLEAN]
Complete(b) == b.text # Blank /\ b.filled
Ids == 0 .. MaxSubmits
Existing == 0
Pressed == [brief : Brief, files : SUBSET Files, publish : BOOLEAN]
EmptyBrief == [text |-> Blank, filled |-> FALSE]
NoForm == [brief |-> EmptyBrief, files |-> {}]
NoPress == [brief |-> EmptyBrief, files |-> {}, publish |-> FALSE]
NoDraft == [status |-> "none", brief |-> EmptyBrief, files |-> {}]

RequestFormTypeOK ==
    /\ form \in [brief : Brief, files : SUBSET Files]
    /\ enhancing \in BOOLEAN
    /\ sending \in [step : {"idle", "uploading", "updating", "saved", "publishing", "published",
                            "away"},
                    held : Pressed, ids : SUBSET Files, request : Ids, touched : BOOLEAN]
    /\ drafts \in [Ids -> [status : {"none", "draft", "published", "cancelled"},
                           brief : Brief, files : SUBSET Files]]
    /\ elsewhere \in [does : {"nothing", "edit", "publish", "cancel", "done"}, request : Ids]

NoSubmit == [step |-> "idle", held |-> NoPress, ids |-> {}, request |-> Existing,
             touched |-> FALSE]
NothingElsewhere == [does |-> "nothing", request |-> Existing]

\* /requests/[id]/edit starts from a draft, /requests/new from nothing or from a
\* title or prompt among the page's query parameters.
RequestFormInit ==
    /\ \/ \E b \in Brief, S \in SUBSET Files :
            /\ drafts = [i \in Ids |-> IF i = Existing
                                      THEN [status |-> "draft", brief |-> b, files |-> S]
                                      ELSE NoDraft]
            /\ form = [brief |-> b, files |-> {}]
       \/ \E text \in Words \cup {Blank} :
            /\ drafts = [i \in Ids |-> NoDraft]
            /\ form = [brief |-> [text |-> text, filled |-> FALSE], files |-> {}]
    /\ enhancing = FALSE
    /\ sending = NoSubmit
    /\ elsewhere = NothingElsewhere

Editing == drafts[Existing].status # "none"
Away == sending.step = "away"
busy == sending.step # "idle"
records == <<drafts, elsewhere>>

-----------------------------------------------------------------------------
(* The form: nothing in it is disabled while busy but the two buttons, and *)
(* every step of the wizard can be gone to at any time.                    *)

\* set: any field of step 1, 2 or 3, a template or a skill.
Edit(b) ==
    /\ ~Away
    /\ form' = [form EXCEPT !.brief = b]
    /\ UNCHANGED <<enhancing, sending, records>>

PickFile(f) ==
    /\ ~Away
    /\ form' = [form EXCEPT !.files = IF f \in @ THEN @ \ {f} ELSE @ \cup {f}]
    /\ UNCHANGED <<enhancing, sending, records>>

\* handleAiEnhance composes from the brief at the click; 700 ms later the result
\* replaces whatever the description has become.
Enhance ==
    /\ ~Away /\ ~enhancing
    /\ enhancing' = TRUE
    /\ UNCHANGED <<form, sending, records>>

EnhanceEnds ==
    /\ enhancing
    /\ enhancing' = FALSE
    /\ form' = [form EXCEPT !.brief.text = Enhanced]
    /\ UNCHANGED <<sending, records>>

-----------------------------------------------------------------------------
(* submit(). *)

\* "Save Draft" and "Publish": the closure keeps form and files as they are now.
Press(publish) ==
    /\ ~busy
    /\ \E i \in Ids \ {Existing} : drafts[i].status = "none"
    /\ sending' = [NoSubmit EXCEPT !.step = "uploading",
                     !.held = [brief |-> form.brief, files |-> form.files, publish |-> publish]]
    /\ UNCHANGED <<form, enhancing, drafts, elsewhere>>

\* The catch and the finally: the form is as it was, and nothing is undone.
Fails == sending' = NoSubmit

\* uploadFile, one after the other; the same bytes again are the same upload.
Upload(f) ==
    /\ sending.step = "uploading" /\ f \in sending.held.files \ sending.ids
    /\ Fails \/ sending' = [sending EXCEPT !.ids = @ \cup {f}]
    /\ UNCHANGED <<form, enhancing, records>>

\* Slip: the payload is read from the form when the uploads are done.
LivePayload == form.brief

Payload == sending.held.brief

FilesAreUp == sending.step = "uploading" /\ sending.held.files \subseteq sending.ids

\* requestsApi.create: always another draft.
Create ==
    /\ FilesAreUp /\ ~Editing
    /\ \/ \E i \in Ids \ {Existing} :
            /\ drafts[i].status = "none" /\ \A j \in 1 .. i - 1 : drafts[j].status # "none"
            /\ drafts' = [drafts EXCEPT ![i] = [status |-> "draft", brief |-> Payload,
                                                files |-> sending.ids]]
            /\ Fails \/ sending' = [sending EXCEPT !.step = "saved", !.request = i]
       \/ Fails /\ UNCHANGED drafts
    /\ UNCHANGED <<form, enhancing, elsewhere>>

\* requestsApi.update loads the request and goes on with a draft only ...
ReadToUpdate ==
    /\ FilesAreUp /\ Editing
    /\ \/ drafts[Existing].status = "draft" /\ sending' = [sending EXCEPT !.step = "updating"]
       \/ Fails
    /\ UNCHANGED <<form, enhancing, records>>

\* ... and saves every column of it, the status it was loaded with too; attachment_ids,
\* if there are any, replace the ones it had.
Update ==
    /\ sending.step = "updating"
    /\ drafts' = [drafts EXCEPT ![Existing] =
                    [status |-> "draft", brief |-> Payload,
                     files |-> IF sending.ids = {} THEN @.files ELSE sending.ids]]
    /\ Fails \/ sending' = [sending EXCEPT !.step = "saved", !.request = Existing]
    /\ UNCHANGED <<form, enhancing, elsewhere>>

CanPublish(i) == drafts[i].status = "draft" /\ Complete(drafts[i].brief)

\* requestsApi.publish loads the request, which has to be complete and a draft ...
ReadToPublish ==
    /\ sending.step = "saved" /\ sending.held.publish
    /\ \/ CanPublish(sending.request) /\ sending' = [sending EXCEPT !.step = "publishing"]
       \/ Fails
    /\ UNCHANGED <<form, enhancing, records>>

\* ... and saves its new status over whatever it has by then.
Publish ==
    /\ sending.step = "publishing"
    /\ drafts' = [drafts EXCEPT ![sending.request].status = "published"]
    /\ Fails \/ sending' = [sending EXCEPT !.step = "published"]
    /\ UNCHANGED <<form, enhancing, elsewhere>>

\* router.push to the request's page: the form and its timer are gone.
Leave ==
    /\ sending.step = IF sending.held.publish THEN "published" ELSE "saved"
    /\ sending' = [sending EXCEPT !.step = "away"]
    /\ form' = NoForm /\ enhancing' = FALSE
    /\ UNCHANGED records

\* Another tab edits (attaching nothing), publishes or cancels any of these requests:
\* the service tests the one it has loaded ...
ElsewhereReads(i, action) ==
    /\ ~Away /\ elsewhere = NothingElsewhere
    /\ CASE action = "edit" -> drafts[i].status = "draft"
         [] action = "publish" -> CanPublish(i)
         [] action = "cancel" -> drafts[i].status \in {"draft", "published"}
    /\ elsewhere' = [does |-> action, request |-> i]
    /\ UNCHANGED <<form, enhancing, sending, drafts>>

\* ... and saves over the one there is: an edit (bound: one that empties the brief)
\* every column, the others the status.
ElsewhereSaves ==
    LET i == elsewhere.request IN
    /\ ~Away
    /\ \/ /\ elsewhere.does = "edit"
          /\ drafts' = [drafts EXCEPT ![i].status = "draft", ![i].brief = EmptyBrief]
       \/ elsewhere.does = "publish" /\ drafts' = [drafts EXCEPT ![i].status = "published"]
       \/ elsewhere.does = "cancel" /\ drafts' = [drafts EXCEPT ![i].status = "cancelled"]
    /\ elsewhere' = [NothingElsewhere EXCEPT !.does = "done"]
    /\ sending' = [sending EXCEPT !.touched = busy /\ (@ \/ i = sending.request)]
    /\ UNCHANGED <<form, enhancing>>

RequestFormNext ==
    \/ \E b \in Brief : Edit(b)
    \/ \E f \in Files : PickFile(f) \/ Upload(f)
    \/ \E p \in BOOLEAN : Press(p)
    \/ Enhance \/ EnhanceEnds
    \/ Create \/ ReadToUpdate \/ Update \/ ReadToPublish \/ Publish \/ Leave
    \/ \E i \in Ids, a \in {"edit", "publish", "cancel"} : ElsewhereReads(i, a)
    \/ ElsewhereSaves

RequestFormSpec == RequestFormInit /\ [][RequestFormNext]_formVars

-----------------------------------------------------------------------------
(* Properties. *)

\* RequestForm.tsx:178-212: when the form is left, the request on record is the one
\* that was on the screen at the press: its brief, every file, and out of draft if
\* "Publish" was pressed, whatever was typed, enhanced or picked while the uploads
\* ran, however many earlier attempts failed halfway and whatever another tab has had
\* under way, as long as that tab saved nothing into the same request after the press
\* (it then has the last word: no service locks a request or tests a version of it).
LeavesAsPressed ==
    Away /\ ~sending.touched =>
      LET r == drafts[sending.request]
          pressed == sending.held
      IN
      /\ r.brief = pressed.brief
      /\ pressed.files \subseteq r.files
      /\ pressed.publish => r.status = "published"
=============================================================================
