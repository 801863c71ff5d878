------------------------------ MODULE WebPages ------------------------------
(***************************************************************************)
(* The web app in one browser tab, on one of its pages: the session around *)
(* it, its bell, an open thread, an order, the request wizard or the       *)
(* expert application, each against the server it talks to.  The pages     *)
(* share no state, so one of them runs at a time.                          *)
(***************************************************************************)
EXTENDS Session, Notifications, Conversation, Workspace, RequestForm, ExpertApplication

VARIABLE page  \* the one that is mounted

webVars == <<page, sessionVars, noteVars, threadVars, workspaceVars, formVars, applicationVars>>

Pages == {"session", "bell", "thread", "order", "request", "apply"}

PagesTypeOK ==
    /\ page \in Pages
    /\ SessionTypeOK /\ NotificationsTypeOK /\ ConversationTypeOK
    /\ WorkspaceTypeOK /\ RequestFormTypeOK /\ ExpertApplicationTypeOK

\* A page that is not mounted stands at one of its initial states.
WebInit ==
    /\ page \in Pages
    /\ SessionInit /\ (page # "session" => cookie = "none")
    /\ NotificationsInit
    /\ ConversationInit
    /\ WorkspaceInit /\ (page # "order" => viewer = "student")
    /\ RequestFormInit
    /\ page # "request" => form.brief = EmptyBrief /\ ~Editing
    /\ ExpertApplicationInit

SessionRuns ==
    /\ page = "session" /\ SessionNext
    /\ UNCHANGED <<page, noteVars, threadVars, workspaceVars, formVars, applicationVars>>

BellRuns ==
    /\ page = "bell" /\ NotificationsNext
    /\ UNCHANGED <<page, sessionVars, threadVars, workspaceVars, formVars, applicationVars>>

ThreadRuns ==
    /\ page = "thread" /\ ConversationNext
    /\ UNCHANGED <<page, sessionVars, noteVars, workspaceVars, formVars, applicationVars>>

OrderRuns ==
    /\ page = "order" /\ WorkspaceNext
    /\ UNCHANGED <<page, sessionVars, noteVars, threadVars, formVars, applicationVars>>

RequestRuns ==
    /\ page = "request" /\ RequestFormNext
    /\ UNCHANGED <<page, sessionVars, noteVars, threadVars, workspaceVars, applicationVars>>

ApplyRuns ==
    /\ page = "apply" /\ ExpertApplicationNext
    /\ UNCHANGED <<page, sessionVars, noteVars, threadVars, workspaceVars, formVars>>

WebNext == SessionRuns \/ BellRuns \/ ThreadRuns \/ OrderRuns \/ RequestRuns \/ ApplyRuns

WebSafety == WebInit /\ [][WebNext]_webVars

-----------------------------------------------------------------------------
(* Fairness: what is answered, read or retried without anybody pressing a  *)
(* button, and the page coming back into focus.  An answer may be lost any *)
(* number of times, but not always: hence SF on reading one.               *)

SessionFairness ==
    \A r \in Refreshes : WF_sessionVars(page = "session" /\ RefreshStep(r))

BellFairness ==
    /\ \A n \in Notes : WF_noteVars(page = "bell" /\ DeliverStep(n))
    /\ \A f \in Fetches :
         /\ WF_noteVars(page = "bell" /\ (Poll(f) \/ CountUnread(f) \/ ListRows(f)))
         /\ SF_noteVars(page = "bell" /\ ReadList(f))

ThreadFairness ==
    /\ \A m \in Mine : WF_threadVars(page = "thread"
                          /\ (Uploaded(m) \/ PostFails(m) \/ PostAnswered(m) \/ ServePost(m)))
    /\ WF_threadVars(page = "thread" /\ Focus)
    /\ WF_threadVars(page = "thread" /\ ServeFrame)
    /\ WF_threadVars(page = "thread" /\ ReadEvent)
    /\ \A l \in Loads :
         /\ WF_threadVars(page = "thread" /\ ServeLoad(l))
         /\ SF_threadVars(page = "thread" /\ ReadLoad(l))

WebSpec == WebSafety /\ SessionFairness /\ BellFairness /\ ThreadFairness

-----------------------------------------------------------------------------
(* Properties. *)

\* SessionProvider.tsx:36-73: the session's status leaves "loading" for good, whatever
\* refreshes, sign-ins and lost answers there are: an answer comes, or the outage is
\* reported.  (The layout's skeleton need not end with it: layout.tsx:173-182 shows it
\* for "unauthenticated" too, until a redirect leads to the sign-in page.)
LoadingEnds == <>[](page = "session" => session.status # "loading")
=============================================================================
