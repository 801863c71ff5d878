--------------------------- MODULE Notifications ---------------------------
(***************************************************************************)
(* A user's notifications: the rows notify() writes and prune removes, the *)
(* worker's delivery task with its push and its mail (notifications/       *)
(* tasks.py, services.py), and the bell of the web app                     *)
(* (NotificationsProvider.tsx), which believes the list it fetches and     *)
(* takes a push for a hint to fetch it.                                    *)
(***************************************************************************)
EXTENDS Integers, Sequences, FiniteSets

CONSTANTS
    Notes,        \* notifications of the user
    MaxAttempts,  \* Q_MAX_ATTEMPTS: runs of one task the broker counts
    MaxStops,     \* bound: runs of one task it does not, as the worker was stopped in them
    Fetches,      \* list requests under way at a time
    MaxReconnects \* tries of the socket before only polling is left

ASSUME NotificationsAssumption ==
    /\ IsFiniteSet(Notes) /\ MaxAttempts \in Nat \ {0} /\ MaxStops \in Nat
    /\ MaxReconnects \in Nat

VARIABLES
    rows,     \* Notification, per note: "none", "unread" or "older" (unread, and the
              \* latest fifty, the newer ones read by now, leave it out), "read", "pruned"
    stamps,   \* notes with pushed_at, and notes with emailed_at
    tasks,    \* deliver_notification, per note: its statement, the runs that raised, the
              \* stops, and whether the row as this run loaded it had emailed_at
    bellSocket,   \* /ws/notifications/: "open", "closed" or "dead", and the tries so far
    pushes,   \* frames on their way to the page
    fetches,  \* list requests: "idle", "asked", "counted", "answered"
    bell      \* the badge and the unread entries listed

noteVars == <<rows, stamps, tasks, bellSocket, pushes, fetches, bell>>

RowStates == {"none", "unread", "older", "read", "pruned"}
Listed == {n \in Notes : rows[n] = "unread"}
Unread == {n \in Notes : rows[n] \in {"unread", "older"}}
TaskSteps == {"none", "queued", "pushing", "stamping", "mailing", "recording", "acking",
              "done", "failed"}
Task == [step : TaskSteps, attempt : 0 .. MaxAttempts - 1, stops : 0 .. MaxStops, mailed : BOOLEAN]
NoTask == [step |-> "none", attempt |-> 0, stops |-> 0, mailed |-> FALSE]

Fetch == [step : {"idle", "asked", "counted", "answered"},
          unread : 0 .. Cardinality(Notes), items : SUBSET Notes]
NoFetch == [step |-> "idle", unread |-> 0, items |-> {}]

NotificationsTypeOK ==
    /\ rows \in [Notes -> RowStates]
    /\ stamps \in [pushed : SUBSET Notes, emailed : SUBSET Notes]
    /\ tasks \in [Notes -> Task]
    /\ bellSocket \in [state : {"open", "closed", "dead"}, tries : 0 .. MaxReconnects]
    /\ pushes \subseteq Notes
    /\ fetches \in [Fetches -> Fetch]
    /\ bell \in [unread : 0 .. Cardinality(Notes), items : SUBSET Notes]

NotificationsInit ==
    /\ rows = [n \in Notes |-> "none"]
    /\ stamps = [pushed |-> {}, emailed |-> {}]
    /\ tasks = [n \in Notes |-> NoTask]
    /\ bellSocket = [state |-> "closed", tries |-> 0]
    /\ pushes = {}
    /\ fetches = [f \in Fetches |-> NoFetch]
    /\ bell = [unread |-> 0, items |-> {}]

pageSide == <<bellSocket, fetches, bell>>

-----------------------------------------------------------------------------
(* The server. *)

\* notify: the row and its task in one transaction.
Notify(n) ==
    /\ rows[n] = "none"
    /\ rows' = [rows EXCEPT ![n] = "unread"]
    /\ tasks' = [tasks EXCEPT ![n] = [NoTask EXCEPT !.step = "queued"]]
    /\ UNCHANGED <<stamps, pushes, pageSide>>

\* Fifty newer notifications, read since (bound: once its delivery is over).
PushOffTheList(n) ==
    /\ rows[n] = "unread" /\ tasks[n].step \in {"done", "failed"}
    /\ rows' = [rows EXCEPT ![n] = "older"]
    /\ UNCHANGED <<stamps, tasks, pushes, pageSide>>

\* prune_notifications; the age is left out, so a row may go with its task under way.
Prune(n) ==
    /\ rows[n] \in {"unread", "older", "read"}
    /\ rows' = [rows EXCEPT ![n] = "pruned"]
    /\ UNCHANGED <<stamps, tasks, pushes, pageSide>>

At(n, step) == tasks[n].step = step
GoTo(n, step) == tasks' = [tasks EXCEPT ![n].step = step]

\* Slip: a run that raised is not counted.
RaisesUncounted(n) == GoTo(n, "queued")

\* Slip: the count is not held against the limit.
RaisesUnlimited(n) ==
    tasks' = [tasks EXCEPT ![n] = [tasks[n] EXCEPT !.attempt = @ + 1, !.step = "queued",
                                                   !.mailed = FALSE]]

\* A run that raises has its failure saved and counted, and is taken up again until
\* the attempts are used up.
Raises(n) ==
    tasks' = [tasks EXCEPT ![n] =
                IF tasks[n].attempt + 1 < MaxAttempts
                THEN [tasks[n] EXCEPT !.attempt = @ + 1, !.step = "queued", !.mailed = FALSE]
                ELSE [NoTask EXCEPT !.step = "failed"]]

\* The run loads the row; without one it raises.
StartTask(n) ==
    /\ At(n, "queued")
    /\ IF rows[n] = "pruned" THEN Raises(n)
       ELSE tasks' = [tasks EXCEPT ![n] = [@ EXCEPT !.step = "pushing",
                                                    !.mailed = n \in stamps.emailed]]
    /\ UNCHANGED <<rows, stamps, pushes, pageSide>>

\* refresh_from_db after the push.
GoOnUnlessPruned(n) == IF rows[n] = "pruned" THEN Raises(n) ELSE GoTo(n, "mailing")

\* _push_realtime, unless it was pushed before: to an open socket or to nobody; a
\* channel layer that is down is only a warning, and the row is read once more.
Push(n) ==
    /\ At(n, "pushing")
    /\ \/ n \in stamps.pushed /\ GoTo(n, "mailing") /\ UNCHANGED pushes
       \/ n \notin stamps.pushed /\ GoOnUnlessPruned(n) /\ UNCHANGED pushes
       \/ /\ n \notin stamps.pushed /\ GoTo(n, "stamping")
          /\ pushes' = IF bellSocket.state = "open" THEN pushes \cup {n} ELSE pushes
    /\ UNCHANGED <<rows, stamps, pageSide>>

StampPushed(n) ==
    /\ At(n, "stamping")
    /\ stamps' = IF rows[n] = "pruned" THEN stamps ELSE [stamps EXCEPT !.pushed = @ \cup {n}]
    /\ GoOnUnlessPruned(n)
    /\ UNCHANGED <<rows, pushes, pageSide>>

\* Slip: the guard against a second mail is forgotten.
MayMailAgain(n) == TRUE

MayMail(n) == ~tasks[n].mailed

\* send_mail, which may raise, unless a mail is on record or the user's preference for
\* the category, looked up now, is off.
SendMail(n) ==
    /\ At(n, "mailing")
    /\ GoTo(n, "acking") \/ (MayMail(n) /\ (GoTo(n, "recording") \/ Raises(n)))
    /\ UNCHANGED <<rows, stamps, pushes, pageSide>>

RecordMail(n) ==
    /\ At(n, "recording")
    /\ stamps' = IF rows[n] = "pruned" THEN stamps ELSE [stamps EXCEPT !.emailed = @ \cup {n}]
    /\ GoTo(n, "acking")
    /\ UNCHANGED <<rows, pushes, pageSide>>

\* The broker's row is deleted.
AckTask(n) ==
    /\ At(n, "acking")
    /\ tasks' = [tasks EXCEPT ![n] = [NoTask EXCEPT !.step = "done"]]
    /\ UNCHANGED <<rows, stamps, pushes, pageSide>>

\* The worker is stopped or killed anywhere in the task: no result is saved, nothing is
\* counted, and the broker hands the task out again when its lock runs out.
WorkerStops(n) ==
    /\ tasks[n].step \in {"pushing", "stamping", "mailing", "recording", "acking"}
    /\ tasks[n].stops < MaxStops
    /\ tasks' = [tasks EXCEPT ![n] = [tasks[n] EXCEPT !.step = "queued", !.stops = @ + 1,
                                                       !.mailed = FALSE]]
    /\ UNCHANGED <<rows, stamps, pushes, pageSide>>

\* The list view runs two queries: the count, then the latest fifty rows.
CountUnread(f) ==
    /\ fetches[f].step = "asked"
    /\ fetches' = [fetches EXCEPT ![f] = [@ EXCEPT !.step = "counted",
                                                   !.unread = Cardinality(Unread)]]
    /\ UNCHANGED <<rows, stamps, tasks, pushes, bellSocket, bell>>

ListRows(f) ==
    /\ fetches[f].step = "counted"
    /\ fetches' = [fetches EXCEPT ![f] = [@ EXCEPT !.step = "answered", !.items = Listed]]
    /\ UNCHANGED <<rows, stamps, tasks, pushes, bellSocket, bell>>

-----------------------------------------------------------------------------
(* The page. *)

serverSide == <<rows, stamps, tasks>>

FreeFetches == {f \in Fetches : fetches[f].step = "idle"}
Asks(f) ==
    /\ f \in FreeFetches /\ f = CHOOSE g \in FreeFetches : TRUE
    /\ fetches' = [fetches EXCEPT ![f] = [NoFetch EXCEPT !.step = "asked"]]

\* The first load, the sixty-second poll, and the tab getting focus or network back.
Poll(f) ==
    /\ Asks(f)
    /\ UNCHANGED <<serverSide, pushes, bellSocket, bell>>

\* Slip: the badge counts on its own and is not set by a fetch.
ReadListOnly(f) ==
    /\ fetches[f].step = "answered"
    /\ bell' = [bell EXCEPT !.items = fetches[f].items]
    /\ fetches' = [fetches EXCEPT ![f] = NoFetch]
    /\ UNCHANGED <<serverSide, pushes, bellSocket>>

\* refresh: whatever arrives is believed.
ReadList(f) ==
    /\ fetches[f].step = "answered"
    /\ bell' = [bell EXCEPT !.unread = fetches[f].unread, !.items = fetches[f].items]
    /\ fetches' = [fetches EXCEPT ![f] = NoFetch]
    /\ UNCHANGED <<serverSide, pushes, bellSocket>>

\* Offline, signed out, or an error: the badge just stays stale.
FetchFails(f) ==
    /\ fetches[f].step = "answered"
    /\ fetches' = [fetches EXCEPT ![f] = NoFetch]
    /\ UNCHANGED <<serverSide, pushes, bellSocket, bell>>

\* A push is only a hint to fetch (its toast is left out).
ReadPush(n) ==
    /\ n \in pushes /\ bellSocket.state = "open"
    /\ pushes' = pushes \ {n}
    /\ \/ \E f \in Fetches : Asks(f)
       \/ FreeFetches = {} /\ UNCHANGED fetches
    /\ UNCHANGED <<serverSide, bellSocket, bell>>

\* markRead on a listed entry, markAllRead on whatever is unread by then: done on
\* the server first, refetched afterwards.
MarkRead(S, f) ==
    /\ rows' = [n \in Notes |-> IF n \in S \cap Unread THEN "read" ELSE rows[n]]
    /\ Asks(f)
    /\ UNCHANGED <<stamps, tasks, pushes, bellSocket, bell>>

MarkOneRead(f) == \E n \in bell.items : MarkRead({n}, f)
MarkAllRead(f) == bell.unread > 0 /\ MarkRead(Notes, f)

BellSocketOpens ==
    /\ bellSocket.state = "closed"
    /\ bellSocket' = [state |-> "open", tries |-> 0]
    /\ UNCHANGED <<serverSide, pushes, fetches, bell>>

\* onclose: frames on their way are lost; the tries are bounded.
BellSocketCloses ==
    /\ bellSocket.state # "dead"
    /\ bellSocket' = IF bellSocket.tries < MaxReconnects
                 THEN [state |-> "closed", tries |-> bellSocket.tries + 1]
                 ELSE [bellSocket EXCEPT !.state = "dead"]
    /\ pushes' = {}
    /\ UNCHANGED <<serverSide, fetches, bell>>

DeliverStep(n) ==
    StartTask(n) \/ Push(n) \/ StampPushed(n) \/ SendMail(n) \/ RecordMail(n) \/ AckTask(n)

NotificationsNext ==
    \/ \E n \in Notes : Notify(n) \/ PushOffTheList(n) \/ Prune(n) \/ DeliverStep(n) \/ WorkerStops(n)
                        \/ ReadPush(n)
    \/ \E f \in Fetches :
         \/ Poll(f) \/ CountUnread(f) \/ ListRows(f) \/ ReadList(f) \/ FetchFails(f)
         \/ MarkOneRead(f) \/ MarkAllRead(f)
    \/ BellSocketOpens \/ BellSocketCloses

NotificationsSpec == NotificationsInit /\ [][NotificationsNext]_noteVars

-----------------------------------------------------------------------------
(* Properties. *)

\* NotificationsProvider.tsx:6-7: badge and list become correct with no realtime
\* transport at all, although answers overtake each other, the count and the rows
\* are read at different times, rows are pruned, and any number of answers is lost.
\* The badge counts what is unread; the list has of it what is among the latest fifty.
BellSettles == <>[](bell.unread = Cardinality(Unread) /\ bell.items = Listed)

\* The step of a task in which its mail goes out.
Mails(n) == At(n, "mailing") /\ tasks'[n].step = "recording"

\* notifications/tasks.py:15-17: whatever the redeliveries of the task, a mail that
\* is on record as sent is not sent again.
MailedForGood == [][\A n \in stamps.emailed : ~Mails(n)]_noteVars

\* Q_CLUSTER: every delivery that was queued comes to an end and stays there, read or
\* pruned meanwhile or not, through runs that raise and workers that stop, if they do
\* not stop for ever: no task is left queued or halfway.
DeliveryEnds ==
    <>[](\A n \in Notes : tasks[n].step \in {"none", "done", "failed"})
=============================================================================
