---------------------------- MODULE Conversation ----------------------------
(***************************************************************************)
(* One open thread page: messages/[threadId]/page.tsx on use-thread-socket, *)
(* against the thread's consumer and REST views.  A text goes out over the *)
(* socket or over REST; what is shown is whatever the last list request to *)
(* be answered has read.                                                   *)
(***************************************************************************)
EXTENDS Integers, Sequences, FiniteSets

CONSTANTS
    Mine,       \* texts this user writes
    Theirs,     \* messages of the other side
    WithFile,   \* those of Mine that carry an attachment
    Loads,      \* thread requests under way at a time
    Moderated,  \* bound: texts staff may hide
    MaxTries,   \* bound: submissions of one text
    MaxThreadRetries  \* reconnects of the socket before only focus is left

Texts == Mine \cup Theirs
Nothing == "nothing"

ASSUME ConversationAssumption ==
    /\ Nothing \notin Texts
    /\ WithFile \subseteq Mine /\ Moderated \subseteq Texts /\ Mine \cap Theirs = {}
    /\ {MaxTries, MaxThreadRetries} \subseteq Nat

VARIABLES
    stored,  \* messages in the table, per text
    hidden,  \* texts staff have hidden
    ended,   \* the order or request behind the thread has ended
    threadSocket,  \* state, tries so far, and whether the thread had ended when it connected
    frames,  \* message.send frames on their way to the consumer
    events,  \* message.new and message.error frames on their way to the page
    posts,   \* per own text: its way out over REST, or its upload
    loads,   \* thread requests: where they are, and the messages read
    screen,  \* messages shown, pending bubbles, the text in the input
    tries    \* submissions, per own text

threadVars == <<stored, hidden, ended, threadSocket, frames, events, posts, loads, screen, tries>>

Visible == {m \in Texts : stored[m] > 0} \ hidden
NoLoad == [step |-> "idle", read |-> {}]

ConversationTypeOK ==
    /\ stored \in [Texts -> 0 .. MaxTries + 1]
    /\ hidden \subseteq Texts
    /\ ended \in BOOLEAN
    /\ threadSocket \in [state : {"open", "closed", "dead"}, tries : 0 .. MaxThreadRetries,
                   sawEnd : BOOLEAN]
    /\ frames \in Seq(Mine)
    /\ events \in Seq({"new", "error"})
    /\ posts \in [Mine -> {"idle", "uploading", "asked", "stored"}]
    /\ loads \in [Loads -> [step : {"idle", "asked", "answered"}, read : SUBSET Texts]]
    /\ screen \in [shown : SUBSET Texts, pending : SUBSET Mine, draft : Mine \cup {Nothing}]
    /\ tries \in [Mine -> 0 .. MaxTries]

ConversationInit ==
    /\ stored = [m \in Texts |-> 0]
    /\ hidden = {}
    /\ ended = FALSE
    /\ threadSocket = [state |-> "closed", tries |-> 0, sawEnd |-> FALSE]
    /\ frames = <<>>
    /\ events = <<>>
    /\ posts = [m \in Mine |-> "idle"]
    /\ loads = [l \in Loads |-> NoLoad]
    /\ screen = [shown |-> {}, pending |-> {}, draft |-> Nothing]
    /\ tries = [m \in Mine |-> 0]

\* load(): one more request, if the bound leaves room.
FreeLoads == {l \in Loads : loads[l].step = "idle"}
StartsLoad ==
    loads' = IF FreeLoads = {} THEN loads
             ELSE [loads EXCEPT ![CHOOSE l \in FreeLoads : TRUE].step = "asked"]

Store(m) == stored' = [stored EXCEPT ![m] = @ + 1]

-----------------------------------------------------------------------------
(* The page. *)

\* A text is typed once; after a failure it is back in the input.
Type(m) ==
    /\ screen.draft = Nothing /\ tries[m] = 0
    /\ screen' = [screen EXCEPT !.draft = m]
    /\ UNCHANGED <<stored, hidden, ended, threadSocket, frames, events, posts, loads, tries>>

\* Slip: REST is used as well.
DispatchTwice(m) ==
    /\ frames' = IF threadSocket.state = "open" THEN Append(frames, m) ELSE frames
    /\ posts' = [posts EXCEPT ![m] = "asked"]

\* The socket takes the frame if it is open by now, REST the message otherwise.
Dispatch(m) ==
    IF threadSocket.state = "open"
    THEN frames' = Append(frames, m) /\ posts' = [posts EXCEPT ![m] = "idle"]
    ELSE posts' = [posts EXCEPT ![m] = "asked"] /\ UNCHANGED frames

\* sendDraft, up to the upload if there is one.
SendDraft ==
    LET m == screen.draft IN
    /\ m # Nothing /\ tries[m] < MaxTries
    /\ posts[m] = "idle"
    /\ \A k \in WithFile : posts[k] # "uploading"
    /\ screen' = [screen EXCEPT !.pending = @ \cup {m}, !.draft = Nothing]
    /\ tries' = [tries EXCEPT ![m] = @ + 1]
    /\ IF m \in WithFile
       THEN posts' = [posts EXCEPT ![m] = "uploading"] /\ UNCHANGED frames
       ELSE Dispatch(m)
    /\ UNCHANGED <<stored, hidden, ended, threadSocket, events, loads>>

Uploaded(m) ==
    /\ posts[m] = "uploading"
    /\ Dispatch(m)
    /\ UNCHANGED <<stored, hidden, ended, threadSocket, events, loads, screen, tries>>

\* The catch: the bubble goes, the text returns to an empty input.
SendFailed(m) ==
    /\ posts' = [posts EXCEPT ![m] = "idle"]
    /\ screen' = [screen EXCEPT !.pending = @ \ {m},
                                !.draft = IF @ = Nothing THEN m ELSE @]

\* The upload fails, a request or its answer is lost, or notifying the others has failed
\* after the insert.
PostFails(m) ==
    /\ posts[m] # "idle"
    /\ SendFailed(m)
    /\ UNCHANGED <<stored, hidden, ended, threadSocket, frames, events, loads, tries>>

PostAnswered(m) ==
    /\ posts[m] = "stored"
    /\ posts' = [posts EXCEPT ![m] = "idle"]
    /\ StartsLoad
    /\ UNCHANGED <<stored, hidden, ended, threadSocket, frames, events, screen, tries>>

\* Focus, visibility, network back.
Focus ==
    /\ FreeLoads # {}
    /\ StartsLoad
    /\ UNCHANGED <<stored, hidden, ended, threadSocket, frames, events, posts, screen, tries>>

\* Slip: an answer is merged into what is already shown only if it is longer.
ReadLoadIfLonger(l) ==
    /\ loads[l].step = "answered"
    /\ screen' = [screen EXCEPT
         !.shown = IF Cardinality(loads[l].read) > Cardinality(@) + 1 THEN loads[l].read ELSE @,
         !.pending = {}]
    /\ loads' = [loads EXCEPT ![l] = NoLoad]
    /\ UNCHANGED <<stored, hidden, ended, threadSocket, frames, events, posts, tries>>

\* The answer replaces what was shown, and the bubbles go.
ReadLoad(l) ==
    /\ loads[l].step = "answered"
    /\ screen' = [screen EXCEPT !.shown = loads[l].read, !.pending = {}]
    /\ loads' = [loads EXCEPT ![l] = NoLoad]
    /\ UNCHANGED <<stored, hidden, ended, threadSocket, frames, events, posts, tries>>

LoadFails(l) ==
    /\ loads[l].step = "answered"
    /\ loads' = [loads EXCEPT ![l] = NoLoad]
    /\ UNCHANGED <<stored, hidden, ended, threadSocket, frames, events, posts, screen, tries>>

ReadEvent ==
    /\ events # <<>> /\ threadSocket.state = "open"
    /\ events' = Tail(events)
    /\ IF Head(events) = "new" THEN StartsLoad /\ UNCHANGED screen
       ELSE screen' = [screen EXCEPT !.pending = {}] /\ UNCHANGED loads
    /\ UNCHANGED <<stored, hidden, ended, threadSocket, frames, posts, tries>>

\* onopen; the page refetches on every new connection.
ThreadSocketOpens ==
    /\ threadSocket.state = "closed"
    /\ threadSocket' = [state |-> "open", tries |-> 0, sawEnd |-> ended]
    /\ StartsLoad
    /\ UNCHANGED <<stored, hidden, ended, frames, events, posts, screen, tries>>

\* onclose: what was on its way in either direction is lost.
ThreadSocketCloses ==
    /\ threadSocket.state # "dead"
    /\ threadSocket' = IF threadSocket.tries < MaxThreadRetries
                 THEN [threadSocket EXCEPT !.state = "closed", !.tries = @ + 1]
                 ELSE [threadSocket EXCEPT !.state = "dead"]
    /\ frames' = <<>> /\ events' = <<>>
    /\ UNCHANGED <<stored, hidden, ended, posts, loads, screen, tries>>

-----------------------------------------------------------------------------
(* The server. *)

\* send_message refuses an ended thread, and any attachment: it asks the id it is
\* given for its purpose.
Refuses(m, seenEnd) == seenEnd \/ m \in WithFile

\* The consumer tests the thread it loaded when the socket connected.  The insert
\* is a transaction of its own: notifying the others may still fail.
ServeFrame ==
    LET m == Head(frames) IN
    /\ frames # <<>> /\ threadSocket.state = "open"
    /\ frames' = Tail(frames)
    /\ \/ /\ Refuses(m, threadSocket.sawEnd)
          /\ events' = Append(events, "error")
          /\ UNCHANGED stored
       \/ /\ ~Refuses(m, threadSocket.sawEnd)
          /\ Store(m)
          /\ events' \in {Append(events, "new"), Append(events, "error")}
    /\ UNCHANGED <<hidden, ended, threadSocket, posts, loads, screen, tries>>

ServePost(m) ==
    /\ posts[m] = "asked"
    /\ IF Refuses(m, ended) THEN SendFailed(m) /\ UNCHANGED stored
       ELSE Store(m) /\ posts' = [posts EXCEPT ![m] = "stored"] /\ UNCHANGED screen
    /\ UNCHANGED <<hidden, ended, threadSocket, frames, events, loads, tries>>

\* The other side sends: broadcast if it came over a socket, silent over REST.
OtherSends(m) ==
    /\ stored[m] = 0 /\ ~ended
    /\ Store(m)
    /\ events' \in {events, IF threadSocket.state = "open" THEN Append(events, "new") ELSE events}
    /\ UNCHANGED <<hidden, ended, threadSocket, frames, posts, loads, screen, tries>>

\* The view leaves out what is hidden.
ServeLoad(l) ==
    /\ loads[l].step = "asked"
    /\ loads' = [loads EXCEPT ![l] = [step |-> "answered", read |-> Visible]]
    /\ UNCHANGED <<stored, hidden, ended, threadSocket, frames, events, posts, screen, tries>>

\* Staff hide a message; nobody is told (shown again, it is like one that comes in).
\* Bound: a run sees the context of its thread end or a message hidden, not both.
HideMessage(m) ==
    /\ m \in Moderated \ hidden /\ stored[m] > 0 /\ ~ended
    /\ hidden' = hidden \cup {m}
    /\ UNCHANGED <<stored, ended, threadSocket, frames, events, posts, loads, screen, tries>>

ContextEnds ==
    /\ ~ended /\ hidden = {}
    /\ ended' = TRUE
    /\ UNCHANGED <<stored, hidden, threadSocket, frames, events, posts, loads, screen, tries>>

ConversationNext ==
    \/ \E m \in Mine : Type(m) \/ Uploaded(m) \/ PostFails(m) \/ PostAnswered(m) \/ ServePost(m)
    \/ SendDraft \/ Focus \/ ReadEvent \/ ThreadSocketOpens \/ ThreadSocketCloses \/ ServeFrame
    \/ \E l \in Loads : ServeLoad(l) \/ ReadLoad(l) \/ LoadFails(l)
    \/ \E m \in Theirs : OtherSends(m)
    \/ \E m \in Moderated : HideMessage(m)
    \/ ContextEnds

ConversationSpec == ConversationInit /\ [][ConversationNext]_threadVars

-----------------------------------------------------------------------------
(* Properties. *)

\* messages/[threadId]/page.tsx:121-127: a submission is stored at most once, by the
\* socket or by REST, however the socket comes and goes around it.
SentOnce == \A m \in Mine : stored[m] <= tries[m]

\* use-thread-socket.ts:7-9: with the tab coming back into focus, the page ends up
\* showing exactly what is stored and not hidden, with no bubble left over, without any
\* socket: a message hidden while an older answer is on its way does not stay.
StoredIsShown == <>[](screen.shown = Visible /\ screen.pending = {})
=============================================================================
