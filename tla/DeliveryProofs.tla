--------------------------- MODULE DeliveryProofs ---------------------------
(***************************************************************************)
(* Proofs that no text of a thread is stored more often than it was sent   *)
(* and no mail on record is sent again, for any number of texts,           *)
(* notifications, attempts and reconnects; the types of both; that the     *)
(* page shows only what the table holds, however the answers overtake each *)
(* other; and that a delivery that has ended stays ended.                  *)
(***************************************************************************)
EXTENDS Conversation, Notifications, FiniteSetTheorems, TLAPS

-----------------------------------------------------------------------------
(* The thread. *)

Framed(m) == \E i \in 1 .. Len(frames) : frames[i] = m

SentTypes ==
    /\ stored \in [Texts -> Nat]
    /\ tries \in [Mine -> Nat]
    /\ frames \in Seq(Mine)
    /\ posts \in [Mine -> {"idle", "uploading", "asked", "stored"}]
    /\ screen \in [shown : SUBSET Texts, pending : SUBSET Mine, draft : Mine \cup {Nothing}]

\* A submission is in one place: in the input, in a frame, or on its way over REST; and
\* one that can still be stored has been counted and not been stored yet.
OnePlace(m) ==
    /\ stored[m] <= tries[m]
    /\ Framed(m) => posts[m] = "idle" /\ screen.draft # m /\ stored[m] < tries[m]
    /\ posts[m] \in {"uploading", "asked"} => stored[m] < tries[m]
    /\ posts[m] # "idle" => screen.draft # m /\ tries[m] > 0

SentInv ==
    /\ SentTypes
    /\ \A i, j \in 1 .. Len(frames) : frames[i] = frames[j] => i = j
    /\ \A m \in Mine : OnePlace(m)

\* Loading threads shows texts and touches nothing else of a submission.
LoadsTyped == loads \in [Loads -> [step : {"idle", "asked", "answered"}, read : SUBSET Texts]]

\* A text that is in no frame yet goes out in one more frame.
LEMMA FrameAppended ==
    ASSUME frames \in Seq(Mine), NEW m \in Mine, ~Framed(m),
           \A i, j \in 1 .. Len(frames) : frames[i] = frames[j] => i = j,
           frames' = Append(frames, m)
    PROVE  /\ frames' \in Seq(Mine)
           /\ \A i, j \in 1 .. Len(frames') : frames'[i] = frames'[j] => i = j
           /\ \A k \in Mine : Framed(k)' => k = m \/ Framed(k)
BY DEF Framed

\* What is left after the first frame was there before, and the first is gone.
LEMMA FrameTaken ==
    ASSUME frames \in Seq(Mine), frames # <<>>,
           \A i, j \in 1 .. Len(frames) : frames[i] = frames[j] => i = j,
           frames' = Tail(frames)
    PROVE  /\ frames' \in Seq(Mine)
           /\ \A i, j \in 1 .. Len(frames') : frames'[i] = frames'[j] => i = j
           /\ \A k \in Mine : Framed(k)' => Framed(k) /\ k # Head(frames)
           /\ Head(frames) \in Mine /\ Framed(Head(frames))
<1>1. /\ Len(frames) \in Nat \ {0} /\ Len(frames') = Len(frames) - 1
      /\ \A i \in 1 .. Len(frames') : frames'[i] = frames[i + 1]
      /\ Head(frames) = frames[1]
  OBVIOUS
<1>2. \A i \in 1 .. Len(frames') : i + 1 \in 1 .. Len(frames) /\ i + 1 # 1
  BY <1>1
<1> QED
  BY <1>1, <1>2 DEF Framed

\* The invariant behind SentOnce.
THEOREM SentInvariant == ConversationSpec => [](SentInv /\ LoadsTyped)
<1>1. ConversationInit => SentInv /\ LoadsTyped
  BY ConversationAssumption DEF ConversationInit, SentInv, SentTypes, LoadsTyped, OnePlace, Framed,
     Texts, NoLoad
<1>2. SentInv /\ LoadsTyped /\ [ConversationNext]_threadVars => SentInv' /\ LoadsTyped'
  <2> SUFFICES ASSUME SentInv, LoadsTyped, [ConversationNext]_threadVars
               PROVE  SentInv' /\ LoadsTyped'
    OBVIOUS
  <2> USE ConversationAssumption
  <2>1. StartsLoad => LoadsTyped'
    <3> SUFFICES ASSUME StartsLoad PROVE LoadsTyped'
      OBVIOUS
    <3>1. CASE FreeLoads = {}
      BY <3>1 DEF StartsLoad, LoadsTyped
    <3>2. CASE FreeLoads # {}
      <4> DEFINE l == CHOOSE l \in FreeLoads : TRUE
      <4>1. l \in Loads
        BY <3>2 DEF FreeLoads
      <4> HIDE DEF l
      <4>2. loads' = [loads EXCEPT ![l] = [loads[l] EXCEPT !.step = "asked"]]
        BY <3>2 DEF StartsLoad, l
      <4>3. [loads[l] EXCEPT !.step = "asked"]
              \in [step : {"idle", "asked", "answered"}, read : SUBSET Texts]
        BY <4>1 DEF LoadsTyped
      <4> QED
        BY <4>1, <4>2, <4>3 DEF LoadsTyped
    <3> QED
      BY <3>1, <3>2
  <2>2. ASSUME LoadsTyped', UNCHANGED <<stored, tries, frames, posts>>,
               screen' \in [shown : SUBSET Texts, pending : SUBSET Mine,
                            draft : {screen.draft}]
        PROVE  SentInv' /\ LoadsTyped'
    <3>1. screen'.draft = screen.draft
      BY <2>2
    <3> QED
      BY <2>2, <3>1 DEF SentInv, SentTypes, OnePlace, Framed
  <2>3. ASSUME NEW m \in Mine, Type(m) PROVE SentInv' /\ LoadsTyped'
    <3>1. posts[m] = "idle" /\ ~Framed(m)
      BY <2>3 DEF Type, SentInv, SentTypes, OnePlace, Texts
    <3>2. screen'.draft = m /\ screen' \in [shown : SUBSET Texts, pending : SUBSET Mine,
                                            draft : Mine \cup {Nothing}]
      BY <2>3 DEF Type, SentInv, SentTypes
    <3>3. UNCHANGED <<stored, tries, frames, posts, loads>>
      BY <2>3 DEF Type
    <3>4. SentTypes' /\ LoadsTyped'
      BY <3>2, <3>3 DEF SentInv, SentTypes, LoadsTyped
    <3>5. ASSUME NEW k \in Mine PROVE OnePlace(k)'
      <4>1. OnePlace(k) /\ (k = m => posts[k] = "idle" /\ ~Framed(k))
        BY <3>1 DEF SentInv
      <4>2. k # m => screen'.draft # k
        BY <3>2
      <4>3. Framed(k)' <=> Framed(k)
        BY <3>3 DEF Framed
      <4> QED
        BY <3>3, <4>1, <4>2, <4>3 DEF OnePlace
    <3> QED
      BY <3>3, <3>4, <3>5 DEF SentInv
  <2>4. CASE SendDraft
    <3> DEFINE m == screen.draft
    <3>1. /\ m \in Mine /\ posts[m] = "idle" /\ ~Framed(m)
          /\ tries' = [tries EXCEPT ![m] = @ + 1] /\ UNCHANGED <<stored, loads>>
      BY <2>4 DEF SendDraft, SentInv, SentTypes, OnePlace
    <3>2. screen' \in [shown : SUBSET Texts, pending : SUBSET Mine, draft : {Nothing}]
      BY <2>4, <3>1 DEF SendDraft, SentInv, SentTypes
    <3>5. /\ tries' \in [Mine -> Nat] /\ tries'[m] = tries[m] + 1 /\ stored[m] <= tries[m]
          /\ \A k \in Mine : k # m => tries'[k] = tries[k]
          /\ \A k \in Mine : stored[k] \in Nat /\ tries[k] \in Nat /\ screen'.draft # k
      BY <3>1, <3>2, ConversationAssumption DEF SentInv, SentTypes, OnePlace, Texts
    <3> HIDE DEF m
    <3>3. CASE frames' = Append(frames, m) /\ posts' = [posts EXCEPT ![m] = "idle"]
      <4>1. /\ frames' \in Seq(Mine)
            /\ \A i, j \in 1 .. Len(frames') : frames'[i] = frames'[j] => i = j
            /\ \A k \in Mine : Framed(k)' => k = m \/ Framed(k)
        BY <3>1, <3>3, FrameAppended DEF SentInv, SentTypes
      <4>2. posts' = posts
        <5>1. posts \in [Mine -> {"idle", "uploading", "asked", "stored"}]
          BY DEF SentInv, SentTypes
        <5>2. posts[m] = "idle" /\ posts' = [posts EXCEPT ![m] = "idle"]
          BY <3>1, <3>3
        <5> QED
          BY <5>1, <5>2
      <4>3. ASSUME NEW k \in Mine PROVE OnePlace(k)'
        BY <3>1, <3>5, <4>1, <4>2 DEF SentInv, OnePlace
      <4> QED
        BY <3>1, <3>2, <3>5, <4>1, <4>2, <4>3 DEF SentInv, SentTypes, LoadsTyped
    <3>4. CASE UNCHANGED frames /\ \E s \in {"uploading", "asked"} : posts' = [posts EXCEPT ![m] = s]
      <4>1. posts' \in [Mine -> {"idle", "uploading", "asked", "stored"}]
            /\ \A k \in Mine : k # m => posts'[k] = posts[k]
        <5>1. PICK s \in {"uploading", "asked"} : posts' = [posts EXCEPT ![m] = s]
          BY <3>4
        <5> QED
          BY <5>1 DEF SentInv, SentTypes
      <4>2. ASSUME NEW k \in Mine PROVE OnePlace(k)'
        BY <3>1, <3>4, <3>5, <4>1 DEF SentInv, OnePlace, Framed
      <4> QED
        BY <3>1, <3>2, <3>4, <3>5, <4>1, <4>2 DEF SentInv, SentTypes, LoadsTyped
    <3> QED
      BY <2>4, <3>3, <3>4 DEF m, SendDraft, Dispatch
  <2>5. ASSUME NEW m \in Mine, Uploaded(m) PROVE SentInv' /\ LoadsTyped'
    <3>1. posts[m] = "uploading" /\ ~Framed(m) /\ UNCHANGED <<stored, tries, screen, loads>>
      BY <2>5 DEF Uploaded, SentInv, OnePlace
    <3>4. OnePlace(m) /\ stored[m] < tries[m] /\ screen.draft # m
      BY <3>1 DEF SentInv, OnePlace
    <3>2. CASE frames' = Append(frames, m) /\ posts' = [posts EXCEPT ![m] = "idle"]
      <4>1. /\ frames' \in Seq(Mine)
            /\ \A i, j \in 1 .. Len(frames') : frames'[i] = frames'[j] => i = j
            /\ \A k \in Mine : Framed(k)' => k = m \/ Framed(k)
        BY <3>1, <3>2, FrameAppended DEF SentInv, SentTypes
      <4>2. /\ posts' \in [Mine -> {"idle", "uploading", "asked", "stored"}]
            /\ posts'[m] = "idle"
            /\ \A k \in Mine : k # m => posts'[k] = posts[k]
        BY <3>2 DEF SentInv, SentTypes
      <4>3. OnePlace(m)'
        BY <3>1, <3>4, <4>2 DEF OnePlace
      <4>4. ASSUME NEW k \in Mine, k # m PROVE OnePlace(k)'
        BY <3>1, <4>1, <4>2, <4>4 DEF SentInv, OnePlace
      <4> QED
        BY <3>1, <4>1, <4>2, <4>3, <4>4 DEF SentInv, SentTypes, LoadsTyped
    <3>3. CASE UNCHANGED frames /\ posts' = [posts EXCEPT ![m] = "asked"]
      <4>1. /\ posts' \in [Mine -> {"idle", "uploading", "asked", "stored"}]
            /\ posts'[m] = "asked"
            /\ \A k \in Mine : k # m => posts'[k] = posts[k]
        BY <3>3 DEF SentInv, SentTypes
      <4>2. ASSUME NEW k \in Mine PROVE OnePlace(k)'
        <5>1. Framed(k)' <=> Framed(k)
          BY <3>3 DEF Framed
        <5> QED
          BY <3>1, <3>4, <4>1, <5>1 DEF SentInv, OnePlace
      <4> QED
        BY <3>1, <3>3, <4>1, <4>2 DEF SentInv, SentTypes, LoadsTyped
    <3> QED
      BY <2>5, <3>2, <3>3 DEF Uploaded, Dispatch
  <2>6. ASSUME NEW m \in Mine, PostFails(m) PROVE SentInv' /\ LoadsTyped'
    <3>1. ~Framed(m) /\ posts' = [posts EXCEPT ![m] = "idle"]
          /\ UNCHANGED <<stored, tries, frames, loads>>
      BY <2>6 DEF PostFails, SendFailed, SentInv, OnePlace
    <3>2. /\ screen' \in [shown : SUBSET Texts, pending : SUBSET Mine, draft : Mine \cup {Nothing}]
          /\ screen'.draft \in {m, screen.draft}
      BY <2>6 DEF PostFails, SendFailed, SentInv, SentTypes
    <3> QED
      BY <3>1, <3>2 DEF SentInv, SentTypes, LoadsTyped, OnePlace, Framed
  <2>7. ASSUME NEW m \in Mine, PostAnswered(m) PROVE SentInv' /\ LoadsTyped'
    BY <2>1, <2>7 DEF PostAnswered, SentInv, SentTypes, OnePlace, Framed
  <2>8. ASSUME NEW m \in Mine, ServePost(m) PROVE SentInv' /\ LoadsTyped'
    <3>1. posts[m] = "asked" /\ ~Framed(m) /\ UNCHANGED <<tries, frames, loads>>
      BY <2>8 DEF ServePost, SentInv, OnePlace
    <3>2. \/ /\ posts' = [posts EXCEPT ![m] = "stored"] /\ UNCHANGED screen
             /\ stored' = [stored EXCEPT ![m] = @ + 1]
          \/ SendFailed(m) /\ UNCHANGED stored
      BY <2>8 DEF ServePost, Store
    <3>3. CASE SendFailed(m) /\ UNCHANGED stored
      <4>1. posts' = [posts EXCEPT ![m] = "idle"] /\ UNCHANGED <<stored, tries, frames, loads>>
        BY <3>1, <3>3 DEF SendFailed
      <4>2. /\ screen' \in [shown : SUBSET Texts, pending : SUBSET Mine,
                            draft : Mine \cup {Nothing}]
            /\ screen'.draft \in {m, screen.draft}
        BY <3>3 DEF SendFailed, SentInv, SentTypes
      <4> QED
        BY <3>1, <4>1, <4>2 DEF SentInv, SentTypes, LoadsTyped, OnePlace, Framed
    <3>4. CASE /\ posts' = [posts EXCEPT ![m] = "stored"] /\ UNCHANGED screen
               /\ stored' = [stored EXCEPT ![m] = @ + 1]
      <4>1. stored[m] < tries[m] /\ m \in Texts /\ stored \in [Texts -> Nat] /\ tries[m] \in Nat
        BY <3>1 DEF SentInv, SentTypes, OnePlace, Texts
      <4>2. /\ stored' \in [Texts -> Nat] /\ stored'[m] <= tries[m]
            /\ \A k \in Mine : k # m => stored'[k] = stored[k]
        BY <3>4, <4>1 DEF Texts
      <4>3. /\ posts' \in [Mine -> {"idle", "uploading", "asked", "stored"}]
            /\ posts'[m] = "stored"
            /\ \A k \in Mine : k # m => posts'[k] = posts[k]
        BY <3>4 DEF SentInv, SentTypes
      <4>4. OnePlace(m)'
        BY <3>1, <3>4, <4>2, <4>3 DEF SentInv, OnePlace, Framed
      <4>5. ASSUME NEW k \in Mine, k # m PROVE OnePlace(k)'
        BY <3>1, <3>4, <4>2, <4>3, <4>5 DEF SentInv, OnePlace, Framed
      <4> QED
        BY <3>1, <3>4, <4>2, <4>3, <4>4, <4>5 DEF SentInv, SentTypes, LoadsTyped
    <3> QED
      BY <3>2, <3>3, <3>4
  <2>9. CASE ServeFrame
    <3> DEFINE m == Head(frames)
    <3>1. /\ frames # <<>> /\ frames' = Tail(frames) /\ UNCHANGED <<tries, posts, screen, loads>>
          /\ stored' \in {stored, [stored EXCEPT ![m] = @ + 1]}
      BY <2>9 DEF ServeFrame, Store
    <3>2. /\ frames' \in Seq(Mine) /\ m \in Mine /\ Framed(m)
          /\ \A i, j \in 1 .. Len(frames') : frames'[i] = frames'[j] => i = j
          /\ \A k \in Mine : Framed(k)' => Framed(k) /\ k # m
      BY <3>1, FrameTaken DEF SentInv, SentTypes
    <3>3. stored' \in [Texts -> Nat] /\ stored'[m] <= tries[m]
          /\ \A k \in Mine : k # m => stored'[k] = stored[k]
      <4>1. stored[m] < tries[m] /\ m \in Texts /\ stored \in [Texts -> Nat] /\ tries[m] \in Nat
        BY <3>2 DEF SentInv, SentTypes, OnePlace, Texts
      <4> HIDE DEF m
      <4>2. CASE stored' = stored
        BY <4>1, <4>2
      <4>3. CASE stored' = [stored EXCEPT ![m] = @ + 1]
        BY <4>1, <4>3 DEF Texts
      <4> QED
        BY <3>1, <4>2, <4>3
    <3>4. posts[m] = "idle"
      BY <3>2 DEF SentInv, OnePlace
    <3> QED
      BY <3>1, <3>2, <3>3, <3>4 DEF SentInv, SentTypes, LoadsTyped, OnePlace
  <2>10. ASSUME NEW m \in Theirs, OtherSends(m) PROVE SentInv' /\ LoadsTyped'
    <3>1. /\ stored' \in [Texts -> Nat] /\ \A k \in Mine : stored'[k] = stored[k]
          /\ UNCHANGED <<tries, frames, posts, screen, loads>>
      BY <2>10 DEF OtherSends, Store, SentInv, SentTypes, Texts
    <3> QED
      BY <3>1 DEF SentInv, SentTypes, LoadsTyped, OnePlace, Framed
  <2>11. CASE ThreadSocketCloses
    <3>1. frames' = <<>> /\ UNCHANGED <<stored, tries, posts, screen, loads>>
      BY <2>11 DEF ThreadSocketCloses
    <3> QED
      BY <3>1 DEF SentInv, SentTypes, LoadsTyped, OnePlace, Framed
  <2>12. CASE Focus \/ ThreadSocketOpens
    BY <2>1, <2>2, <2>12 DEF Focus, ThreadSocketOpens, SentInv, SentTypes
  <2>13. CASE ReadEvent
    BY <2>1, <2>2, <2>13 DEF ReadEvent, SentInv, SentTypes, LoadsTyped
  <2>14. ASSUME NEW l \in Loads, ReadLoad(l) PROVE SentInv' /\ LoadsTyped'
    <3>1. LoadsTyped' /\ UNCHANGED <<stored, tries, frames, posts>>
      BY <2>14 DEF ReadLoad, LoadsTyped, NoLoad
    <3>2. screen' = [screen EXCEPT !.shown = loads[l].read, !.pending = {}]
          /\ loads[l].read \in SUBSET Texts
      BY <2>14 DEF ReadLoad, LoadsTyped
    <3>3. screen' \in [shown : SUBSET Texts, pending : SUBSET Mine, draft : {screen.draft}]
      BY <3>2 DEF SentInv, SentTypes
    <3> QED
      BY <2>2, <3>1, <3>3
  <2>15. ASSUME NEW l \in Loads, ServeLoad(l) \/ LoadFails(l) PROVE SentInv' /\ LoadsTyped'
    <3>1. LoadsTyped'
      BY <2>15 DEF ServeLoad, LoadFails, LoadsTyped, NoLoad, Visible
    <3>2. UNCHANGED <<stored, tries, frames, posts, screen>>
      BY <2>15 DEF ServeLoad, LoadFails
    <3>3. screen' \in [shown : SUBSET Texts, pending : SUBSET Mine, draft : {screen.draft}]
      BY <3>2 DEF SentInv, SentTypes
    <3> QED
      BY <2>2, <3>1, <3>2, <3>3
  <2>16. CASE ContextEnds \/ (\E m \in Moderated : HideMessage(m)) \/ UNCHANGED threadVars
    BY <2>2, <2>16 DEF ContextEnds, HideMessage, threadVars, SentInv, SentTypes, LoadsTyped
  <2> QED
    BY <2>3, <2>4, <2>5, <2>6, <2>7, <2>8, <2>9, <2>10, <2>11, <2>12, <2>13, <2>14, <2>15, <2>16
       DEF ConversationNext
<1> QED
  BY <1>1, <1>2, PTL DEF ConversationSpec

\* No text is stored more often than it was submitted, over whichever transport.
THEOREM TextsAreSentOnce == ConversationSpec => []SentOnce
<1>1. SentInv => SentOnce
  BY DEF SentInv, OnePlace, SentOnce
<1> QED
  BY <1>1, SentInvariant, PTL

-----------------------------------------------------------------------------
(* The notifications: the types, and what a run of the task remembers. *)

\* A task comes with its row, and a run that may still mail has loaded what is on record:
\* the mail of a notification is recorded by its own task only.
TaskFits(n) ==
    /\ rows[n] = "none" => At(n, "none")
    /\ tasks[n].step \in {"pushing", "stamping", "mailing"} /\ n \in stamps.emailed
         => tasks[n].mailed

NoteInv == NotificationsTypeOK /\ \A n \in Notes : TaskFits(n)

\* A task that starts, or is over, counts nothing.
LEMMA FreshTask ==
    /\ NoTask \in Task
    /\ \A s \in TaskSteps :
         [NoTask EXCEPT !.step = s] \in Task /\ [NoTask EXCEPT !.step = s].step = s
<1>1. 0 \in 0 .. MaxAttempts - 1 /\ 0 \in 0 .. MaxStops
  BY NotificationsAssumption
<1> QED
  BY <1>1 DEF NoTask, Task, TaskSteps

\* A task that goes on keeps its counts and what its run has loaded.
LEMMA StepTaken ==
    ASSUME NoteInv, NEW n \in Notes, NEW s \in TaskSteps, GoTo(n, s)
    PROVE  \E t \in Task : /\ tasks' = [tasks EXCEPT ![n] = t]
                           /\ t.step = s /\ t.mailed = tasks[n].mailed
<1> DEFINE t == [tasks[n] EXCEPT !.step = s]
<1>1. t \in Task /\ t.step = s /\ t.mailed = tasks[n].mailed
  BY DEF NoteInv, NotificationsTypeOK, Task
<1>2. tasks' = [tasks EXCEPT ![n] = t]
  BY DEF GoTo
<1> HIDE DEF t
<1> QED
  BY <1>1, <1>2

\* A run that raises leaves the task queued, or given up after the last attempt.
LEMMA RunRaised ==
    ASSUME NoteInv, NEW n \in Notes, Raises(n)
    PROVE  \E t \in Task : /\ tasks' = [tasks EXCEPT ![n] = t]
                           /\ t.step \in {"queued", "failed"}
                           /\ t.step = "failed" => tasks[n].attempt = MaxAttempts - 1
<1> USE NotificationsAssumption DEF Task, TaskSteps
<1>1. tasks[n] \in Task /\ tasks[n].attempt \in 0 .. MaxAttempts - 1
  BY DEF NoteInv, NotificationsTypeOK
<1>2. CASE tasks[n].attempt + 1 < MaxAttempts
  <2> DEFINE t == [tasks[n] EXCEPT !.attempt = tasks[n].attempt + 1, !.step = "queued",
                                   !.mailed = FALSE]
  <2>1. tasks[n].attempt + 1 \in 0 .. MaxAttempts - 1
    BY <1>1, <1>2
  <2>2. t \in Task /\ t.step = "queued"
    BY <1>1, <2>1
  <2>3. tasks' = [tasks EXCEPT ![n] = t]
    BY <1>2 DEF Raises
  <2> HIDE DEF t
  <2> QED
    BY <2>2, <2>3
<1>3. CASE ~(tasks[n].attempt + 1 < MaxAttempts)
  <2> DEFINE t == [NoTask EXCEPT !.step = "failed"]
  <2>1. t \in Task /\ t.step = "failed"
    BY FreshTask
  <2>2. tasks' = [tasks EXCEPT ![n] = t]
    BY <1>3 DEF Raises
  <2>3. tasks[n].attempt = MaxAttempts - 1
    BY <1>1, <1>3
  <2> HIDE DEF t
  <2> QED
    BY <2>1, <2>2, <2>3
<1> QED
  BY <1>2, <1>3

\* One task moves, and records at most its own mail.
LEMMA OneTaskMoves ==
    ASSUME NoteInv, NEW n \in Notes, NEW t \in Task, tasks' = [tasks EXCEPT ![n] = t],
           ~At(n, "none"), UNCHANGED <<rows, pageSide>>, pushes' \subseteq Notes,
           stamps' \in [pushed : SUBSET Notes, emailed : SUBSET Notes],
           stamps'.emailed \subseteq stamps.emailed \cup {n},
           t.step \in {"pushing", "stamping", "mailing"} /\ n \in stamps'.emailed => t.mailed
    PROVE  NoteInv'
<1>1. tasks \in [Notes -> Task]
  BY DEF NoteInv, NotificationsTypeOK
<1>2. tasks' \in [Notes -> Task] /\ tasks'[n] = t /\ \A k \in Notes : k # n => tasks'[k] = tasks[k]
  BY <1>1
<1>3. NotificationsTypeOK'
  BY <1>2 DEF NoteInv, NotificationsTypeOK, pageSide
<1>4. TaskFits(n)'
  BY <1>2 DEF NoteInv, TaskFits, At
<1>5. ASSUME NEW k \in Notes, k # n PROVE TaskFits(k)'
  BY <1>2, <1>5 DEF NoteInv, TaskFits, At
<1> QED
  BY <1>3, <1>4, <1>5 DEF NoteInv

\* A list request is free, asked, counted or answered, and counts at most all of them.
LEMMA FetchesTyped ==
    ASSUME NotificationsTypeOK
    PROVE  /\ NoFetch \in Fetch
           /\ Listed \in SUBSET Notes /\ Cardinality(Unread) \in 0 .. Cardinality(Notes)
           /\ \A f \in Fetches : Asks(f) => fetches' \in [Fetches -> Fetch]
<1>1. Unread \in SUBSET Notes /\ Listed \in SUBSET Notes
  BY DEF Unread, Listed
<1>2. Cardinality(Unread) \in 0 .. Cardinality(Notes) /\ 0 \in 0 .. Cardinality(Notes)
  <2>1. IsFiniteSet(Unread) /\ Cardinality(Unread) <= Cardinality(Notes)
    BY <1>1, NotificationsAssumption, FS_Subset
  <2>2. Cardinality(Unread) \in Nat /\ Cardinality(Notes) \in Nat
    BY <2>1, NotificationsAssumption, FS_CardinalityType
  <2> QED
    BY <2>1, <2>2
<1>3. NoFetch \in Fetch
  BY <1>2 DEF NoFetch, Fetch
<1>4. [NoFetch EXCEPT !.step = "asked"] \in Fetch
  BY <1>2 DEF NoFetch, Fetch
<1> QED
  BY <1>1, <1>2, <1>3, <1>4 DEF Asks, NotificationsTypeOK

\* The badge never counts more than there are, no attempt is counted beyond the limit,
\* and what a run has loaded stays true of the record while it may still mail.
THEOREM NoteInvariant == NotificationsSpec => []NoteInv
<1>1. NotificationsInit => NoteInv
  <2> SUFFICES ASSUME NotificationsInit PROVE NoteInv
    OBVIOUS
  <2>1. Cardinality(Notes) \in Nat
    BY NotificationsAssumption, FS_CardinalityType
  <2>2. 0 \in 0 .. MaxAttempts - 1 /\ 0 \in 0 .. MaxStops /\ 0 \in 0 .. MaxReconnects
        /\ 0 \in 0 .. Cardinality(Notes)
    BY <2>1, NotificationsAssumption
  <2> USE DEF NotificationsInit
  <2>3. NoFetch \in Fetch
    BY <2>2 DEF Fetch, NoFetch
  <2>4. \A n \in Notes : TaskFits(n)
    BY DEF TaskFits, At, NoTask
  <2>5. NotificationsTypeOK
    BY <2>2, <2>3, FreshTask DEF NotificationsTypeOK, RowStates
  <2> QED
    BY <2>4, <2>5 DEF NoteInv
<1>2. NoteInv /\ [NotificationsNext]_noteVars => NoteInv'
  <2> SUFFICES ASSUME NoteInv, [NotificationsNext]_noteVars PROVE NoteInv'
    OBVIOUS
  <2> USE NotificationsAssumption DEF pageSide, serverSide
  <2>1. ASSUME UNCHANGED <<rows, tasks, stamps>>,
               pushes' \subseteq Notes, fetches' \in [Fetches -> Fetch],
               bellSocket' \in [state : {"open", "closed", "dead"}, tries : 0 .. MaxReconnects],
               bell' \in [unread : 0 .. Cardinality(Notes), items : SUBSET Notes]
        PROVE  NoteInv'
    BY <2>1 DEF NoteInv, NotificationsTypeOK, TaskFits, At
  <2>2. ASSUME UNCHANGED <<tasks, stamps, pushes, bellSocket, bell>>,
               rows' \in [Notes -> RowStates], fetches' \in [Fetches -> Fetch],
               \A n \in Notes : rows'[n] = "none" => rows[n] = "none"
        PROVE  NoteInv'
    BY <2>2 DEF NoteInv, NotificationsTypeOK, TaskFits, At
  <2>3. ASSUME NEW n \in Notes, Notify(n) PROVE NoteInv'
    <3> DEFINE t == [NoTask EXCEPT !.step = "queued"]
    <3>1. t \in Task /\ t.step = "queued"
      BY FreshTask DEF TaskSteps
    <3>2. rows' = [rows EXCEPT ![n] = "unread"] /\ tasks' = [tasks EXCEPT ![n] = t]
          /\ UNCHANGED <<stamps, pushes, pageSide>>
      BY <2>3 DEF Notify
    <3> HIDE DEF t
    <3>3. tasks' \in [Notes -> Task] /\ rows' \in [Notes -> RowStates]
      BY <3>1, <3>2 DEF NoteInv, NotificationsTypeOK, RowStates
    <3>4. \A k \in Notes : TaskFits(k)'
      BY <3>1, <3>2 DEF NoteInv, NotificationsTypeOK, TaskFits, At
    <3> QED
      BY <3>2, <3>3, <3>4 DEF NoteInv, NotificationsTypeOK
  <2>4. ASSUME NEW n \in Notes, Raises(n), ~At(n, "none"),
               UNCHANGED <<rows, stamps, pageSide>>, pushes' \subseteq Notes
        PROVE  NoteInv'
    <3>1. PICK t \in Task : tasks' = [tasks EXCEPT ![n] = t] /\ t.step \in {"queued", "failed"}
      BY <2>4, RunRaised
    <3> QED
      BY <2>4, <3>1, OneTaskMoves DEF NoteInv, NotificationsTypeOK
  <2>5. ASSUME NEW n \in Notes, NEW s \in TaskSteps, GoTo(n, s), ~At(n, "none"),
               UNCHANGED <<rows, pageSide>>, pushes' \subseteq Notes,
               stamps' \in [pushed : SUBSET Notes, emailed : SUBSET Notes],
               \/ stamps'.emailed = stamps.emailed
                  /\ (s = "mailing" => tasks[n].step \in {"pushing", "stamping"})
                  /\ (s = "stamping" => At(n, "pushing")) /\ s # "pushing"
               \/ s = "acking" /\ stamps'.emailed \subseteq stamps.emailed \cup {n}
        PROVE  NoteInv'
    <3>1. PICK t \in Task : /\ tasks' = [tasks EXCEPT ![n] = t]
                            /\ t.step = s /\ t.mailed = tasks[n].mailed
      BY <2>5, StepTaken
    <3>2. t.step \in {"pushing", "stamping", "mailing"} /\ n \in stamps'.emailed => t.mailed
      BY <2>5, <3>1 DEF NoteInv, TaskFits, At
    <3> QED
      BY <2>5, <3>1, <3>2, OneTaskMoves
  <2>6. ASSUME NEW n \in Notes, StartTask(n) PROVE NoteInv'
    <3>1. CASE Raises(n)
      BY <2>4, <2>6, <3>1 DEF StartTask, At, NoteInv, NotificationsTypeOK
    <3>2. CASE ~Raises(n)
      <4> DEFINE t == [tasks[n] EXCEPT !.step = "pushing", !.mailed = n \in stamps.emailed]
      <4>1. t \in Task /\ (n \in stamps.emailed => t.mailed)
        <5>1. tasks[n] \in Task
          BY DEF NoteInv, NotificationsTypeOK
        <5>2. (n \in stamps.emailed) \in BOOLEAN
          OBVIOUS
        <5> QED
          BY <5>1, <5>2 DEF Task, TaskSteps
      <4>2. tasks' = [tasks EXCEPT ![n] = t]
        BY <2>6, <3>2 DEF StartTask
      <4> HIDE DEF t
      <4> QED
        BY <2>6, <4>1, <4>2, OneTaskMoves DEF StartTask, At, NoteInv, NotificationsTypeOK
    <3> QED
      BY <3>1, <3>2
  <2>7. ASSUME NEW n \in Notes, Push(n) PROVE NoteInv'
    <3>1. /\ At(n, "pushing") /\ pushes' \subseteq Notes /\ UNCHANGED <<rows, stamps, pageSide>>
          /\ Raises(n) \/ \E s \in {"mailing", "stamping"} : GoTo(n, s)
      BY <2>7 DEF Push, GoOnUnlessPruned, NoteInv, NotificationsTypeOK
    <3> QED
      BY <2>4, <2>5, <3>1 DEF NoteInv, NotificationsTypeOK, TaskSteps, At
  <2>8. ASSUME NEW n \in Notes, StampPushed(n) PROVE NoteInv'
    <3>1. CASE Raises(n) /\ rows[n] = "pruned"
      BY <2>4, <2>8, <3>1 DEF StampPushed, At, NoteInv, NotificationsTypeOK
    <3>2. CASE GoTo(n, "mailing")
      <4>1. /\ stamps' \in [pushed : SUBSET Notes, emailed : SUBSET Notes]
            /\ stamps'.emailed = stamps.emailed
        BY <2>8 DEF StampPushed, NoteInv, NotificationsTypeOK
      <4> QED
        BY <2>5, <2>8, <3>2, <4>1 DEF StampPushed, At, NoteInv, NotificationsTypeOK, TaskSteps
    <3> QED
      BY <2>8, <3>1, <3>2 DEF StampPushed, GoOnUnlessPruned
  <2>9. ASSUME NEW n \in Notes, SendMail(n) PROVE NoteInv'
    <3>1. /\ At(n, "mailing") /\ UNCHANGED <<rows, stamps, pushes, pageSide>>
          /\ Raises(n) \/ \E s \in {"acking", "recording"} : GoTo(n, s)
      BY <2>9 DEF SendMail
    <3> QED
      BY <2>4, <2>5, <3>1 DEF NoteInv, NotificationsTypeOK, TaskSteps, At
  <2>10. ASSUME NEW n \in Notes, RecordMail(n) PROVE NoteInv'
    <3>1. /\ stamps' \in [pushed : SUBSET Notes, emailed : SUBSET Notes]
          /\ stamps'.emailed \subseteq stamps.emailed \cup {n}
      BY <2>10 DEF RecordMail, NoteInv, NotificationsTypeOK
    <3> QED
      BY <2>5, <2>10, <3>1 DEF RecordMail, At, NoteInv, NotificationsTypeOK, TaskSteps
  <2>11. ASSUME NEW n \in Notes, AckTask(n) PROVE NoteInv'
    <3> DEFINE t == [NoTask EXCEPT !.step = "done"]
    <3>1. t \in Task /\ t.step = "done"
      BY FreshTask DEF TaskSteps
    <3>2. tasks' = [tasks EXCEPT ![n] = t]
      BY <2>11 DEF AckTask
    <3> HIDE DEF t
    <3> QED
      BY <2>11, <3>1, <3>2, OneTaskMoves DEF AckTask, At, NoteInv, NotificationsTypeOK
  <2>12. ASSUME NEW n \in Notes, WorkerStops(n) PROVE NoteInv'
    <3> DEFINE t == [tasks[n] EXCEPT !.step = "queued", !.stops = tasks[n].stops + 1,
                                     !.mailed = FALSE]
    <3>1. tasks[n] \in Task /\ tasks[n].stops + 1 \in 0 .. MaxStops
      BY <2>12 DEF WorkerStops, NoteInv, NotificationsTypeOK, Task
    <3>2. t \in Task /\ t.step = "queued"
      BY <3>1 DEF Task, TaskSteps
    <3>3. tasks' = [tasks EXCEPT ![n] = t]
      BY <2>12 DEF WorkerStops
    <3> HIDE DEF t
    <3> QED
      BY <2>12, <3>2, <3>3, OneTaskMoves DEF WorkerStops, At, NoteInv, NotificationsTypeOK
  <2>13. ASSUME NEW f \in Fetches, Poll(f) PROVE NoteInv'
    BY <2>1, <2>13, FetchesTyped DEF Poll, NoteInv, NotificationsTypeOK
  <2>14. ASSUME NEW f \in Fetches, CountUnread(f) \/ ListRows(f) PROVE NoteInv'
    <3>1. fetches[f] \in Fetch
      BY DEF NoteInv, NotificationsTypeOK
    <3>2. /\ [fetches[f] EXCEPT !.step = "counted", !.unread = Cardinality(Unread)] \in Fetch
          /\ [fetches[f] EXCEPT !.step = "answered", !.items = Listed] \in Fetch
      BY <3>1, FetchesTyped DEF Fetch, NoteInv
    <3>3. fetches' \in [Fetches -> Fetch] /\ UNCHANGED <<serverSide, pushes, bellSocket, bell>>
      BY <2>14, <3>2 DEF CountUnread, ListRows, NoteInv, NotificationsTypeOK
    <3> QED
      BY <2>1, <3>3 DEF NoteInv, NotificationsTypeOK
  <2>15. ASSUME NEW f \in Fetches, ReadList(f) \/ FetchFails(f) PROVE NoteInv'
    <3>1. fetches' = [fetches EXCEPT ![f] = NoFetch] /\ UNCHANGED <<serverSide, pushes, bellSocket>>
      BY <2>15 DEF ReadList, FetchFails
    <3>2. fetches' \in [Fetches -> Fetch]
      BY <3>1, FetchesTyped DEF NoteInv, NotificationsTypeOK
    <3>3. bell' \in [unread : 0 .. Cardinality(Notes), items : SUBSET Notes]
      BY <2>15 DEF ReadList, FetchFails, NoteInv, NotificationsTypeOK, Fetch
    <3> QED
      BY <2>1, <3>1, <3>2, <3>3 DEF NoteInv, NotificationsTypeOK
  <2>16. ASSUME NEW n \in Notes, ReadPush(n) PROVE NoteInv'
    <3>1. fetches' \in [Fetches -> Fetch]
      BY <2>16, FetchesTyped DEF ReadPush, NoteInv, NotificationsTypeOK
    <3> QED
      BY <2>1, <2>16, <3>1 DEF ReadPush, NoteInv, NotificationsTypeOK
  <2>17. ASSUME NEW f \in Fetches, NEW S, MarkRead(S, f) PROVE NoteInv'
    <3>1. /\ rows' \in [Notes -> RowStates]
          /\ \A n \in Notes : rows'[n] = "none" => rows[n] = "none"
      BY <2>17 DEF MarkRead, NoteInv, NotificationsTypeOK, RowStates
    <3>2. fetches' \in [Fetches -> Fetch]
      BY <2>17, FetchesTyped DEF MarkRead, NoteInv
    <3> QED
      BY <2>2, <2>17, <3>1, <3>2 DEF MarkRead
  <2>18. ASSUME NEW n \in Notes, PushOffTheList(n) \/ Prune(n) PROVE NoteInv'
    <3>1. /\ rows' \in [Notes -> RowStates]
          /\ \A k \in Notes : rows'[k] = "none" => rows[k] = "none"
      BY <2>18 DEF PushOffTheList, Prune, NoteInv, NotificationsTypeOK, RowStates
    <3> QED
      BY <2>2, <2>18, <3>1 DEF PushOffTheList, Prune, NoteInv, NotificationsTypeOK
  <2>19. CASE BellSocketOpens \/ BellSocketCloses
    <3>1. bellSocket' \in [state : {"open", "closed", "dead"}, tries : 0 .. MaxReconnects]
      BY <2>19 DEF BellSocketOpens, BellSocketCloses, NoteInv, NotificationsTypeOK
    <3> QED
      BY <2>1, <2>19, <3>1 DEF BellSocketOpens, BellSocketCloses, NoteInv, NotificationsTypeOK
  <2>20. CASE UNCHANGED noteVars
    BY <2>1, <2>20 DEF noteVars, NoteInv, NotificationsTypeOK
  <2> QED
    BY <2>3, <2>6, <2>7, <2>8, <2>9, <2>10, <2>11, <2>12, <2>13, <2>14, <2>15, <2>16, <2>17,
       <2>18, <2>19, <2>20 DEF NotificationsNext, DeliverStep, MarkOneRead, MarkAllRead
<1> QED
  BY <1>1, <1>2, PTL DEF NotificationsSpec

\* A mail on record is not sent again, for any number of notifications, attempts and
\* workers that stop: every run that may still mail has loaded the row since.
THEOREM MailedOnRecord == NotificationsSpec => MailedForGood
<1>1. NoteInv /\ [NotificationsNext]_noteVars => [\A n \in stamps.emailed : ~Mails(n)]_noteVars
  <2> SUFFICES ASSUME NoteInv, NotificationsNext, NEW n \in stamps.emailed, Mails(n)
               PROVE  FALSE
    OBVIOUS
  <2>1. n \in Notes /\ tasks[n].mailed /\ At(n, "mailing") /\ tasks'[n].step = "recording"
    BY DEF Mails, NoteInv, NotificationsTypeOK, TaskFits, At
  <2>2. ASSUME NEW m \in Notes, NEW t, tasks' = [tasks EXCEPT ![m] = t], t.step # "recording"
        PROVE  FALSE
    BY <2>1, <2>2 DEF NoteInv, NotificationsTypeOK, At
  <2>3. ASSUME NEW m \in Notes, NEW s \in TaskSteps \ {"recording"}, GoTo(m, s) PROVE FALSE
    <3>1. PICK t \in Task : tasks' = [tasks EXCEPT ![m] = t] /\ t.step = s
      BY <2>3, StepTaken
    <3> QED
      BY <2>2, <3>1
  <2>4. ASSUME NEW m \in Notes, Raises(m) PROVE FALSE
    <3>1. PICK t \in Task : tasks' = [tasks EXCEPT ![m] = t] /\ t.step \in {"queued", "failed"}
      BY <2>4, RunRaised
    <3> QED
      BY <2>2, <3>1
  <2>5. UNCHANGED tasks => FALSE
    BY <2>1 DEF At
  <2>6. ASSUME NEW m \in Notes, Notify(m) PROVE FALSE
    BY <2>2, <2>6, FreshTask DEF Notify, TaskSteps
  <2>7. ASSUME NEW m \in Notes, StartTask(m) PROVE FALSE
    <3>1. CASE Raises(m)
      BY <2>4, <3>1
    <3>2. CASE ~Raises(m)
      <4> DEFINE t == [tasks[m] EXCEPT !.step = "pushing", !.mailed = m \in stamps.emailed]
      <4>1. tasks' = [tasks EXCEPT ![m] = t]
        BY <2>7, <3>2 DEF StartTask
      <4>2. t.step # "recording"
        BY DEF NoteInv, NotificationsTypeOK, Task
      <4> HIDE DEF t
      <4> QED
        BY <2>2, <4>1, <4>2
    <3> QED
      BY <3>1, <3>2
  <2>8. ASSUME NEW m \in Notes, Push(m) \/ StampPushed(m) \/ RecordMail(m) PROVE FALSE
    BY <2>3, <2>4, <2>8 DEF Push, StampPushed, RecordMail, GoOnUnlessPruned, TaskSteps
  <2>9. ASSUME NEW m \in Notes, SendMail(m) PROVE FALSE
    <3>1. CASE m = n
      BY <2>1, <2>3, <2>4, <2>9, <3>1 DEF SendMail, MayMail, TaskSteps
    <3>2. CASE m # n
      <4>1. Raises(m) \/ \E s \in {"acking", "recording"} : GoTo(m, s)
        BY <2>9 DEF SendMail
      <4>2. tasks'[n] = tasks[n]
        BY <2>1, <2>4, <3>2, <4>1 DEF GoTo, NoteInv, NotificationsTypeOK
      <4> QED
        BY <2>1, <4>2 DEF At
    <3> QED
      BY <3>1, <3>2
  <2>10. ASSUME NEW m \in Notes, AckTask(m) PROVE FALSE
    BY <2>2, <2>10, FreshTask DEF AckTask, TaskSteps
  <2>11. ASSUME NEW m \in Notes, WorkerStops(m) PROVE FALSE
    <3> DEFINE t == [tasks[m] EXCEPT !.step = "queued", !.stops = tasks[m].stops + 1,
                                     !.mailed = FALSE]
    <3>1. tasks' = [tasks EXCEPT ![m] = t]
      BY <2>11 DEF WorkerStops
    <3>2. t.step # "recording"
      BY DEF NoteInv, NotificationsTypeOK, Task
    <3> HIDE DEF t
    <3> QED
      BY <2>2, <3>1, <3>2
  <2>12. ASSUME NEW m \in Notes, PushOffTheList(m) \/ Prune(m) \/ ReadPush(m) PROVE FALSE
    BY <2>5, <2>12 DEF PushOffTheList, Prune, ReadPush, serverSide
  <2>13. ASSUME NEW f \in Fetches, NEW S,
                Poll(f) \/ CountUnread(f) \/ ListRows(f) \/ ReadList(f) \/ FetchFails(f)
                \/ MarkRead(S, f)
         PROVE  FALSE
    BY <2>5, <2>13 DEF Poll, CountUnread, ListRows, ReadList, FetchFails, MarkRead, serverSide
  <2>14. CASE BellSocketOpens \/ BellSocketCloses
    BY <2>5, <2>14 DEF BellSocketOpens, BellSocketCloses, serverSide
  <2> QED
    BY <2>6, <2>7, <2>8, <2>9, <2>10, <2>11, <2>12, <2>13, <2>14
       DEF NotificationsNext, DeliverStep, MarkOneRead, MarkAllRead
<1> QED
  BY <1>1, NoteInvariant, PTL DEF NotificationsSpec, MailedForGood

-----------------------------------------------------------------------------
(* The types of the thread. *)

\* What the rest of the thread's rows and requests can hold.
ThreadInv ==
    /\ ended \in BOOLEAN /\ hidden \subseteq Texts
    /\ threadSocket \in [state : {"open", "closed", "dead"}, tries : 0 .. MaxThreadRetries,
                         sawEnd : BOOLEAN]
    /\ events \in Seq({"new", "error"})
    /\ tries \in [Mine -> 0 .. MaxTries]
    /\ \A m \in Theirs : stored[m] \in {0, 1}

\* Submissions are bounded, and a message of the other side is stored once.
THEOREM ThreadTypesHold == ConversationSpec => []ConversationTypeOK
<1>1. ConversationInit => ThreadInv
  <2> SUFFICES ASSUME ConversationInit PROVE ThreadInv
    OBVIOUS
  <2> USE ConversationAssumption DEF ConversationInit
  <2>1. 0 \in 0 .. MaxTries /\ 0 \in 0 .. MaxThreadRetries
    OBVIOUS
  <2>2. \A m \in Theirs : stored[m] = 0
    BY DEF Texts
  <2>3. events \in Seq({"new", "error"})
    OBVIOUS
  <2>4. tries \in [Mine -> 0 .. MaxTries]
    BY <2>1
  <2> QED
    BY <2>1, <2>2, <2>3, <2>4 DEF ThreadInv
<1>2. SentInv /\ ThreadInv /\ [ConversationNext]_threadVars => ThreadInv'
  <2> SUFFICES ASSUME SentInv, ThreadInv, [ConversationNext]_threadVars PROVE ThreadInv'
    OBVIOUS
  <2> USE ConversationAssumption DEF ThreadInv
  <2>1. ASSUME UNCHANGED <<hidden, ended, threadSocket, events, tries, stored>> PROVE ThreadInv'
    BY <2>1
  <2>2. CASE SendDraft
    <3>1. /\ screen.draft \in Mine /\ tries[screen.draft] < MaxTries
          /\ tries' = [tries EXCEPT ![screen.draft] = @ + 1]
          /\ UNCHANGED <<hidden, ended, threadSocket, events, stored>>
      BY <2>2 DEF SendDraft, SentInv, SentTypes
    <3> QED
      BY <3>1
  <2>3. CASE ServeFrame
    <3>1. /\ Head(frames) \in Mine /\ stored \in [Texts -> Nat]
          /\ stored' \in {stored, [stored EXCEPT ![Head(frames)] = @ + 1]}
          /\ events' \in {Append(events, "new"), Append(events, "error")}
          /\ UNCHANGED <<hidden, ended, threadSocket, tries>>
      BY <2>3 DEF ServeFrame, Store, SentInv, SentTypes
    <3>2. \A m \in Theirs : stored'[m] = stored[m]
      BY <3>1 DEF Texts
    <3>3. events' \in Seq({"new", "error"})
      <4>1. /\ Append(events, "new") \in Seq({"new", "error"})
            /\ Append(events, "error") \in Seq({"new", "error"})
        OBVIOUS
      <4> QED
        BY <3>1, <4>1
    <3> QED
      BY <3>1, <3>2, <3>3
  <2>4. ASSUME NEW m \in Mine, ServePost(m) PROVE ThreadInv'
    <3>1. /\ stored \in [Texts -> Nat]
          /\ stored' \in {stored, [stored EXCEPT ![m] = @ + 1]}
          /\ UNCHANGED <<hidden, ended, threadSocket, events, tries>>
      BY <2>4 DEF ServePost, Store, SentInv, SentTypes
    <3>2. \A k \in Theirs : stored'[k] = stored[k]
      BY <3>1 DEF Texts
    <3> QED
      BY <3>1, <3>2
  <2>5. ASSUME NEW m \in Theirs, OtherSends(m) PROVE ThreadInv'
    <3>1. /\ stored \in [Texts -> Nat] /\ stored[m] = 0
          /\ stored' = [stored EXCEPT ![m] = @ + 1]
          /\ events' \in {events, Append(events, "new")}
          /\ UNCHANGED <<hidden, ended, threadSocket, tries>>
      BY <2>5 DEF OtherSends, Store, SentInv, SentTypes
    <3>2. \A k \in Theirs : stored'[k] \in {0, 1}
      BY <3>1 DEF Texts
    <3>3. events' \in Seq({"new", "error"})
      <4>1. Append(events, "new") \in Seq({"new", "error"})
        OBVIOUS
      <4> QED
        BY <3>1, <4>1
    <3> QED
      BY <3>1, <3>2, <3>3
  <2>6. CASE ReadEvent
    BY <2>6 DEF ReadEvent
  <2>7. CASE ThreadSocketOpens
    BY <2>7 DEF ThreadSocketOpens
  <2>8. CASE ThreadSocketCloses
    <3>1. threadSocket' \in [state : {"open", "closed", "dead"}, tries : 0 .. MaxThreadRetries,
                             sawEnd : BOOLEAN]
      <4>1. MaxThreadRetries \in Nat /\ threadSocket.tries \in 0 .. MaxThreadRetries
        OBVIOUS
      <4>2. CASE threadSocket.tries < MaxThreadRetries
        <5>1. threadSocket.tries + 1 \in 0 .. MaxThreadRetries
          BY <4>1, <4>2
        <5>2. threadSocket' = [threadSocket EXCEPT !.state = "closed",
                                                   !.tries = threadSocket.tries + 1]
          BY <2>8, <4>2 DEF ThreadSocketCloses
        <5> QED
          BY <5>1, <5>2
      <4>3. CASE ~(threadSocket.tries < MaxThreadRetries)
        BY <2>8, <4>3 DEF ThreadSocketCloses
      <4> QED
        BY <4>2, <4>3
    <3>2. events' = <<>> /\ UNCHANGED <<hidden, ended, tries, stored>>
      BY <2>8 DEF ThreadSocketCloses
    <3>3. events' \in Seq({"new", "error"})
      BY <3>2
    <3> QED
      BY <3>1, <3>2, <3>3
  <2>9. CASE ContextEnds \/ \E m \in Moderated : HideMessage(m)
    BY <2>9 DEF ContextEnds, HideMessage
  <2>10. ASSUME NEW m \in Mine, Type(m) \/ Uploaded(m) \/ PostFails(m) \/ PostAnswered(m)
         PROVE  ThreadInv'
    BY <2>1, <2>10 DEF Type, Uploaded, PostFails, PostAnswered
  <2>11. ASSUME NEW l \in Loads, ServeLoad(l) \/ ReadLoad(l) \/ LoadFails(l) PROVE ThreadInv'
    BY <2>1, <2>11 DEF ServeLoad, ReadLoad, LoadFails
  <2>12. CASE Focus \/ UNCHANGED threadVars
    BY <2>1, <2>12 DEF Focus, threadVars
  <2> QED
    BY <2>2, <2>3, <2>4, <2>5, <2>6, <2>7, <2>8, <2>9, <2>10, <2>11, <2>12 DEF ConversationNext
<1>3. SentInv /\ LoadsTyped /\ ThreadInv => ConversationTypeOK
  <2> SUFFICES ASSUME SentInv, LoadsTyped, ThreadInv PROVE ConversationTypeOK
    OBVIOUS
  <2>1. ASSUME NEW m \in Texts PROVE stored[m] \in 0 .. MaxTries + 1
    <3>1. CASE m \in Mine
      <4>1. /\ stored[m] \in Nat /\ stored[m] <= tries[m] /\ tries[m] \in 0 .. MaxTries
            /\ MaxTries \in Nat
        BY <3>1, ConversationAssumption DEF SentInv, SentTypes, OnePlace, ThreadInv
      <4> QED
        BY <4>1
    <3>2. CASE m \in Theirs
      BY <3>2, ConversationAssumption DEF ThreadInv
    <3> QED
      BY <3>1, <3>2 DEF Texts
  <2> QED
    BY <2>1 DEF SentInv, SentTypes, LoadsTyped, ThreadInv, ConversationTypeOK
<1> QED
  BY <1>1, <1>2, <1>3, SentInvariant, PTL DEF ConversationSpec
-----------------------------------------------------------------------------
(* What the pages show. *)

\* Whatever is shown, or is on its way to be shown, is in the table.
StoredTexts == {m \in Texts : stored[m] > 0}
ShownIsStored ==
    screen.shown \subseteq StoredTexts /\ \A l \in Loads : loads[l].read \subseteq StoredTexts

\* Nothing takes a message out of the table.
LEMMA MessagesStay ==
    ASSUME SentTypes, ConversationNext
    PROVE  StoredTexts \subseteq StoredTexts'
<1>1. ASSUME NEW m \in Texts, Store(m) PROVE StoredTexts \subseteq StoredTexts'
  BY <1>1 DEF Store, StoredTexts, SentTypes
<1>2. ASSUME UNCHANGED stored PROVE StoredTexts \subseteq StoredTexts'
  BY <1>2 DEF StoredTexts
<1>3. CASE ServeFrame
  <2>1. Head(frames) \in Texts
    BY <1>3 DEF ServeFrame, SentTypes, Texts
  <2> QED
    BY <1>1, <1>2, <1>3, <2>1 DEF ServeFrame
<1>4. ASSUME NEW m \in Mine, Type(m) \/ Uploaded(m) \/ PostFails(m) \/ PostAnswered(m)
                               \/ ServePost(m)
      PROVE  StoredTexts \subseteq StoredTexts'
  BY <1>1, <1>2, <1>4 DEF Type, Uploaded, PostFails, PostAnswered, ServePost, Texts
<1>5. ASSUME NEW m \in Theirs, OtherSends(m) PROVE StoredTexts \subseteq StoredTexts'
  BY <1>1, <1>5 DEF OtherSends, Texts
<1>6. CASE SendDraft \/ Focus \/ ReadEvent \/ ThreadSocketOpens \/ ThreadSocketCloses \/ ContextEnds
  BY <1>2, <1>6 DEF SendDraft, Focus, ReadEvent, ThreadSocketOpens, ThreadSocketCloses, ContextEnds
<1>7. ASSUME NEW l \in Loads, ServeLoad(l) \/ ReadLoad(l) \/ LoadFails(l)
      PROVE  StoredTexts \subseteq StoredTexts'
  BY <1>2, <1>7 DEF ServeLoad, ReadLoad, LoadFails
<1>8. ASSUME NEW m \in Moderated, HideMessage(m) PROVE StoredTexts \subseteq StoredTexts'
  BY <1>2, <1>8 DEF HideMessage
<1> QED
  BY <1>3, <1>4, <1>5, <1>6, <1>7, <1>8 DEF ConversationNext

\* The page never shows a message the table does not hold: a bubble turns into one
\* only by an answer, however late that answer is and whichever came before it.
THEOREM OnlyStoredIsShown == ConversationSpec => []ShownIsStored
<1>1. ConversationInit => ShownIsStored
  BY DEF ConversationInit, ShownIsStored, NoLoad
<1>2. SentInv /\ LoadsTyped /\ ShownIsStored /\ [ConversationNext]_threadVars => ShownIsStored'
  <2> SUFFICES ASSUME SentInv, LoadsTyped, ShownIsStored, [ConversationNext]_threadVars
               PROVE  ShownIsStored'
    OBVIOUS
  <2>1. CASE UNCHANGED threadVars
    BY <2>1 DEF threadVars, ShownIsStored, StoredTexts
  <2>2. CASE ConversationNext
    <3>1. StoredTexts \subseteq StoredTexts'
      BY <2>2, MessagesStay DEF SentInv
    <3>2. ASSUME loads' = loads \/ \E l \in Loads : loads' = [loads EXCEPT ![l].step = "asked"]
          PROVE  \A k \in Loads : loads'[k].read \subseteq StoredTexts'
      BY <3>1, <3>2 DEF ShownIsStored, LoadsTyped
    <3>3. ASSUME StartsLoad PROVE \A k \in Loads : loads'[k].read \subseteq StoredTexts'
      <4>1. FreeLoads # {} => (CHOOSE l \in FreeLoads : TRUE) \in Loads
        BY DEF FreeLoads
      <4> QED
        BY <3>2, <3>3, <4>1 DEF StartsLoad
    <3>4. ASSUME NEW l \in Loads, ServeLoad(l) PROVE ShownIsStored'
      <4>1. /\ loads' = [loads EXCEPT ![l] = [step |-> "answered", read |-> Visible]]
            /\ UNCHANGED screen
        BY <3>4 DEF ServeLoad
      <4>2. \A k \in Loads : loads'[k].read \in {Visible, loads[k].read}
        BY <4>1 DEF LoadsTyped
      <4>3. Visible \subseteq StoredTexts
        BY DEF Visible, StoredTexts
      <4> QED
        BY <3>1, <4>1, <4>2, <4>3 DEF ShownIsStored
    <3>5. ASSUME NEW l \in Loads, ReadLoad(l) \/ LoadFails(l) PROVE ShownIsStored'
      <4>1. /\ loads' = [loads EXCEPT ![l] = NoLoad]
            /\ screen'.shown \in {screen.shown, loads[l].read}
        BY <3>5 DEF ReadLoad, LoadFails, SentInv, SentTypes
      <4>2. \A k \in Loads : loads'[k].read \in {{}, loads[k].read}
        BY <4>1 DEF LoadsTyped, NoLoad
      <4> QED
        BY <3>1, <4>1, <4>2 DEF ShownIsStored
    <3>6. ASSUME NEW m \in Mine, Type(m) \/ Uploaded(m) \/ PostFails(m) \/ ServePost(m)
          PROVE  ShownIsStored'
      <4>1. UNCHANGED loads /\ screen'.shown = screen.shown
        BY <3>6 DEF Type, Uploaded, PostFails, SendFailed, ServePost, SentInv, SentTypes
      <4> QED
        BY <3>1, <4>1 DEF ShownIsStored
    <3>7. ASSUME NEW m \in Mine, PostAnswered(m) PROVE ShownIsStored'
      BY <3>1, <3>3, <3>7 DEF PostAnswered, ShownIsStored
    <3>8. CASE Focus \/ ThreadSocketOpens
      BY <3>1, <3>3, <3>8 DEF Focus, ThreadSocketOpens, ShownIsStored
    <3>9. CASE ReadEvent
      <4>1. screen'.shown = screen.shown
        BY <3>9 DEF ReadEvent, SentInv, SentTypes
      <4> QED
        BY <3>1, <3>2, <3>3, <3>9, <4>1 DEF ReadEvent, ShownIsStored
    <3>10. CASE SendDraft
      <4>1. UNCHANGED loads /\ screen'.shown = screen.shown
        BY <3>10 DEF SendDraft, SentInv, SentTypes
      <4> QED
        BY <3>1, <4>1 DEF ShownIsStored
    <3>11. CASE ThreadSocketCloses \/ ServeFrame \/ ContextEnds
      BY <3>1, <3>11 DEF ThreadSocketCloses, ServeFrame, ContextEnds, ShownIsStored
    <3>12. ASSUME NEW m \in Theirs, OtherSends(m) PROVE ShownIsStored'
      BY <3>1, <3>12 DEF OtherSends, ShownIsStored
    <3>13. ASSUME NEW m \in Moderated, HideMessage(m) PROVE ShownIsStored'
      BY <3>1, <3>13 DEF HideMessage, ShownIsStored
    <3> QED
      BY <2>2, <3>13, <3>4, <3>5, <3>6, <3>7, <3>8, <3>9, <3>10, <3>11, <3>12 DEF ConversationNext
  <2> QED
    BY <2>1, <2>2
<1> QED
  BY <1>1, <1>2, SentInvariant, PTL DEF ConversationSpec

\* The step a task has come to an end with.
Ended(n) == tasks[n].step \in {"done", "failed"}
EndsKept == \A n \in Notes : Ended(n) => tasks'[n] = tasks[n]

\* A delivery is given up by a run that raises with every other attempt used.
GivenUpLate ==
    \A n \in Notes : ~At(n, "failed") /\ tasks'[n].step = "failed"
                       => tasks[n].attempt = MaxAttempts - 1

\* One step of one task leaves the others, and starts from one that is under way.
LEMMA TasksMoveApart ==
    ASSUME NoteInv, NEW n \in Notes, NEW t, tasks' = [tasks EXCEPT ![n] = t], ~Ended(n),
           t.step = "failed" => tasks[n].attempt = MaxAttempts - 1
    PROVE  EndsKept /\ GivenUpLate
<1>1. tasks'[n] = t /\ \A k \in Notes : k # n => tasks'[k] = tasks[k]
  BY DEF NoteInv, NotificationsTypeOK
<1> QED
  BY <1>1 DEF EndsKept, GivenUpLate, At

\* The safety half of DeliveryEnds: what has come to an end stays there, and no delivery
\* is given up while an attempt is left, whenever the worker stops, the row is read or it
\* is pruned.
THEOREM DeliveriesStayEnded == NotificationsSpec => [][EndsKept /\ GivenUpLate]_noteVars
<1>1. NoteInv /\ [NotificationsNext]_noteVars => [EndsKept /\ GivenUpLate]_noteVars
  <2> SUFFICES ASSUME NoteInv, NotificationsNext PROVE EndsKept /\ GivenUpLate
    OBVIOUS
  <2> USE DEF serverSide, pageSide
  <2>1. ASSUME UNCHANGED tasks PROVE EndsKept /\ GivenUpLate
    BY <2>1 DEF EndsKept, GivenUpLate, At
  <2>2. ASSUME NEW n \in Notes, Notify(n) PROVE EndsKept /\ GivenUpLate
    <3>1. At(n, "none") /\ tasks' = [tasks EXCEPT ![n] = [NoTask EXCEPT !.step = "queued"]]
      BY <2>2 DEF Notify, NoteInv, TaskFits
    <3>2. ~Ended(n) /\ [NoTask EXCEPT !.step = "queued"].step = "queued"
      BY <3>1, FreshTask DEF Ended, At, TaskSteps
    <3> QED
      BY <3>1, <3>2, TasksMoveApart
  <2>3. ASSUME NEW n \in Notes, Raises(n), ~Ended(n) PROVE EndsKept /\ GivenUpLate
    BY <2>3, RunRaised, TasksMoveApart
  <2>4. ASSUME NEW n \in Notes, NEW s \in TaskSteps \ {"failed"}, GoTo(n, s), ~Ended(n)
        PROVE  EndsKept /\ GivenUpLate
    BY <2>4, StepTaken, TasksMoveApart
  <2>5. ASSUME NEW n \in Notes, StartTask(n) PROVE EndsKept /\ GivenUpLate
    <3>1. ~Ended(n)
      BY <2>5 DEF StartTask, At, Ended
    <3>2. CASE ~Raises(n)
      <4> DEFINE t == [tasks[n] EXCEPT !.step = "pushing", !.mailed = n \in stamps.emailed]
      <4>1. tasks' = [tasks EXCEPT ![n] = t]
        BY <2>5, <3>2 DEF StartTask
      <4>2. t.step # "failed"
        BY DEF NoteInv, NotificationsTypeOK, Task
      <4> HIDE DEF t
      <4> QED
        BY <3>1, <4>1, <4>2, TasksMoveApart
    <3> QED
      BY <2>3, <3>1, <3>2
  <2>6. ASSUME NEW n \in Notes, Push(n) \/ StampPushed(n) \/ RecordMail(n) \/ SendMail(n)
        PROVE  EndsKept /\ GivenUpLate
    <3>1. /\ ~Ended(n)
          /\ Raises(n) \/ \E s \in {"mailing", "stamping", "acking", "recording"} : GoTo(n, s)
      BY <2>6 DEF Push, StampPushed, RecordMail, SendMail, GoOnUnlessPruned, Ended, At
    <3> QED
      BY <2>3, <2>4, <3>1 DEF TaskSteps
  <2>7. ASSUME NEW n \in Notes, AckTask(n) PROVE EndsKept /\ GivenUpLate
    <3>1. ~Ended(n) /\ tasks' = [tasks EXCEPT ![n] = [NoTask EXCEPT !.step = "done"]]
      BY <2>7 DEF AckTask, At, Ended
    <3>2. [NoTask EXCEPT !.step = "done"].step = "done"
      BY FreshTask DEF TaskSteps
    <3> QED
      BY <3>1, <3>2, TasksMoveApart
  <2>8. ASSUME NEW n \in Notes, WorkerStops(n) PROVE EndsKept /\ GivenUpLate
    <3> DEFINE t == [tasks[n] EXCEPT !.step = "queued", !.stops = tasks[n].stops + 1,
                                     !.mailed = FALSE]
    <3>1. ~Ended(n) /\ tasks' = [tasks EXCEPT ![n] = t]
      BY <2>8 DEF WorkerStops, Ended
    <3>2. t.step # "failed"
      BY DEF NoteInv, NotificationsTypeOK, Task
    <3> HIDE DEF t
    <3> QED
      BY <3>1, <3>2, TasksMoveApart
  <2>9. ASSUME NEW n \in Notes, PushOffTheList(n) \/ Prune(n) \/ ReadPush(n)
        PROVE  EndsKept /\ GivenUpLate
    BY <2>1, <2>9 DEF PushOffTheList, Prune, ReadPush
  <2>10. ASSUME NEW f \in Fetches, NEW S,
                Poll(f) \/ CountUnread(f) \/ ListRows(f) \/ ReadList(f) \/ FetchFails(f)
                \/ MarkRead(S, f)
         PROVE  EndsKept /\ GivenUpLate
    BY <2>1, <2>10 DEF Poll, CountUnread, ListRows, ReadList, FetchFails, MarkRead
  <2>11. CASE BellSocketOpens \/ BellSocketCloses
    BY <2>1, <2>11 DEF BellSocketOpens, BellSocketCloses
  <2> QED
    BY <2>2, <2>5, <2>6, <2>7, <2>8, <2>9, <2>10, <2>11
       DEF NotificationsNext, DeliverStep, MarkOneRead, MarkAllRead
<1> QED
  BY <1>1, NoteInvariant, PTL DEF NotificationsSpec
=============================================================================
