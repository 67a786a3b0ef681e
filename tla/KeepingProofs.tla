--------------------------- MODULE KeepingProofs ----------------------------
(***************************************************************************)
(* Proofs about what overlapping requests, runs and processes keep: the    *)
(* jobs of the publish outbox, the failures a handoff counts, what the     *)
(* archive takes, the content of a project, the members of a workspace and *)
(* the collaborators of a project.                                         *)
(***************************************************************************)
EXTENDS MCRecords, ReadingProofs

-----------------------------------------------------------------------------
(* The publish outbox                                                      *)

(***************************************************************************)
(* What DispatchedMeansQueued needs to be inductive: a dispatcher past     *)
(* claimOutboxEvent works on a row that was recorded, and one whose        *)
(* Enqueue returned nil has left its job with Asynq, where no step removes *)
(* it.                                                                     *)
(***************************************************************************)
EnqueuedMeansQueued ==
    \A d \in Dispatchers :
        /\ disp[d].pc # "idle" => /\ disp[d].job \in Jobs
                                  /\ outbox[disp[d].job].status # "absent"
        /\ disp[d].pc = "enqueued" => disp[d].job \in tasks

IInv == TypeOK /\ EnqueuedMeansQueued /\ DispatchedMeansQueued

\* The initial states satisfy the inductive invariant.
LEMMA InitIInv == Init => IInv
  BY OutboxAssumption
  DEF Init, IInv, TypeOK, EnqueuedMeansQueued, DispatchedMeansQueued,
      OutboxEvent, OutboxStatus, Dispatcher, DispatcherPC, Idle

\* Every step of every dispatcher, and of time, preserves it.
LEMMA NextIInv == IInv /\ [Next]_vars => IInv'
  <1> SUFFICES ASSUME IInv, [Next]_vars PROVE IInv'
    OBVIOUS
  <1> USE OutboxAssumption DEF IInv, TypeOK, OutboxEvent, OutboxStatus, Dispatcher,
          DispatcherPC, Idle, EnqueuedMeansQueued, DispatchedMeansQueued
  <1>1. ASSUME NEW j \in Jobs, RecordPublishJobOutbox(j) PROVE IInv'
    BY <1>1 DEF RecordPublishJobOutbox
  <1>2. ASSUME NEW j \in Jobs, BackoffElapses(j) PROVE IInv'
    BY <1>2, ZenonT(60) DEF BackoffElapses
  <1>3. ASSUME NEW j \in Jobs, ClaimAges(j) PROVE IInv'
    <2>1. faults' \in 0..MaxFaults
      <3>1. CASE \E d \in Dispatchers : disp[d].job = j
        BY <1>3, <3>1 DEF ClaimAges
      <3>2. CASE ~ \E d \in Dispatchers : disp[d].job = j
        BY <1>3, <3>2 DEF ClaimAges
      <3> QED
        BY <3>1, <3>2
    <2>2. /\ outbox' = [outbox EXCEPT ![j].old = TRUE]
          /\ UNCHANGED <<tasks, disp>>
      BY <1>3 DEF ClaimAges
    <2> QED
      BY <2>1, <2>2, ZenonT(60)
  <1>4. ASSUME NEW d \in Dispatchers, NEW j \in Jobs, ClaimOutboxEvent(d, j) PROVE IInv'
    BY <1>4 DEF ClaimOutboxEvent, Claimable
  <1>5. ASSUME NEW d \in Dispatchers, ReadClaimedEvent(d) PROVE IInv'
    BY <1>5 DEF ReadClaimedEvent
  <1>6. ASSUME NEW d \in Dispatchers, EnqueueJob(d) PROVE IInv'
    BY <1>6 DEF EnqueueJob
  <1>7. ASSUME NEW d \in Dispatchers, MarkOutboxEventDispatched(d) PROVE IInv'
    BY <1>7 DEF MarkOutboxEventDispatched
  <1>8. ASSUME NEW d \in Dispatchers, MarkOutboxEventFailed(d) PROVE IInv'
    BY <1>8 DEF MarkOutboxEventFailed
  <1>9. ASSUME NEW d \in Dispatchers, EnqueueJobFails(d) PROVE IInv'
    BY <1>9 DEF EnqueueJobFails
  <1>10. ASSUME NEW d \in Dispatchers, AbandonDispatch(d) PROVE IInv'
    BY <1>10 DEF AbandonDispatch
  <1>11. CASE UNCHANGED vars
    BY <1>11 DEF vars
  <1> QED
    BY <1>1, <1>2, <1>3, <1>4, <1>5, <1>6, <1>7, <1>8, <1>9, <1>10, <1>11
    DEF Next, Dispatch

\* The inductive invariant holds in every reachable state.
THEOREM OutboxIInv == Spec => []IInv
  BY InitIInv, NextIInv, PTL DEF Spec

(***************************************************************************)
(* The rows, the queue and the dispatchers keep the types of outbox.go.    *)
(***************************************************************************)
THEOREM OutboxTypeCorrect == Spec => []TypeOK
  BY OutboxIInv, PTL DEF IInv

(***************************************************************************)
(* No committed job is lost by the dispatch: markOutboxEventDispatched     *)
(* closes a row only when Asynq has its job.                               *)
(***************************************************************************)
THEOREM NoJobLost == Spec => []DispatchedMeansQueued
  BY OutboxIInv, PTL DEF IInv

(***************************************************************************)
(* A dispatched row is never reopened: the claim's WHERE clause and the    *)
(* fence of markOutboxEventFailed both exclude it.                         *)
(***************************************************************************)
THEOREM DispatchedStays == Spec => DispatchedIsFinal
  <1> DEFINE Final == \A j \in Jobs : outbox[j].status = "dispatched"
                                        => outbox'[j].status = "dispatched"
  <1>1. TypeOK /\ [Next]_vars => Final
    <2> SUFFICES ASSUME TypeOK, [Next]_vars PROVE Final
      OBVIOUS
    <2> USE DEF TypeOK, OutboxEvent, Dispatcher
    <2>1. ASSUME NEW j \in Jobs, RecordPublishJobOutbox(j) \/ BackoffElapses(j) \/ ClaimAges(j)
          PROVE  Final
      BY <2>1 DEF RecordPublishJobOutbox, BackoffElapses, ClaimAges
    <2>2. ASSUME NEW d \in Dispatchers, NEW j \in Jobs, ClaimOutboxEvent(d, j) PROVE Final
      BY <2>2 DEF ClaimOutboxEvent, Claimable
    <2>3. ASSUME NEW d \in Dispatchers,
                 MarkOutboxEventDispatched(d) \/ MarkOutboxEventFailed(d)
          PROVE  Final
      BY <2>3 DEF MarkOutboxEventDispatched, MarkOutboxEventFailed, HoldsClaim
    <2>4. ASSUME UNCHANGED outbox PROVE Final
      BY <2>4
    <2> QED
      BY <2>1, <2>2, <2>3, <2>4
      DEF Next, Dispatch, vars, ReadClaimedEvent, EnqueueJob, EnqueueJobFails, AbandonDispatch
  <1> QED
    BY <1>1, OutboxTypeCorrect, PTL DEF Spec, DispatchedIsFinal

(***************************************************************************)
(* The outbox implements the safety part of JobHandoff: a job reaches the  *)
(* queue once, and only after RecordPublishJobOutbox.  Only RecordPublish- *)
(* JobOutbox and the two enqueue steps move a job; the rest stutter.       *)
(***************************************************************************)
THEOREM OutboxRefinesHandoff == Spec => Handoff!HandoffSpec
  <1>1. Init => Handoff!HandoffInit
    BY DEF Init, Handoff!HandoffInit, Stage
  <1>2. IInv /\ [Next]_vars => [Handoff!HandoffNext]_Stage
    <2> SUFFICES ASSUME IInv, [Next]_vars PROVE Handoff!HandoffNext \/ Stage' = Stage
      OBVIOUS
    <2> USE DEF IInv, TypeOK, OutboxEvent, Dispatcher, EnqueuedMeansQueued
    <2>1. ASSUME NEW j \in Jobs, RecordPublishJobOutbox(j)
          PROVE  Handoff!HandoffNext \/ Stage' = Stage
      <3>1. CASE j \in tasks
        BY <2>1, <3>1 DEF RecordPublishJobOutbox, Stage
      <3>2. CASE j \notin tasks
        <4>1. Handoff!Record(j)
          BY <2>1, <3>2 DEF RecordPublishJobOutbox, Stage, Handoff!Record
        <4> QED
          BY <4>1 DEF Handoff!HandoffNext
      <3> QED
        BY <3>1, <3>2
    <2>2. ASSUME NEW d \in Dispatchers, disp[d].pc = "read", UNCHANGED outbox,
                 tasks' = tasks \cup {disp[d].job}
          PROVE  Handoff!HandoffNext \/ Stage' = Stage
      <3> DEFINE j == disp[d].job
      <3>0. j \in Jobs /\ outbox[j].status # "absent"
        BY <2>2
      <3>1. CASE j \in tasks
        BY <2>2, <3>1 DEF Stage
      <3>2. CASE j \notin tasks
        <4>1. Handoff!Deliver(j)
          BY <2>2, <3>0, <3>2 DEF Stage, Handoff!Deliver
        <4> QED
          BY <3>0, <4>1 DEF Handoff!HandoffNext
      <3> QED
        BY <3>1, <3>2
    <2>3. ASSUME UNCHANGED tasks,
                 \A j \in Jobs : outbox'[j].status = "absent" <=> outbox[j].status = "absent"
          PROVE  Stage' = Stage
      BY <2>3 DEF Stage
    <2>4. ASSUME NEW j \in Jobs, BackoffElapses(j) \/ ClaimAges(j) PROVE Stage' = Stage
      BY <2>3, <2>4 DEF BackoffElapses, ClaimAges
    <2>5. ASSUME NEW d \in Dispatchers, Dispatch(d)
          PROVE  Handoff!HandoffNext \/ Stage' = Stage
      <3>1. ASSUME NEW j \in Jobs, ClaimOutboxEvent(d, j) PROVE Stage' = Stage
        BY <2>3, <3>1 DEF ClaimOutboxEvent, Claimable
      <3>2. CASE ReadClaimedEvent(d)
        BY <2>3, <3>2 DEF ReadClaimedEvent
      <3>3. CASE EnqueueJob(d)
        BY <2>2, <3>3 DEF EnqueueJob
      <3>4. CASE MarkOutboxEventDispatched(d)
        BY <2>3, <3>4 DEF MarkOutboxEventDispatched, HoldsClaim
      <3>5. CASE MarkOutboxEventFailed(d)
        BY <2>3, <3>5 DEF MarkOutboxEventFailed, HoldsClaim
      <3> QED
        BY <2>5, <3>1, <3>2, <3>3, <3>4, <3>5 DEF Dispatch
    <2>6. ASSUME NEW d \in Dispatchers, EnqueueJobFails(d)
          PROVE  Handoff!HandoffNext \/ Stage' = Stage
      <3>1. CASE tasks' = tasks
        BY <2>3, <2>6, <3>1 DEF EnqueueJobFails
      <3>2. CASE tasks' = tasks \cup {disp[d].job}
        BY <2>2, <2>6, <3>2 DEF EnqueueJobFails
      <3> QED
        BY <2>6, <3>1, <3>2 DEF EnqueueJobFails
    <2>7. ASSUME NEW d \in Dispatchers, AbandonDispatch(d) PROVE Stage' = Stage
      BY <2>3, <2>7 DEF AbandonDispatch
    <2>8. CASE UNCHANGED vars
      BY <2>3, <2>8 DEF vars
    <2> QED
      BY <2>1, <2>4, <2>5, <2>6, <2>7, <2>8 DEF Next
  <1> QED
    BY <1>1, <1>2, OutboxIInv, PTL DEF Spec, Handoff!HandoffSpec

-----------------------------------------------------------------------------
(* A handoff and its callbacks                                             *)

\* The types the argument needs: how high the counter goes is left to the runs.
HandoffTyped ==
    /\ publication \in [present : BOOLEAN, retries : Nat]
    /\ callback \in [Callbacks -> Callback]
    /\ claimed \subseteq applied /\ recorded \subseteq claimed /\ IsFiniteSet(applied)

Active(c) == callback[c].pc \in {"received", "claimed", "commit"}

Holding(c) == callback[c].pc \in {"claimed", "commit"}

\* One transaction at a time holds the key of an event nobody has committed yet.
KeysAreHeld ==
    \A c \in Callbacks : Holding(c) =>
        /\ Event(c) \notin claimed
        /\ \A other \in Callbacks \ {c} : Holding(other) => Event(other) # Event(c)

\* A claim goes only when it does no harm any more.
ClaimsLast ==
    \/ claimed = applied
    \/ ~publication.present
    \/ token \in {"expired", "deleted"} /\ \A c \in Callbacks : ~Active(c)

HandoffInv == HandoffTyped /\ KeysAreHeld /\ ClaimsLast /\ FailuresCountedOnce /\ AnsweredIsApplied

Failed(some) == {e \in some : status[e] = "failed"}

(* Committing an event nobody has applied yet counts it if it failed. *)
LEMMA FailureCounted ==
  ASSUME IsFiniteSet(applied), NEW e, e \notin applied
  PROVE  Cardinality(Failed(applied \cup {e})) =
             IF status[e] = "failed" THEN Cardinality(Failed(applied)) + 1 ELSE Cardinality(Failed(applied))
<1>1. IsFiniteSet(Failed(applied)) /\ e \notin Failed(applied)
  BY PartOfFinite DEF Failed
<1>2. Failed(applied \cup {e}) = IF status[e] = "failed" THEN Failed(applied) \cup {e} ELSE Failed(applied)
  BY DEF Failed
<1>3. Cardinality(Failed(applied) \cup {e}) = Cardinality(Failed(applied)) + 1
  BY <1>1, FS_AddElement
<1> QED
  BY <1>2, <1>3

(* Initially nothing has been reported. *)
LEMMA HandoffInitInv == HandoffInit => HandoffInv
<1> SUFFICES ASSUME HandoffInit PROVE HandoffInv
  OBVIOUS
<1>1. PICK event \in [Callbacks -> Reports] :
          callback = [c \in Callbacks |-> [pc |-> "idle", event |-> event[c]]]
  BY DEF HandoffInit, HandoffInitOf
<1>2. /\ claimed = {} /\ recorded = {} /\ applied = {}
      /\ publication = [present |-> TRUE, retries |-> 0]
  BY DEF HandoffInit, HandoffInitOf
<1>3. HandoffTyped
  BY <1>1, <1>2, FS_EmptySet DEF HandoffTyped, Callback
<1>4. {e \in applied : status[e] = "failed"} = {}
  BY <1>2
<1>5. FailuresCountedOnce
  BY <1>2, <1>4, FS_EmptySet DEF FailuresCountedOnce
<1> QED
  BY <1>1, <1>2, <1>3, <1>5 DEF HandoffInv, KeysAreHeld, ClaimsLast, Holding, AnsweredIsApplied

(* Every step keeps the invariant. *)
LEMMA HandoffStepInv == HandoffInv /\ [HandoffNext]_handoffVars => HandoffInv'
<1> SUFFICES ASSUME HandoffInv, [HandoffNext]_handoffVars PROVE HandoffInv'
  OBVIOUS
<1>0. HandoffTyped /\ KeysAreHeld /\ ClaimsLast /\ FailuresCountedOnce /\ AnsweredIsApplied
  BY DEF HandoffInv
<1> USE DEF HandoffTyped
<1>1. ASSUME NEW c \in Callbacks, NEW to \in {"idle", "received", "begun", "claimed", "commit", "accepted", "duplicate",
                                             "refused", "error"}, Becomes(c, to)
      PROVE  /\ callback' \in [Callbacks -> Callback]
             /\ \A x \in Callbacks : Event(x)' = Event(x)
             /\ \A x \in Callbacks : callback'[x].pc = IF x = c THEN to ELSE callback[x].pc
  BY <1>0, <1>1 DEF Becomes, Callback, Event
<1>2. CASE CreateExtensionHandoff
  BY <1>0, <1>2 DEF CreateExtensionHandoff, HandoffInv, KeysAreHeld, ClaimsLast, Holding, Active, Event, FailuresCountedOnce,
                    AnsweredIsApplied
<1>3. CASE TokenExpires \/ UNCHANGED handoffVars
  BY <1>0, <1>3 DEF TokenExpires, handoffVars, HandoffInv, KeysAreHeld, ClaimsLast, Holding, Active, Event,
                    FailuresCountedOnce, AnsweredIsApplied
<1>4. CASE DeleteFindsEvents
  BY <1>0, <1>4 DEF DeleteFindsEvents, HandoffInv, KeysAreHeld, ClaimsLast, Holding, Active, Event, FailuresCountedOnce,
                    AnsweredIsApplied
<1>5. CASE DeleteCommits
  <2>1. publication' \in [present : BOOLEAN, retries : Nat] /\ ~publication'.present
    BY <1>0, <1>5 DEF DeleteCommits
  <2>2. /\ UNCHANGED <<applied, callback>> /\ claimed' \subseteq claimed /\ recorded' = {}
    BY <1>5 DEF DeleteCommits
  <2> QED
    BY <1>0, <2>1, <2>2 DEF HandoffInv, KeysAreHeld, ClaimsLast, Holding, Event, FailuresCountedOnce, AnsweredIsApplied
<1>6. CASE ArchiveEvents
  <2>1. /\ token' \in {"expired", "deleted"} /\ \A c \in Callbacks : ~Active(c)'
        /\ UNCHANGED <<applied, callback, publication, status>> /\ claimed' \subseteq claimed /\ recorded' = {}
    BY <1>6 DEF ArchiveEvents, Active
  <2> QED
    BY <1>0, <2>1 DEF HandoffInv, KeysAreHeld, ClaimsLast, Holding, Event, FailuresCountedOnce, AnsweredIsApplied
<1>7. ASSUME NEW c \in Callbacks, RecordExtensionEvent(c) PROVE HandoffInv'
  <2>1. /\ UNCHANGED <<applied, claimed, recorded, publication, token, status>>
        /\ Becomes(c, IF token = "valid" THEN "received" ELSE "refused") /\ callback[c].pc = "idle"
    BY <1>7 DEF RecordExtensionEvent
  <2>2. PICK to \in {"received", "refused"} : Becomes(c, to) /\ (to = "received" => token = "valid")
    BY <2>1
  <2> HIDE DEF HandoffTyped
  <2>3. HandoffTyped'
    BY <1>0, <1>1, <2>1, <2>2 DEF HandoffTyped
  <2>4. KeysAreHeld'
    BY <1>0, <1>1, <2>1, <2>2 DEF KeysAreHeld, Holding
  <2>5. ClaimsLast'
    BY <1>0, <1>1, <2>1, <2>2 DEF ClaimsLast, Active
  <2>6. FailuresCountedOnce' /\ AnsweredIsApplied'
    BY <1>0, <1>1, <2>1, <2>2 DEF FailuresCountedOnce, AnsweredIsApplied
  <2> QED
    BY <2>3, <2>4, <2>5, <2>6 DEF HandoffInv
<1>8. ASSUME NEW c \in Callbacks, ClaimEvent(c) PROVE HandoffInv'
  <2>1. /\ UNCHANGED <<applied, claimed, recorded, publication, token, status>>
        /\ callback[c].pc = "received" /\ KeyFree(Event(c))
    BY <1>8 DEF ClaimEvent
  <2>2. PICK to \in {"claimed", "duplicate"} :
            Becomes(c, to) /\ (to = "claimed" => Event(c) \notin claimed) /\ (to = "duplicate" => Event(c) \in claimed)
    BY <1>8 DEF ClaimEvent
  <2> HIDE DEF HandoffTyped
  <2>3. HandoffTyped'
    BY <1>0, <1>1, <2>1, <2>2 DEF HandoffTyped
  <2>4. KeysAreHeld'
    BY <1>0, <1>1, <2>1, <2>2 DEF KeysAreHeld, Holding, KeyFree
  <2>5. ClaimsLast'
    BY <1>0, <1>1, <2>1, <2>2 DEF ClaimsLast, Active
  <2>6. claimed \subseteq applied
    BY <1>0 DEF HandoffTyped
  <2>7. FailuresCountedOnce' /\ AnsweredIsApplied'
    BY <1>0, <1>1, <2>1, <2>2, <2>6 DEF FailuresCountedOnce, AnsweredIsApplied
  <2> QED
    BY <2>3, <2>4, <2>5, <2>7 DEF HandoffInv
<1>9. ASSUME NEW c \in Callbacks, ApplyExtensionPublicationEvent(c) \/ RollBack(c) PROVE HandoffInv'
  <2>1. UNCHANGED <<applied, claimed, recorded, publication, token, status>> /\ Active(c)
    BY <1>9 DEF ApplyExtensionPublicationEvent, RollBack, Active
  <2>2. PICK to \in {"commit", "error"} : Becomes(c, to) /\ (to = "commit" => callback[c].pc = "claimed")
    BY <1>9 DEF ApplyExtensionPublicationEvent, RollBack
  <2> HIDE DEF HandoffTyped
  <2>3. HandoffTyped'
    BY <1>0, <1>1, <2>1, <2>2 DEF HandoffTyped
  <2>4. KeysAreHeld'
    BY <1>0, <1>1, <2>1, <2>2 DEF KeysAreHeld, Holding
  <2>5. ClaimsLast'
    BY <1>0, <1>1, <2>1, <2>2 DEF ClaimsLast, Active
  <2>6. FailuresCountedOnce' /\ AnsweredIsApplied'
    BY <1>0, <1>1, <2>1, <2>2 DEF FailuresCountedOnce, AnsweredIsApplied
  <2> QED
    BY <2>3, <2>4, <2>5, <2>6 DEF HandoffInv
<1>10. ASSUME NEW c \in Callbacks, Commit(c) PROVE HandoffInv'
  <2> DEFINE e == Event(c)
  <2>1. /\ claimed' = claimed \cup {e} /\ recorded' = recorded \cup {e} /\ applied' = applied \cup {e}
        /\ publication' = [publication EXCEPT !.retries =
               IF publication.present /\ status[e] = "failed" THEN @ + 1 ELSE @]
        /\ UNCHANGED <<status, token>> /\ callback[c].pc = "commit"
    BY <1>10 DEF Commit
  <2>2. PICK to \in {"accepted", "error"} : Becomes(c, to)
    BY <1>10 DEF Commit
  <2>3. e \notin claimed /\ \A other \in Callbacks \ {c} : Holding(other) => Event(other) # e
    BY <1>0, <2>1 DEF KeysAreHeld, Holding
  <2> HIDE DEF HandoffTyped
  <2>4. /\ publication' \in [present : BOOLEAN, retries : Nat] /\ publication'.present = publication.present
        /\ publication.retries \in Nat
        /\ publication'.retries = IF publication.present /\ status[e] = "failed" THEN publication.retries + 1
                                  ELSE publication.retries
    BY <1>0, <2>1 DEF HandoffTyped
  <2>5. HandoffTyped'
    <3>1. IsFiniteSet(applied')
      BY <1>0, <2>1, FS_AddElement DEF HandoffTyped
    <3> QED
      BY <1>0, <1>1, <2>1, <2>2, <2>4, <3>1 DEF HandoffTyped
  <2>6. KeysAreHeld'
    BY <1>0, <1>1, <2>1, <2>2, <2>3 DEF KeysAreHeld, Holding
  <2>7. claimed = applied \/ ~publication.present
    BY <1>0, <2>1 DEF ClaimsLast, Active
  <2>8. ClaimsLast'
    BY <2>1, <2>4, <2>7 DEF ClaimsLast
  <2>9. FailuresCountedOnce'
    <3> SUFFICES ASSUME publication.present
                 PROVE  publication'.retries = Cardinality({x \in applied' : status'[x] = "failed"})
      BY <2>4 DEF FailuresCountedOnce
    <3>1. publication.retries = Cardinality(Failed(applied))
      BY <1>0 DEF FailuresCountedOnce, Failed
    <3>2. e \notin applied /\ IsFiniteSet(applied)
      BY <1>0, <2>3, <2>7 DEF HandoffTyped
    <3>3. {x \in applied' : status'[x] = "failed"} = Failed(applied \cup {e})
      BY <2>1 DEF Failed
    <3> HIDE DEF e
    <3> QED
      BY <2>4, <3>1, <3>2, <3>3, FailureCounted
  <2>10. AnsweredIsApplied'
    BY <1>0, <1>1, <2>1, <2>2 DEF AnsweredIsApplied
  <2> QED
    BY <2>5, <2>6, <2>8, <2>9, <2>10 DEF HandoffInv
<1> QED
  BY <1>2, <1>3, <1>4, <1>5, <1>6, <1>7, <1>8, <1>9, <1>10 DEF HandoffNext

(* However callbacks overlap, repeat, are undone, or come after deletion and archiving: what is *)
(* answered is applied, and a failure counts once (RecordExtensionEvent).                       *)
THEOREM CallbacksCounted == HandoffSpec => []CallbacksCountOnce
<1>1. HandoffInv => CallbacksCountOnce
  BY DEF HandoffInv, CallbacksCountOnce
<1> QED
  BY <1>1, HandoffInitInv, HandoffStepInv, PTL DEF HandoffSpec

\* Each failure that is counted is of a callback that ended.
Finished == {c \in Callbacks : callback[c].pc \in {"accepted", "error"}}

HandoffBounded == HandoffTypeOK /\ publication.retries <= Cardinality(Finished)

(* A callback goes on; one that has ended stays so. *)
LEMMA CallbackGoesOn ==
  ASSUME HandoffTypeOK, NEW c \in Callbacks, callback[c].pc \notin {"accepted", "error"},
         NEW to \in {"received", "claimed", "commit", "accepted", "duplicate", "refused", "error"}, Becomes(c, to)
  PROVE  /\ callback' \in [Callbacks -> Callback]
         /\ Finished' = IF to \in {"accepted", "error"} THEN Finished \cup {c} ELSE Finished
         /\ c \notin Finished /\ IsFiniteSet(Finished) /\ Cardinality(Finished) \in Nat
         /\ Cardinality(Finished') \in Nat /\ Cardinality(Finished) <= Cardinality(Finished')
         /\ to \in {"accepted", "error"} => Cardinality(Finished') = Cardinality(Finished) + 1
<1>1. callback' = [callback EXCEPT ![c].pc = to] /\ callback \in [Callbacks -> Callback]
  BY DEF Becomes, HandoffTypeOK
<1>2. /\ callback' \in [Callbacks -> Callback]
      /\ \A x \in Callbacks : callback'[x].pc = IF x = c THEN to ELSE callback[x].pc
  BY <1>1 DEF Callback
<1>3. Finished' = (IF to \in {"accepted", "error"} THEN Finished \cup {c} ELSE Finished) /\ c \notin Finished
  BY <1>2 DEF Finished
<1>4. Finished \subseteq Callbacks
  BY DEF Finished
<1>5. IsFiniteSet(Finished) /\ Cardinality(Finished) \in Nat
  BY <1>4, HandoffAssumption, PartOfFinite
<1>6. Cardinality(Finished \cup {c}) = Cardinality(Finished) + 1
  BY <1>3, <1>5, FS_AddElement
<1> HIDE DEF Finished
<1> QED
  BY <1>2, <1>3, <1>5, <1>6

(* Every step keeps the types: the counter is raised for a callback that ends then. *)
LEMMA HandoffStepTypes == HandoffBounded /\ [HandoffNext]_handoffVars => HandoffBounded'
<1> SUFFICES ASSUME HandoffBounded, [HandoffNext]_handoffVars PROVE HandoffBounded'
  OBVIOUS
<1>0. HandoffTypeOK /\ publication.retries <= Cardinality(Finished)
  BY DEF HandoffBounded
<1>1. CASE CreateExtensionHandoff \/ TokenExpires \/ DeleteFindsEvents \/ DeleteCommits \/ ArchiveEvents
           \/ UNCHANGED handoffVars
  <2>1. Finished' = Finished /\ callback' = callback
    BY <1>1 DEF CreateExtensionHandoff, TokenExpires, DeleteFindsEvents, DeleteCommits, ArchiveEvents, handoffVars, Finished
  <2>2. publication' = publication \/ publication' = [publication EXCEPT !.present = FALSE]
    BY <1>1 DEF CreateExtensionHandoff, TokenExpires, DeleteFindsEvents, DeleteCommits, ArchiveEvents, handoffVars
  <2>3. /\ publication' \in [present : BOOLEAN, retries : 0..Cardinality(Callbacks)]
        /\ publication'.retries = publication.retries
    BY <1>0, <2>2 DEF HandoffTypeOK
  <2>4. HandoffTypeOK'
    BY <1>0, <1>1, <2>1, <2>3 DEF HandoffTypeOK, CreateExtensionHandoff, TokenExpires, DeleteFindsEvents, DeleteCommits,
                                   ArchiveEvents, handoffVars
  <2> QED
    BY <1>0, <2>1, <2>3, <2>4 DEF HandoffBounded
<1>2. ASSUME NEW c \in Callbacks,
             RecordExtensionEvent(c) \/ ClaimEvent(c) \/ ApplyExtensionPublicationEvent(c) \/ RollBack(c)
      PROVE  HandoffBounded'
  <2>1. /\ UNCHANGED <<status, token, claimed, recorded, applied, publication, deletion>>
        /\ callback[c].pc \in {"idle", "received", "claimed", "commit"}
    BY <1>2 DEF RecordExtensionEvent, ClaimEvent, ApplyExtensionPublicationEvent, RollBack
  <2>2. \E to \in {"received", "refused", "claimed", "duplicate", "commit", "error"} : Becomes(c, to)
    BY <1>2 DEF RecordExtensionEvent, ClaimEvent, ApplyExtensionPublicationEvent, RollBack
  <2>3. /\ callback' \in [Callbacks -> Callback]
        /\ Cardinality(Finished) \in Nat /\ Cardinality(Finished') \in Nat /\ Cardinality(Finished) <= Cardinality(Finished')
    BY <1>0, <2>1, <2>2, CallbackGoesOn
  <2>4. HandoffTypeOK'
    BY <1>0, <2>1, <2>3 DEF HandoffTypeOK
  <2>5. publication.retries \in Nat /\ publication' = publication
    BY <1>0, <2>1 DEF HandoffTypeOK
  <2> QED
    BY <1>0, <2>3, <2>4, <2>5 DEF HandoffBounded
<1>3. ASSUME NEW c \in Callbacks, Commit(c) PROVE HandoffBounded'
  <2>1. callback[c].pc = "commit" /\ \E to \in {"accepted", "error"} : Becomes(c, to)
    BY <1>3 DEF Commit
  <2>2. /\ callback' \in [Callbacks -> Callback]
        /\ Cardinality(Finished) \in Nat /\ Cardinality(Finished') = Cardinality(Finished) + 1
    BY <1>0, <2>1, CallbackGoesOn
  <2>3. Finished' \subseteq Callbacks
    BY DEF Finished
  <2>4. Cardinality(Finished') <= Cardinality(Callbacks) /\ Cardinality(Callbacks) \in Nat
    BY <2>3, HandoffAssumption, PartOfFinite
  <2> DEFINE more == IF publication.present /\ status[Event(c)] = "failed" THEN publication.retries + 1
                     ELSE publication.retries
  <2>5. publication' = [publication EXCEPT !.retries = more]
    BY <1>3 DEF Commit
  <2>6. publication.retries \in Nat
    BY <1>0 DEF HandoffTypeOK
  <2>7. more \in 0..Cardinality(Callbacks) /\ more <= Cardinality(Finished')
    BY <1>0, <2>2, <2>4, <2>6
  <2> HIDE DEF more
  <2>8. publication' \in [present : BOOLEAN, retries : 0..Cardinality(Callbacks)] /\ publication'.retries = more
    BY <1>0, <2>5, <2>7 DEF HandoffTypeOK
  <2>9. Event(c) \in Reports
    BY <1>0 DEF HandoffTypeOK, Callback, Event
  <2>10. claimed' \subseteq Reports /\ recorded' \subseteq Reports /\ applied' \subseteq Reports
         /\ UNCHANGED <<status, token, deletion>>
    BY <1>0, <1>3, <2>9 DEF HandoffTypeOK, Commit
  <2>11. HandoffTypeOK'
    BY <1>0, <2>2, <2>8, <2>10 DEF HandoffTypeOK
  <2> QED
    BY <2>7, <2>8, <2>11 DEF HandoffBounded
<1> QED
  BY <1>1, <1>2, <1>3 DEF HandoffNext

(* The rows of a handoff keep their types, and however often callbacks repeat and overlap, there are *)
(* no more failures counted than callbacks (RecordExtensionEvent).                                   *)
THEOREM HandoffTypesHold == HandoffSpec => []HandoffTypeOK
<1>1. HandoffInit => HandoffBounded
  <2> SUFFICES ASSUME HandoffInit PROVE HandoffBounded
    OBVIOUS
  <2>1. PICK reported \in [Reports -> Statuses], event \in [Callbacks -> Reports] : HandoffInitOf(reported, event)
    BY DEF HandoffInit
  <2>2. Cardinality(Callbacks) \in Nat
    BY HandoffAssumption, FS_CardinalityType
  <2>3. Finished = {}
    BY <2>1 DEF HandoffInitOf, Finished
  <2>4. HandoffTypeOK /\ publication.retries = 0
    BY <2>1, <2>2 DEF HandoffInitOf, HandoffTypeOK, Callback
  <2> QED
    BY <2>3, <2>4, FS_EmptySet DEF HandoffBounded
<1>2. HandoffBounded => HandoffTypeOK
  BY DEF HandoffBounded
<1> QED
  BY <1>1, <1>2, HandoffStepTypes, PTL DEF HandoffSpec

-----------------------------------------------------------------------------
(* The archive                                                             *)

Batches == 0 .. Cardinality(Rows)

\* The keys a run has not written yet are free, and what it is about to take is old, final and,
\* once it is about to remove it, in the storage.
RunKeysFree(a) ==
    LET x == archiver[a] IN
    /\ x.pc \in {"check", "encode", "putPartition"} => objects[<<x.run, 0>>] = {}
    /\ x.pc \in {"check", "encode", "putPartition", "drop", "query", "put"} =>
          \A m \in Batches : m >= x.batch => objects[<<x.run, m>>] = {}
    /\ x.pc = "delete" => \A m \in Batches : m > x.batch => objects[<<x.run, m>>] = {}

PartitionReady(a) ==
    LET x == archiver[a] IN
    /\ x.pc \in {"check", "encode", "putPartition", "drop"} => monthCold
    /\ x.pc \in {"encode", "putPartition", "drop"} => Early \cap table \subseteq closed
    /\ x.pc = "putPartition" => Early \cap table \subseteq x.records
    /\ x.pc = "drop" => Early \cap table \subseteq objects[<<x.run, 0>>]

BatchReady(a) ==
    LET x == archiver[a] IN
    /\ x.cut \subseteq cold
    /\ x.batch <= Cardinality(born \ table) + 1
    /\ x.pc \in {"put", "delete"} =>
          x.batch \in Batches /\ x.records # {} /\ x.records \subseteq closed \cap cold
    /\ x.pc = "delete" => objects[<<x.run, x.batch>>] = x.records

ArchiverOK(a) ==
    /\ archiver[a].pc # "idle" => archiver[a].run \in 1 .. runs
    /\ RunKeysFree(a) /\ PartitionReady(a) /\ BatchReady(a)

RunsDiffer ==
    \A a, b \in Archivers :
        a # b /\ archiver[a].pc # "idle" /\ archiver[b].pc # "idle" => archiver[a].run # archiver[b].run

LaterKeysFree == \A n \in 0 .. MaxRuns, m \in Batches : n > runs => objects[<<n, m>>] = {}

MonthIsCold == monthCold => Early \cap born \subseteq cold

ArchiveInv ==
    /\ ArchiveTypeOK /\ table \subseteq born /\ MonthIsCold
    /\ RunsDiffer /\ LaterKeysFree /\ \A a \in Archivers : ArchiverOK(a)
    /\ NothingLost

\* What a step never undoes.
OnlyGoesOn ==
    /\ cold \subseteq cold' /\ closed \subseteq closed' /\ born \subseteq born' /\ born' \subseteq Rows
    /\ monthCold => monthCold' /\ (Early \cap table' \subseteq table)
    /\ born \ table \subseteq born' \ table'
    /\ runs <= runs'

(* Whoever a step leaves alone stays as it should be. *)
LEMMA ArchiverKept ==
  ASSUME ArchiveInv, ArchiveTypeOK', OnlyGoesOn, NEW a \in Archivers, archiver'[a] = archiver[a],
         archiver[a].pc # "idle" => \A m \in Batches : objects'[<<archiver[a].run, m>>] = objects[<<archiver[a].run, m>>]
  PROVE  ArchiverOK(a)'
<1> USE ArchiveAssumption
<1>0. ArchiverOK(a) /\ archiver[a] \in Archiver /\ runs \in Nat /\ runs' \in Nat /\ Cardinality(Rows) \in Nat
  BY FS_CardinalityType DEF ArchiveInv, ArchiveTypeOK
<1>1. archiver'[a].pc # "idle" => archiver'[a].run \in 1 .. runs'
  BY <1>0 DEF ArchiverOK, OnlyGoesOn, Archiver
<1>2. 0 \in Batches
  BY <1>0 DEF Batches
<1>3. RunKeysFree(a)'
  BY <1>0, <1>2 DEF ArchiverOK, RunKeysFree, Batches
<1>4. PartitionReady(a)'
  BY <1>0, <1>2 DEF ArchiverOK, PartitionReady, OnlyGoesOn
<1>5. Cardinality(born \ table) \in Nat /\ Cardinality(born' \ table') \in Nat
      /\ Cardinality(born \ table) <= Cardinality(born' \ table')
  <2>1. IsFiniteSet(born' \ table')
    BY PartOfFinite DEF OnlyGoesOn
  <2> QED
    BY <2>1, PartOfFinite DEF OnlyGoesOn
<1>6. BatchReady(a)'
  <2>1. archiver[a].batch \in Nat
    BY <1>0 DEF Archiver
  <2>2. archiver'[a].batch <= Cardinality(born' \ table') + 1
    BY <1>0, <1>5, <2>1 DEF ArchiverOK, BatchReady
  <2> QED
    BY <1>0, <2>2 DEF ArchiverOK, BatchReady, OnlyGoesOn, Batches
<1> QED
  BY <1>1, <1>3, <1>4, <1>6 DEF ArchiverOK

(* What leaves the table is archived, old and final, and takes its claims along. *)
LEMMA NothingLostStep ==
  ASSUME NothingLost, NEW taken,
         Departed' \subseteq Departed \cup taken, taken \subseteq cold' \cap closed',
         taken = {} \/ (\E k \in ObjectKeys : taken \subseteq objects'[k]),
         \A k \in ObjectKeys : objects[k] \subseteq objects'[k],
         cold \subseteq cold', closed \subseteq closed',
         table' \subseteq claims', claims' \cap Departed' = {}
  PROVE  NothingLost'
<1>1. Archived \subseteq Archived' /\ taken \subseteq Archived'
  BY DEF Archived
<1>2. DepartedIsArchived'
  BY <1>1 DEF NothingLost, DepartedIsArchived
<1>3. OpenRowsStay'
  BY DEF NothingLost, OpenRowsStay
<1> QED
  BY <1>2, <1>3 DEF NothingLost, ClaimsFollowRows

(* Initially there is no row. *)
LEMMA ArchiveInitInv == ArchiveInit => ArchiveInv
<1> SUFFICES ASSUME ArchiveInit PROVE ArchiveInv
  OBVIOUS
<1> USE ArchiveAssumption DEF ArchiveInit
<1>0. Cardinality(Rows) \in Nat
  BY FS_CardinalityType
<1>1. IdleArchiver \in Archiver
  BY <1>0 DEF IdleArchiver, Archiver
<1>2. ArchiveTypeOK
  <2>1. objects \in [ObjectKeys -> SUBSET Rows] /\ archiver \in [Archivers -> Archiver]
    BY <1>1
  <2>2. runs \in 0 .. MaxRuns
    OBVIOUS
  <2> QED
    BY <2>1, <2>2 DEF ArchiveTypeOK
<1>3. \A n \in 0 .. MaxRuns, m \in Batches : objects[<<n, m>>] = {}
  BY DEF Batches, ObjectKeys
<1>4. born \ table = {} /\ Departed = {}
  BY DEF Departed
<1>5. ASSUME NEW a \in Archivers PROVE ArchiverOK(a)
  <2>1. archiver[a] = IdleArchiver /\ Cardinality(born \ table) = 0
    BY <1>4, FS_EmptySet
  <2> QED
    BY <1>3, <2>1 DEF ArchiverOK, RunKeysFree, PartitionReady, BatchReady, IdleArchiver
<1>6. NothingLost
  BY <1>4 DEF NothingLost, DepartedIsArchived, OpenRowsStay, ClaimsFollowRows
<1> QED
  <2>1. RunsDiffer
    BY DEF RunsDiffer, IdleArchiver
  <2>2. LaterKeysFree
    BY <1>3 DEF LaterKeysFree
  <2>3. MonthIsCold /\ table \subseteq born
    BY DEF MonthIsCold
  <2> QED
    BY <1>2, <1>5, <1>6, <2>1, <2>2, <2>3 DEF ArchiveInv

(* Rows come, close, age and go while the archivers are at work. *)
LEMMA RowsStepInv ==
  ASSUME ArchiveInv,
         \/ MonthAges \/ UNCHANGED archiveVars
         \/ \E r \in Rows : Insert(r) \/ Close(r) \/ RowDeletedElsewhere(r) \/ Age(r)
  PROVE  ArchiveInv'
<1> USE ArchiveAssumption
<1>0. ArchiveTypeOK /\ table \subseteq born /\ MonthIsCold /\ RunsDiffer /\ LaterKeysFree /\ NothingLost
  BY DEF ArchiveInv
<1>1. UNCHANGED <<objects, runs, archiver>>
  BY DEF MonthAges, archiveVars, Insert, Close, RowDeletedElsewhere, Age
<1>2. ASSUME ArchiveTypeOK', OnlyGoesOn, table' \subseteq born', MonthIsCold', Departed' \subseteq Departed,
             table' \subseteq claims', claims' \cap Departed' = {}
      PROVE  ArchiveInv'
  <2>1. \A a \in Archivers : ArchiverOK(a)'
    BY <1>1, <1>2, ArchiverKept
  <2>2. NothingLost'
    <3>1. /\ Departed' \subseteq Departed \cup {} /\ {} \subseteq cold' \cap closed'
          /\ \A k \in ObjectKeys : objects[k] \subseteq objects'[k]
          /\ cold \subseteq cold' /\ closed \subseteq closed'
      BY <1>1, <1>2 DEF OnlyGoesOn
    <3> QED
      BY <1>0, <1>2, <3>1, NothingLostStep
  <2>3. RunsDiffer' /\ LaterKeysFree'
    BY <1>0, <1>1 DEF RunsDiffer, LaterKeysFree
  <2> QED
    BY <1>2, <2>1, <2>2, <2>3 DEF ArchiveInv
<1>3. table \subseteq claims /\ claims \cap Departed = {} /\ runs \in Nat
  BY <1>0 DEF NothingLost, ClaimsFollowRows, ArchiveTypeOK
<1>4. ASSUME NEW r \in Rows, Insert(r) PROVE ArchiveInv'
  <2>1. /\ r \notin born /\ (r \in Early => ~monthCold) /\ table' = table \cup {r} /\ born' = born \cup {r}
        /\ claims' = claims \cup {r} /\ closed' \in {closed, closed \cup {r}}
        /\ UNCHANGED <<cold, monthCold, attached, forsaken, lockedBy>>
    BY <1>4 DEF Insert
  <2>2. ArchiveTypeOK'
    BY <1>0, <1>1, <2>1 DEF ArchiveTypeOK
  <2>3. MonthIsCold' /\ table' \subseteq born'
    BY <1>0, <2>1 DEF MonthIsCold
  <2>4. Departed' \subseteq Departed /\ table' \subseteq claims' /\ claims' \cap Departed' = {}
    BY <1>3, <2>1 DEF Departed
  <2> QED
    <3>1. CASE r \notin Early
      <4>1. OnlyGoesOn
        BY <1>0, <1>1, <1>3, <2>1, <3>1 DEF OnlyGoesOn, ArchiveTypeOK
      <4> QED
        BY <1>2, <2>2, <2>3, <2>4, <4>1
    <3>2. CASE ~monthCold
      <4>1. OnlyGoesOn
        BY <1>0, <1>1, <1>3, <2>1, <3>2 DEF OnlyGoesOn, ArchiveTypeOK
      <4> QED
        BY <1>2, <2>2, <2>3, <2>4, <4>1
    <3> QED
      BY <2>1, <3>1, <3>2
<1>5. ASSUME NEW r \in Rows, Close(r) \/ Age(r) \/ RowDeletedElsewhere(r) PROVE ArchiveInv'
  <2>1. /\ UNCHANGED <<born, monthCold, attached, lockedBy>>
        /\ \/ r \in table /\ closed' = closed \cup {r} /\ UNCHANGED <<cold, table, claims, forsaken>>
           \/ r \in born /\ cold' = cold \cup {r} /\ UNCHANGED <<closed, table, claims, forsaken>>
           \/ /\ r \in table /\ table' = table \ {r} /\ claims' \in {claims, claims \ {r}}
              /\ forsaken' = forsaken \cup {r} /\ UNCHANGED <<cold, closed>>
    BY <1>5 DEF Close, Age, RowDeletedElsewhere
  <2>2. ArchiveTypeOK'
    BY <1>0, <1>1, <2>1 DEF ArchiveTypeOK
  <2>3. OnlyGoesOn /\ MonthIsCold' /\ table' \subseteq born'
    BY <1>0, <1>1, <1>3, <2>1 DEF OnlyGoesOn, MonthIsCold, ArchiveTypeOK
  <2>4. Departed' \subseteq Departed /\ table' \subseteq claims' /\ claims' \cap Departed' = {}
    BY <1>3, <2>1 DEF Departed
  <2> QED
    BY <1>2, <2>2, <2>3, <2>4
<1>6. CASE MonthAges
  <2>1. /\ UNCHANGED <<table, born, closed, claims, attached, forsaken, lockedBy>>
        /\ ~monthCold /\ monthCold' = TRUE /\ cold' = cold \cup (Early \cap born)
    BY <1>6 DEF MonthAges
  <2>2. ArchiveTypeOK'
    BY <1>0, <1>1, <2>1 DEF ArchiveTypeOK
  <2>3. OnlyGoesOn /\ MonthIsCold' /\ table' \subseteq born'
    BY <1>0, <1>1, <1>3, <2>1 DEF OnlyGoesOn, MonthIsCold, ArchiveTypeOK
  <2>4. Departed' \subseteq Departed /\ table' \subseteq claims' /\ claims' \cap Departed' = {}
    BY <1>3, <2>1 DEF Departed
  <2> QED
    BY <1>2, <2>2, <2>3, <2>4
<1>7. CASE UNCHANGED archiveVars
  <2>1. ArchiveTypeOK' /\ MonthIsCold' /\ table' \subseteq born'
    BY <1>0, <1>7 DEF archiveVars, ArchiveTypeOK, MonthIsCold
  <2>2. OnlyGoesOn
    BY <1>0, <1>3, <1>7 DEF archiveVars, ArchiveTypeOK, OnlyGoesOn
  <2>3. Departed' \subseteq Departed /\ table' \subseteq claims' /\ claims' \cap Departed' = {}
    BY <1>3, <1>7 DEF archiveVars, Departed
  <2> QED
    BY <1>2, <2>1, <2>2, <2>3
<1> QED
  BY <1>4, <1>5, <1>6, <1>7

(* A step of one archiver that leaves it as it should be, and the keys of the others alone. *)
LEMMA OneArchiver ==
  ASSUME ArchiveInv, NEW a \in Archivers,
         ArchiveTypeOK', UNCHANGED <<born, closed, cold, monthCold, forsaken>>, table' \subseteq table,
         born \ table \subseteq born \ table', runs' \in {runs, runs + 1},
         \A b \in Archivers \ {a} : archiver'[b] = archiver[b],
         \/ objects' = objects
         \/ /\ archiver[a].pc # "idle" /\ UNCHANGED runs
            /\ \A n \in 0 .. MaxRuns, m \in Batches : n # archiver[a].run => objects'[<<n, m>>] = objects[<<n, m>>],
         \/ archiver'[a].pc = "idle"
         \/ archiver[a].pc # "idle" /\ archiver'[a].run = archiver[a].run
         \/ archiver'[a].run > runs,
         ArchiverOK(a)', NothingLost'
  PROVE  ArchiveInv'
<1> USE ArchiveAssumption
<1>0. /\ ArchiveTypeOK /\ table \subseteq born /\ MonthIsCold /\ RunsDiffer /\ LaterKeysFree
      /\ \A b \in Archivers : ArchiverOK(b) /\ archiver[b] \in Archiver
      /\ runs \in 0 .. MaxRuns /\ runs' \in 0 .. MaxRuns
  BY DEF ArchiveInv, ArchiveTypeOK
<1>1. OnlyGoesOn
  BY <1>0 DEF OnlyGoesOn, ArchiveTypeOK
<1>2. ASSUME NEW b \in Archivers, b # a PROVE ArchiverOK(b)'
  <2>1. ASSUME archiver[b].pc # "idle", NEW m \in Batches
        PROVE  objects'[<<archiver[b].run, m>>] = objects[<<archiver[b].run, m>>]
    <3>1. archiver[b].run \in 0 .. MaxRuns
      BY <1>0 DEF Archiver
    <3>2. archiver[a].pc # "idle" => archiver[b].run # archiver[a].run
      BY <1>0, <1>2, <2>1 DEF RunsDiffer
    <3> QED
      BY <3>1, <3>2
  <2> QED
    BY <1>1, <1>2, <2>1, ArchiverKept
<1>3. RunsDiffer'
  <2>1. ASSUME NEW b \in Archivers \ {a}, archiver[b].pc # "idle", archiver'[a].pc # "idle"
        PROVE  archiver[b].run # archiver'[a].run
    <3>1. archiver[b].run \in 1 .. runs
      BY <1>0, <2>1 DEF ArchiverOK
    <3>2. archiver[a].pc # "idle" => archiver[a].run # archiver[b].run
      BY <1>0, <2>1 DEF RunsDiffer
    <3>3. archiver'[a].run \in Nat
      BY DEF ArchiveTypeOK, Archiver
    <3> QED
      BY <1>0, <2>1, <3>1, <3>2, <3>3
  <2> QED
    BY <1>0, <2>1 DEF RunsDiffer
<1>4. LaterKeysFree'
  <2> SUFFICES ASSUME NEW n \in 0 .. MaxRuns, NEW m \in Batches, n > runs' PROVE objects'[<<n, m>>] = {}
    BY DEF LaterKeysFree
  <2>1. objects[<<n, m>>] = {}
    BY <1>0 DEF LaterKeysFree
  <2>2. CASE objects' = objects
    BY <2>1, <2>2
  <2>3. CASE /\ archiver[a].pc # "idle" /\ UNCHANGED runs
             /\ \A i \in 0 .. MaxRuns, j \in Batches : i # archiver[a].run => objects'[<<i, j>>] = objects[<<i, j>>]
    <3>1. archiver[a].run \in 1 .. runs
      BY <1>0, <2>3 DEF ArchiverOK
    <3> QED
      BY <1>0, <2>1, <2>3, <3>1
  <2> QED
    BY <2>2, <2>3
<1>5. MonthIsCold' /\ table' \subseteq born'
  BY <1>0 DEF MonthIsCold
<1> QED
  BY <1>2, <1>3, <1>4, <1>5 DEF ArchiveInv

(* A step that takes nothing out of the table. *)
LEMMA NothingTaken ==
  ASSUME ArchiveInv, UNCHANGED <<table, born, closed, claims, cold, forsaken>>,
         \A k \in ObjectKeys : objects[k] \subseteq objects'[k]
  PROVE  NothingLost'
<1>1. /\ Departed' \subseteq Departed \cup {} /\ {} \subseteq cold' \cap closed'
      /\ table' \subseteq claims' /\ claims' \cap Departed' = {}
  BY DEF Departed, ArchiveInv, NothingLost, ClaimsFollowRows
<1> QED
  BY <1>1, NothingLostStep DEF ArchiveInv

(* A step that changes where one archiver stands, and at most who holds the lock. *)
LEMMA OnlyStands ==
  ASSUME ArchiveInv, NEW a \in Archivers, NEW x \in Archiver, archiver' = [archiver EXCEPT ![a] = x],
         UNCHANGED <<table, born, closed, claims, cold, monthCold, attached, objects, forsaken, runs>>,
         lockedBy' \in {lockedBy, NoArchiver},
         x.pc # "idle" => archiver[a].pc # "idle" /\ x.run = archiver[a].run,
         archiver' \in [Archivers -> Archiver] /\ archiver'[a] = x => RunKeysFree(a)' /\ PartitionReady(a)' /\ BatchReady(a)'
  PROVE  ArchiveInv'
<1>0. ArchiveTypeOK /\ archiver \in [Archivers -> Archiver] /\ ArchiverOK(a)
  BY DEF ArchiveInv, ArchiveTypeOK
<1>1. archiver' \in [Archivers -> Archiver] /\ archiver'[a] = x
      /\ \A b \in Archivers \ {a} : archiver'[b] = archiver[b]
  BY <1>0
<1>2. ArchiveTypeOK'
  BY <1>0, <1>1 DEF ArchiveTypeOK
<1>3. ArchiverOK(a)'
  BY <1>0, <1>1 DEF ArchiverOK
<1>4. NothingLost'
  BY NothingTaken
<1> QED
  BY <1>0, <1>1, <1>2, <1>3, <1>4, OneArchiver

(* A run begins with keys nobody has used. *)
LEMMA StartRunInv ==
  ASSUME ArchiveInv, NEW a \in Archivers, StartRun(a)
  PROVE  ArchiveInv'
<1> USE ArchiveAssumption
<1> DEFINE x == [IdleArchiver EXCEPT !.pc = IF monthCold /\ attached THEN "check" ELSE "query",
                                     !.run = runs + 1, !.cut = cold]
<1>0. /\ ArchiveTypeOK /\ archiver \in [Archivers -> Archiver] /\ LaterKeysFree /\ runs \in Nat
      /\ runs < MaxRuns /\ runs' = runs + 1 /\ archiver' = [archiver EXCEPT ![a] = x]
      /\ UNCHANGED <<table, born, closed, claims, cold, monthCold, attached, objects, forsaken>>
      /\ lockedBy' = a /\ Cardinality(Rows) \in Nat
  BY FS_CardinalityType DEF ArchiveInv, ArchiveTypeOK, StartRun
<1>1. /\ x.pc \in {"check", "query"} /\ (x.pc = "check" => monthCold) /\ x.run = runs + 1
      /\ x.cut = cold /\ x.batch = 1 /\ x.records = {} /\ x.conn = TRUE
  BY DEF IdleArchiver
<1>2. x \in Archiver
  <2>1. cold \in SUBSET Rows /\ runs + 1 \in 0 .. MaxRuns /\ 1 \in 1 .. (Cardinality(Rows) + 1)
    BY <1>0 DEF ArchiveTypeOK
  <2> QED
    BY <2>1 DEF IdleArchiver, Archiver
<1> HIDE DEF x
<1>3. /\ archiver' \in [Archivers -> Archiver] /\ archiver'[a] = x
      /\ \A b \in Archivers \ {a} : archiver'[b] = archiver[b]
  BY <1>0, <1>2
<1>4. ArchiveTypeOK'
  <2>1. runs' \in 0 .. MaxRuns
    BY <1>0
  <2> QED
    BY <1>0, <1>3, <2>1 DEF ArchiveTypeOK
<1>5. ArchiverOK(a)'
  <2>1. runs + 1 \in 0 .. MaxRuns /\ runs + 1 > runs /\ runs + 1 \in 1 .. runs'
    BY <1>0
  <2>2. \A m \in Batches : objects'[<<runs + 1, m>>] = {}
    BY <1>0, <2>1 DEF LaterKeysFree
  <2>3. 0 \in Batches
    BY <1>0 DEF Batches
  <2>4. RunKeysFree(a)' /\ PartitionReady(a)'
    BY <1>0, <1>1, <1>3, <2>2, <2>3 DEF RunKeysFree, PartitionReady, Batches
  <2>5. 1 <= Cardinality(born' \ table') + 1
    BY PartOfFinite, <1>4 DEF ArchiveTypeOK
  <2>6. BatchReady(a)'
    BY <1>0, <1>1, <1>3, <2>5 DEF BatchReady
  <2> QED
    BY <1>1, <1>3, <2>1, <2>4, <2>6 DEF ArchiverOK
<1>6. NothingLost'
  BY <1>0, NothingTaken
<1>7. archiver'[a].run > runs
  BY <1>0, <1>1, <1>3
<1> QED
  BY <1>0, <1>3, <1>4, <1>5, <1>6, <1>7, OneArchiver

(* Looking, encoding, giving up: steps that write neither the table nor the storage. *)
LEMMA ControlInv ==
  ASSUME ArchiveInv, NEW a \in Archivers,
         \/ CanDropPartition(a) \/ EncodePartition(a) \/ Unlock(a) \/ StepFails(a)
         \/ ConnectionLost(a) \/ GivesUp(a)
  PROVE  ArchiveInv'
<1> USE ArchiveAssumption
<1> DEFINE r == archiver[a]
<1>0. /\ ArchiveTypeOK /\ archiver \in [Archivers -> Archiver] /\ r \in Archiver /\ table \subseteq born
      /\ ArchiverOK(a) /\ Cardinality(Rows) \in Nat
  BY FS_CardinalityType DEF ArchiveInv, ArchiveTypeOK
<1>1. RunKeysFree(a) /\ PartitionReady(a) /\ BatchReady(a)
  BY <1>0 DEF ArchiverOK
<1>2. 1 <= Cardinality(born \ table) + 1
  BY <1>0, PartOfFinite DEF ArchiveTypeOK
<1>3. /\ UNCHANGED <<table, born, closed, claims, cold, monthCold, attached, objects, forsaken, runs>>
      /\ lockedBy' \in {lockedBy, NoArchiver}
  BY DEF CanDropPartition, EncodePartition, Unlock, StepFails, ConnectionLost, GivesUp, Goes
<1>4. CASE CanDropPartition(a)
  <2> DEFINE x == [r EXCEPT !.pc = IF Early \cap table \subseteq closed THEN "encode" ELSE "query"]
  <2>1. archiver' = [archiver EXCEPT ![a] = x] /\ r.pc = "check"
    BY <1>4 DEF CanDropPartition, Goes
  <2>2. x \in Archiver /\ x.run = r.run /\ x.cut = r.cut /\ x.batch = r.batch /\ x.records = r.records
        /\ x.pc \in {"encode", "query"} /\ (x.pc = "encode" => Early \cap table \subseteq closed)
    BY <1>0 DEF Archiver
  <2> HIDE DEF x
  <2>3. ASSUME archiver'[a] = x PROVE RunKeysFree(a)' /\ PartitionReady(a)' /\ BatchReady(a)'
    BY <1>1, <1>3, <2>1, <2>2, <2>3 DEF RunKeysFree, PartitionReady, BatchReady
  <2> QED
    BY <1>3, <2>1, <2>2, <2>3, OnlyStands
<1>5. CASE EncodePartition(a)
  <2> DEFINE x == [r EXCEPT !.records = Early \cap table,
                            !.pc = IF Early \cap table = {} THEN "drop" ELSE "putPartition"]
  <2>1. archiver' = [archiver EXCEPT ![a] = x] /\ r.pc = "encode"
    BY <1>5 DEF EncodePartition
  <2>2. x \in Archiver /\ x.run = r.run /\ x.cut = r.cut /\ x.batch = r.batch /\ x.records = Early \cap table
        /\ x.pc \in {"drop", "putPartition"} /\ (x.pc = "drop" => Early \cap table = {})
    <3>1. Early \cap table \in SUBSET Rows
      BY <1>0 DEF ArchiveTypeOK
    <3> QED
      BY <1>0, <3>1 DEF Archiver
  <2> HIDE DEF x
  <2>3. ASSUME archiver'[a] = x PROVE RunKeysFree(a)' /\ PartitionReady(a)' /\ BatchReady(a)'
    BY <1>1, <1>3, <2>1, <2>2, <2>3 DEF RunKeysFree, PartitionReady, BatchReady
  <2> QED
    BY <1>3, <2>1, <2>2, <2>3, OnlyStands
<1>6. CASE Unlock(a) \/ GivesUp(a)
  <2>1. archiver' = [archiver EXCEPT ![a] = IdleArchiver]
    BY <1>6 DEF Unlock, GivesUp
  <2>2. IdleArchiver \in Archiver
    BY <1>0 DEF IdleArchiver, Archiver
  <2>3. ASSUME archiver'[a] = IdleArchiver PROVE RunKeysFree(a)' /\ PartitionReady(a)' /\ BatchReady(a)'
    BY <1>2, <1>3, <2>3 DEF RunKeysFree, PartitionReady, BatchReady, IdleArchiver
  <2>4. IdleArchiver.pc = "idle"
    BY DEF IdleArchiver
  <2> QED
    BY <1>3, <2>1, <2>2, <2>3, <2>4, OnlyStands
<1>7. CASE StepFails(a)
  <2> DEFINE x == [r EXCEPT !.pc = "unlock"]
  <2>1. archiver' = [archiver EXCEPT ![a] = x] /\ r.pc # "idle"
    BY <1>7 DEF StepFails, Goes
  <2>2. x \in Archiver /\ x.run = r.run /\ x.cut = r.cut /\ x.batch = r.batch /\ x.pc = "unlock"
    BY <1>0 DEF Archiver
  <2> HIDE DEF x
  <2>3. ASSUME archiver'[a] = x PROVE RunKeysFree(a)' /\ PartitionReady(a)' /\ BatchReady(a)'
    BY <1>1, <1>3, <2>2, <2>3 DEF RunKeysFree, PartitionReady, BatchReady
  <2> QED
    BY <1>3, <2>1, <2>2, <2>3, OnlyStands
<1>8. CASE ConnectionLost(a)
  <2> DEFINE x == [r EXCEPT !.conn = FALSE]
  <2>1. archiver' = [archiver EXCEPT ![a] = x]
    BY <1>8 DEF ConnectionLost
  <2>2. x \in Archiver /\ x.run = r.run /\ x.cut = r.cut /\ x.batch = r.batch /\ x.pc = r.pc
        /\ x.records = r.records
    BY <1>0 DEF Archiver
  <2> HIDE DEF x
  <2>3. ASSUME archiver'[a] = x PROVE RunKeysFree(a)' /\ PartitionReady(a)' /\ BatchReady(a)'
    BY <1>1, <1>3, <2>2, <2>3 DEF RunKeysFree, PartitionReady, BatchReady
  <2> QED
    BY <1>3, <2>1, <2>2, <2>3, OnlyStands
<1> QED
  BY <1>4, <1>5, <1>6, <1>7, <1>8

(* The next batch has a number of its own: every batch before it took a row at least. *)
LEMMA QueryBatchInv ==
  ASSUME ArchiveInv, NEW a \in Archivers, QueryBatch(a)
  PROVE  ArchiveInv'
<1> USE ArchiveAssumption
<1> DEFINE r == archiver[a]
<1>0. /\ ArchiveTypeOK /\ archiver \in [Archivers -> Archiver] /\ r \in Archiver /\ table \subseteq born
      /\ RunKeysFree(a) /\ PartitionReady(a) /\ BatchReady(a)
  BY DEF ArchiveInv, ArchiveTypeOK, ArchiverOK
<1>1. PICK records \in SUBSET (table \cap closed \cap r.cut) :
         archiver' = [archiver EXCEPT ![a].records = records,
                                      ![a].pc = IF records = {} THEN "unlock" ELSE "put"]
  BY DEF QueryBatch
<1>2. /\ UNCHANGED <<table, born, closed, claims, cold, monthCold, attached, objects, forsaken, runs, lockedBy>>
      /\ r.pc = "query"
  BY DEF QueryBatch
<1> DEFINE x == [r EXCEPT !.records = records, !.pc = IF records = {} THEN "unlock" ELSE "put"]
<1>3. archiver' = [archiver EXCEPT ![a] = x]
  BY <1>1
<1>4. x \in Archiver /\ x.run = r.run /\ x.cut = r.cut /\ x.batch = r.batch /\ x.records = records
      /\ x.pc = IF records = {} THEN "unlock" ELSE "put"
  <2>1. records \in SUBSET Rows
    BY <1>0 DEF ArchiveTypeOK
  <2> QED
    BY <1>0, <2>1 DEF Archiver
<1>5. ASSUME records # {} PROVE r.batch \in Batches
  <2>1. PICK row \in records : TRUE
    BY <1>5
  <2>2. row \in Rows /\ born \ table \subseteq Rows \ {row}
    BY <1>0, <2>1 DEF ArchiveTypeOK
  <2>3. IsFiniteSet(Rows \ {row}) /\ Cardinality(Rows \ {row}) = Cardinality(Rows) - 1
    BY <2>2, FS_RemoveElement
  <2>4. Cardinality(born \ table) <= Cardinality(Rows) - 1 /\ Cardinality(born \ table) \in Nat
    BY <2>2, <2>3, PartOfFinite
  <2>5. r.batch \in Nat /\ Cardinality(Rows) \in Nat /\ r.batch <= Cardinality(born \ table) + 1
    BY <1>0, FS_CardinalityType DEF Archiver, BatchReady
  <2> QED
    BY <2>4, <2>5 DEF Batches
<1> HIDE DEF x
<1>6. ASSUME archiver'[a] = x PROVE RunKeysFree(a)' /\ PartitionReady(a)' /\ BatchReady(a)'
  <2>1. RunKeysFree(a)' /\ PartitionReady(a)'
    BY <1>0, <1>2, <1>4, <1>6 DEF RunKeysFree, PartitionReady
  <2>2. records \subseteq closed \cap cold
    BY <1>0 DEF BatchReady
  <2> QED
    BY <1>0, <1>2, <1>4, <1>5, <1>6, <2>1, <2>2 DEF BatchReady
<1> QED
  BY <1>2, <1>3, <1>4, <1>6, OnlyStands

(* An upload goes to a key that was free: it overwrites nothing. *)
LEMMA PutInv ==
  ASSUME ArchiveInv, NEW a \in Archivers, PutPartition(a) \/ PutBatch(a)
  PROVE  ArchiveInv'
<1> USE ArchiveAssumption
<1> DEFINE r == archiver[a]
           number == IF r.pc = "put" THEN r.batch ELSE 0
           x == [r EXCEPT !.pc = IF r.pc = "put" THEN "delete" ELSE "drop"]
<1>0. /\ ArchiveTypeOK /\ archiver \in [Archivers -> Archiver] /\ r \in Archiver /\ table \subseteq born
      /\ RunKeysFree(a) /\ PartitionReady(a) /\ BatchReady(a) /\ Cardinality(Rows) \in Nat
      /\ objects \in [ObjectKeys -> SUBSET Rows] /\ runs \in 0 .. MaxRuns
  BY FS_CardinalityType DEF ArchiveInv, ArchiveTypeOK, ArchiverOK
<1>1. /\ r.pc \in {"put", "putPartition"} /\ archiver' = [archiver EXCEPT ![a] = x]
      /\ objects' = [objects EXCEPT ![<<r.run, number>>] = r.records]
      /\ UNCHANGED <<table, born, closed, claims, cold, monthCold, attached, forsaken, runs, lockedBy>>
  BY DEF PutPartition, PutBatch, PutObject, ObjectKey, Goes
<1>2. x \in Archiver /\ x.run = r.run /\ x.cut = r.cut /\ x.batch = r.batch /\ x.records = r.records
      /\ x.pc = IF r.pc = "put" THEN "delete" ELSE "drop"
  BY <1>0 DEF Archiver
<1>3. /\ number \in Batches /\ (r.pc = "put" => number = r.batch) /\ (r.pc = "putPartition" => number = 0)
      /\ r.batch \in Nat \ {0} /\ r.run \in 0 .. MaxRuns /\ r.records \in SUBSET Rows
  BY <1>0, <1>1 DEF BatchReady, Archiver, Batches
<1> HIDE DEF x, number
<1>4. <<r.run, number>> \in ObjectKeys
  BY <1>3 DEF ObjectKeys, Batches
<1>5. objects[<<r.run, number>>] = {}
  BY <1>0, <1>1, <1>3 DEF RunKeysFree
<1>6. /\ objects'[<<r.run, number>>] = r.records /\ objects' \in [ObjectKeys -> SUBSET Rows]
      /\ \A k \in ObjectKeys : k # <<r.run, number>> => objects'[k] = objects[k]
  BY <1>0, <1>1, <1>3, <1>4
<1>7. \A n \in 0 .. MaxRuns, m \in Batches : n # r.run \/ m # number => objects'[<<n, m>>] = objects[<<n, m>>]
  <2> SUFFICES ASSUME NEW n \in 0 .. MaxRuns, NEW m \in Batches, n # r.run \/ m # number
               PROVE  objects'[<<n, m>>] = objects[<<n, m>>]
    OBVIOUS
  <2>1. <<n, m>> \in ObjectKeys /\ <<n, m>> # <<r.run, number>>
    BY DEF ObjectKeys, Batches
  <2> QED
    BY <1>6, <2>1
<1>8. /\ archiver' \in [Archivers -> Archiver] /\ archiver'[a] = x
      /\ \A b \in Archivers \ {a} : archiver'[b] = archiver[b]
  BY <1>0, <1>1, <1>2
<1>9. ArchiveTypeOK'
  BY <1>0, <1>1, <1>6, <1>8 DEF ArchiveTypeOK
<1>10. RunKeysFree(a)'
  <2>1. ASSUME x.pc = "drop", NEW m \in Batches, m >= x.batch PROVE objects'[<<x.run, m>>] = {}
    <3>1. r.pc = "putPartition" /\ m # number
      BY <1>1, <1>2, <1>3, <2>1 DEF Batches
    <3> QED
      BY <1>0, <1>2, <1>3, <1>7, <2>1, <3>1 DEF RunKeysFree
  <2>2. ASSUME x.pc = "delete", NEW m \in Batches, m > x.batch PROVE objects'[<<x.run, m>>] = {}
    <3>1. r.pc = "put" /\ m # number /\ m >= r.batch
      BY <1>1, <1>2, <1>3, <2>2 DEF Batches
    <3> QED
      BY <1>0, <1>2, <1>3, <1>7, <3>1 DEF RunKeysFree
  <2> QED
    BY <1>1, <1>2, <1>8, <2>1, <2>2 DEF RunKeysFree
<1>11. PartitionReady(a)' /\ BatchReady(a)'
  BY <1>0, <1>1, <1>2, <1>3, <1>6, <1>8 DEF PartitionReady, BatchReady
<1>12. ArchiverOK(a)'
  BY <1>1, <1>2, <1>8, <1>10, <1>11 DEF ArchiveInv, ArchiverOK
<1>13. NothingLost'
  <2>1. \A k \in ObjectKeys : objects[k] \subseteq objects'[k]
    BY <1>5, <1>6
  <2> QED
    BY <1>1, <2>1, NothingTaken
<1> QED
  <2>1. archiver[a].pc # "idle" /\ archiver'[a].run = archiver[a].run
    BY <1>1, <1>2, <1>8
  <2>2. \A n \in 0 .. MaxRuns, m \in Batches : n # archiver[a].run => objects'[<<n, m>>] = objects[<<n, m>>]
    BY <1>7
  <2>3. runs' \in {runs, runs + 1}
    BY <1>1
  <2> QED
    BY <1>1, <1>8, <1>9, <1>12, <1>13, <2>1, <2>2, <2>3, OneArchiver

(* The partition goes with rows that are all old, final and uploaded. *)
LEMMA DropPartitionInv ==
  ASSUME ArchiveInv, NEW a \in Archivers, DropPartition(a)
  PROVE  ArchiveInv'
<1> USE ArchiveAssumption
<1> DEFINE r == archiver[a]
           x == [r EXCEPT !.pc = "query"]
           taken == Early \cap table
<1>0. /\ ArchiveTypeOK /\ archiver \in [Archivers -> Archiver] /\ r \in Archiver /\ table \subseteq born
      /\ RunKeysFree(a) /\ PartitionReady(a) /\ BatchReady(a) /\ Cardinality(Rows) \in Nat
      /\ MonthIsCold /\ NothingLost
  BY FS_CardinalityType DEF ArchiveInv, ArchiveTypeOK, ArchiverOK
<1>1. /\ r.pc = "drop" /\ archiver' = [archiver EXCEPT ![a] = x]
      /\ table' = table \ Early /\ claims' = claims \ taken /\ attached' = FALSE
      /\ UNCHANGED <<born, closed, cold, monthCold, objects, forsaken, runs, lockedBy>>
  BY DEF DropPartition, Goes
<1>2. x \in Archiver /\ x.run = r.run /\ x.cut = r.cut /\ x.batch = r.batch /\ x.pc = "query"
  BY <1>0 DEF Archiver
<1> HIDE DEF x
<1>3. /\ archiver' \in [Archivers -> Archiver] /\ archiver'[a] = x
      /\ \A b \in Archivers \ {a} : archiver'[b] = archiver[b]
  BY <1>0, <1>1, <1>2
<1>4. ArchiveTypeOK'
  BY <1>0, <1>1, <1>3 DEF ArchiveTypeOK
<1>5. ArchiverOK(a)'
  <2>1. r.batch \in Nat /\ born \ table \subseteq born' \ table' /\ IsFiniteSet(born' \ table')
    BY <1>0, <1>1, <1>4, PartOfFinite DEF Archiver, ArchiveTypeOK
  <2>2. Cardinality(born \ table) <= Cardinality(born' \ table') /\ Cardinality(born \ table) \in Nat
        /\ Cardinality(born' \ table') \in Nat
    BY <2>1, PartOfFinite
  <2>3. x.batch <= Cardinality(born' \ table') + 1
    BY <1>0, <1>2, <2>1, <2>2 DEF BatchReady
  <2>4. BatchReady(a)'
    BY <1>0, <1>1, <1>2, <1>3, <2>3 DEF BatchReady
  <2>5. RunKeysFree(a)' /\ PartitionReady(a)'
    BY <1>0, <1>1, <1>2, <1>3 DEF RunKeysFree, PartitionReady
  <2> QED
    BY <1>1, <1>2, <1>3, <2>4, <2>5 DEF ArchiveInv, ArchiverOK
<1>6. NothingLost'
  <2>1. Departed' \subseteq Departed \cup taken
    BY <1>1 DEF Departed
  <2>2. taken \subseteq cold' \cap closed'
    BY <1>0, <1>1 DEF PartitionReady, MonthIsCold
  <2>3. taken = {} \/ \E k \in ObjectKeys : taken \subseteq objects'[k]
    <3>1. <<r.run, 0>> \in ObjectKeys
      BY <1>0 DEF ObjectKeys, Archiver
    <3>2. taken \subseteq objects'[<<r.run, 0>>]
      BY <1>0, <1>1 DEF PartitionReady
    <3> QED
      BY <3>1, <3>2
  <2>4. table' \subseteq claims' /\ claims' \cap Departed' = {}
    BY <1>0, <1>1, <2>1 DEF NothingLost, ClaimsFollowRows
  <2> HIDE DEF taken
  <2>5. \A k \in ObjectKeys : objects[k] \subseteq objects'[k]
    BY <1>1
  <2> QED
    BY <1>0, <1>1, <2>1, <2>2, <2>3, <2>4, <2>5, NothingLostStep
<1> QED
  <2>1. /\ archiver[a].pc # "idle" /\ archiver'[a].run = archiver[a].run /\ runs' \in {runs, runs + 1}
        /\ table' \subseteq table /\ born \ table \subseteq born \ table'
    BY <1>1, <1>2, <1>3
  <2> QED
    BY <1>1, <1>3, <1>4, <1>5, <1>6, <2>1, OneArchiver

(* A batch goes whole, and its number with it; a batch of which a row is gone stays. *)
LEMMA DeleteBatchInv ==
  ASSUME ArchiveInv, NEW a \in Archivers, DeleteBatch(a)
  PROVE  ArchiveInv'
<1> USE ArchiveAssumption
<1> DEFINE r == archiver[a]
           taken == archiver[a].records
<1>0. /\ ArchiveTypeOK /\ archiver \in [Archivers -> Archiver] /\ r \in Archiver /\ table \subseteq born
      /\ RunKeysFree(a) /\ PartitionReady(a) /\ BatchReady(a) /\ Cardinality(Rows) \in Nat
      /\ NothingLost /\ r.pc = "delete"
      /\ UNCHANGED <<born, closed, cold, monthCold, attached, objects, forsaken, runs, lockedBy>>
  BY FS_CardinalityType DEF ArchiveInv, ArchiveTypeOK, ArchiverOK, DeleteBatch
<1>1. /\ r.batch \in Batches /\ taken # {} /\ taken \subseteq closed \cap cold
      /\ objects[<<r.run, r.batch>>] = taken /\ r.batch \in Nat /\ r.cut \subseteq cold
  BY <1>0 DEF BatchReady, Archiver
<1>2. CASE ~(taken \subseteq table)
  <2> DEFINE x == [r EXCEPT !.pc = "unlock"]
  <2>1. archiver' = [archiver EXCEPT ![a] = x] /\ UNCHANGED <<table, claims>>
    BY <1>2 DEF DeleteBatch, Goes
  <2>2. x \in Archiver /\ x.run = r.run /\ x.cut = r.cut /\ x.batch = r.batch /\ x.pc = "unlock"
    BY <1>0 DEF Archiver
  <2> HIDE DEF x
  <2>3. ASSUME archiver'[a] = x PROVE RunKeysFree(a)' /\ PartitionReady(a)' /\ BatchReady(a)'
    BY <1>0, <2>1, <2>2, <2>3 DEF RunKeysFree, PartitionReady, BatchReady
  <2>4. archiver[a].pc # "idle"
    BY <1>0
  <2> QED
    BY <1>0, <2>1, <2>2, <2>3, <2>4, OnlyStands
<1>3. CASE taken \subseteq table
  <2> DEFINE x == [r EXCEPT !.pc = "query", !.batch = @ + 1, !.records = {}]
  <2>1. /\ archiver' = [archiver EXCEPT ![a] = x]
        /\ table' = table \ taken /\ claims' = claims \ taken
    BY <1>3 DEF DeleteBatch
  <2>2. x \in Archiver /\ x.run = r.run /\ x.cut = r.cut /\ x.batch = r.batch + 1 /\ x.pc = "query"
    <3>1. r.batch + 1 \in 1 .. (Cardinality(Rows) + 1)
      BY <1>0, <1>1 DEF Batches
    <3> QED
      BY <1>0, <3>1 DEF Archiver
  <2> HIDE DEF x
  <2>3. /\ archiver' \in [Archivers -> Archiver] /\ archiver'[a] = x
        /\ \A b \in Archivers \ {a} : archiver'[b] = archiver[b]
    BY <1>0, <2>1, <2>2
  <2>4. ArchiveTypeOK'
    BY <1>0, <2>1, <2>3 DEF ArchiveTypeOK
  <2>5. x.batch <= Cardinality(born' \ table') + 1
    <3>1. PICK row \in taken : TRUE
      BY <1>1
    <3>2. /\ row \in born /\ row \notin born \ table
          /\ (born \ table) \cup {row} \subseteq born' \ table'
      BY <1>0, <1>3, <2>1, <3>1
    <3>3. IsFiniteSet(born \ table) /\ IsFiniteSet(born' \ table')
      BY <1>0, <2>4, PartOfFinite DEF ArchiveTypeOK
    <3>4. Cardinality((born \ table) \cup {row}) = Cardinality(born \ table) + 1
      BY <3>2, <3>3, FS_AddElement
    <3>5. Cardinality((born \ table) \cup {row}) <= Cardinality(born' \ table')
          /\ Cardinality(born' \ table') \in Nat
      BY <3>2, <3>3, PartOfFinite
    <3>6. Cardinality(born \ table) \in Nat /\ r.batch <= Cardinality(born \ table) + 1
      BY <1>0, <3>3, FS_CardinalityType DEF BatchReady
    <3> QED
      BY <1>1, <2>2, <3>4, <3>5, <3>6
  <2>6. ArchiverOK(a)'
    <3>1. RunKeysFree(a)'
      BY <1>0, <1>1, <2>2, <2>3 DEF RunKeysFree, Batches
    <3>2. PartitionReady(a)' /\ BatchReady(a)'
      BY <1>0, <1>1, <2>2, <2>3, <2>5 DEF PartitionReady, BatchReady
    <3> QED
      BY <1>0, <2>2, <2>3, <3>1, <3>2 DEF ArchiveInv, ArchiverOK
  <2>7. NothingLost'
    <3>1. Departed' \subseteq Departed \cup taken
      BY <1>0, <2>1 DEF Departed
    <3>2. <<r.run, r.batch>> \in ObjectKeys
      BY <1>0, <1>1 DEF ObjectKeys, Archiver, Batches
    <3>3. table' \subseteq claims' /\ claims' \cap Departed' = {}
      BY <1>0, <2>1, <3>1 DEF NothingLost, ClaimsFollowRows
    <3> HIDE DEF taken
    <3>4. taken \subseteq objects'[<<r.run, r.batch>>] /\ \A k \in ObjectKeys : objects[k] \subseteq objects'[k]
      BY <1>0, <1>1
    <3>5. cold \subseteq cold' /\ closed \subseteq closed' /\ taken \subseteq cold' \cap closed'
      BY <1>0, <1>1
    <3> QED
      BY <1>0, <3>1, <3>2, <3>3, <3>4, <3>5, NothingLostStep
  <2> QED
    <3>1. /\ archiver[a].pc # "idle" /\ archiver'[a].run = archiver[a].run /\ runs' \in {runs, runs + 1}
          /\ table' \subseteq table /\ born \ table \subseteq born \ table'
      BY <1>0, <2>1, <2>2, <2>3
    <3> QED
      BY <1>0, <2>3, <2>4, <2>6, <2>7, <3>1, OneArchiver
<1> QED
  BY <1>2, <1>3

(* The invariant of the archive holds in every behaviour. *)
LEMMA ArchiveInvariant == ArchiveSpec => []ArchiveInv
<1>1. ArchiveInv /\ [ArchiveNext]_archiveVars => ArchiveInv'
  <2> SUFFICES ASSUME ArchiveInv, [ArchiveNext]_archiveVars PROVE ArchiveInv'
    OBVIOUS
  <2>1. CASE \/ MonthAges \/ UNCHANGED archiveVars
             \/ \E r \in Rows : Insert(r) \/ Close(r) \/ RowDeletedElsewhere(r) \/ Age(r)
    BY <2>1, RowsStepInv
  <2>2. ASSUME NEW a \in Archivers,
               \/ StartRun(a) \/ CanDropPartition(a) \/ EncodePartition(a) \/ PutPartition(a)
               \/ DropPartition(a) \/ QueryBatch(a) \/ PutBatch(a) \/ DeleteBatch(a) \/ Unlock(a)
               \/ StepFails(a) \/ ConnectionLost(a) \/ GivesUp(a)
        PROVE  ArchiveInv'
    BY <2>2, StartRunInv, ControlInv, QueryBatchInv, PutInv, DropPartitionInv, DeleteBatchInv
  <2> QED
    BY <2>1, <2>2 DEF ArchiveNext
<1> QED
  BY <1>1, ArchiveInitInv, PTL DEF ArchiveSpec

(***************************************************************************)
(* What has left the table is in the storage, was old and final and took   *)
(* its claims along, however runs, faults and users overlap                *)
(* (archive/worker.go:archiveModelBatch; partitions.go).                   *)
(***************************************************************************)
THEOREM ArchiveLosesNothing == ArchiveSpec => []NothingLost
<1>1. ArchiveInv => NothingLost
  BY DEF ArchiveInv
<1> QED
  BY <1>1, ArchiveInvariant, PTL

-----------------------------------------------------------------------------
(* The content of a project, and its versions                              *)

\* How far a request is says what it is: one that has written a document's text will not ask for it again,
\* and one that asks names a document.
LifeShape ==
    /\ LifeTypeOK /\ versions \in Seq(Texts)
    /\ \A r \in LifeRequests :
          /\ req[r].pc = "idle" => req[r].kind = "none"
          /\ req[r].pc \in {"load", "write back", "initialise"} => req[r].row.doc # None
          /\ req[r].pc \in {"load", "write back"} => req[r].kind \in {"save", "update", "sync"}
          /\ req[r].pc = "write back" => req[r].took \in Texts
          /\ req[r].pc \in {"reread", "write"} => req[r].kind \in {"save", "update"}
          /\ req[r].synced => req[r].pc \in {"reread", "write", "done"}

\* What a request will write or make is not there before it comes.
Unseen(r) ==
    /\ r \notin old /\ r \notin sessions /\ project.content # r /\ project.doc # r /\ text[r] = None
    /\ \A n \in DOMAIN versions : versions[n] # r
    /\ \A d \in Docs : text[d] # r
    /\ \A q \in LifeRequests : req[q].row.doc # r /\ req[q].took # r

\* A step after which x is the state of the request that took it.
StaysUnseen(r, x) ==
    /\ r \notin old' /\ r \notin sessions' /\ project'.content # r /\ project'.doc # r /\ text'[r] = None
    /\ \A n \in DOMAIN versions' : versions'[n] # r
    /\ \A d \in Docs : text'[d] # r
    /\ x.row.doc # r /\ x.took # r

\* Nothing that is old can reach the row: not from its document, nor from a request that took the text of it.
OldStaysOut ==
    /\ RestoreSticks
    /\ project.alive /\ Attached => text[project.doc] \notin old
    /\ \A r \in LifeRequests :
          req[r].pc = "write back" /\ DocumentOf(req[r].row.doc) => req[r].took \notin old

LifeCalm == OldStaysOut /\ \A r \in LifeRequests : req[r].pc = "idle" => Unseen(r)

LifeInv == LifeShape /\ VersionHoldsContent /\ (NoRowWritten => LifeCalm)

(* A step of a request changes its own state only. *)
LEMMA LifeShapeStep ==
  ASSUME LifeShape, NEW r \in LifeRequests, NEW x \in Request, req' = [req EXCEPT ![r] = x],
         x.pc # "idle",
         x.pc \in {"load", "write back", "initialise"} => x.row.doc # None,
         x.pc \in {"load", "write back"} => x.kind \in {"save", "update", "sync"},
         x.pc = "write back" => x.took \in Texts,
         x.pc \in {"reread", "write"} => x.kind \in {"save", "update"},
         x.synced => x.pc \in {"reread", "write", "done"},
         project' \in Row, versions' \in Seq(Texts), text' \in [Docs -> Texts \cup {None}],
         sessions' \subseteq Docs, old' \subseteq Texts
  PROVE  LifeShape'
<1>1. req' \in [LifeRequests -> Request] /\ req'[r] = x /\ \A q \in LifeRequests : q # r => req'[q] = req[q]
  BY DEF LifeShape, LifeTypeOK
<1>2. \A n \in DOMAIN versions' : versions'[n] \in Texts
  BY ElementOfSeq, LenProperties
<1>3. LifeTypeOK'
  BY <1>1, <1>2 DEF LifeTypeOK
<1> QED
  BY <1>1, <1>3 DEF LifeShape

(* The content and the versions stay, and so do the texts that were written back. *)
LEMMA LifeVersionStep ==
  ASSUME LifeShape, VersionHoldsContent, NEW r \in LifeRequests, NEW x, req' = [req EXCEPT ![r] = x],
         req[r].synced => x.synced /\ x.took = req[r].took,
         project'.content = project.content, project'.alive => project.alive, versions' = versions
  PROVE  VersionHoldsContent'
<1>1. req'[r] = x /\ \A q \in LifeRequests : q # r => req'[q] = req[q]
  BY DEF LifeShape, LifeTypeOK
<1>2. ASSUME NEW q \in LifeRequests, req[q].synced, req[q].took = project.content
      PROVE  req'[q].synced /\ req'[q].took = project'.content
  BY <1>1, <1>2
<1> QED
  BY <1>2 DEF VersionHoldsContent

(* A request that comes, and one whose text is in no place that another request may read. *)
LEMMA UnseenStep ==
  ASSUME LifeShape, LifeCalm, NEW r \in LifeRequests, NEW x \in Request, req' = [req EXCEPT ![r] = x],
         x.pc # "idle",
         \A s \in LifeRequests :
            s # r /\ Unseen(s) => StaysUnseen(s, x)
  PROVE  \A s \in LifeRequests : req'[s].pc = "idle" => Unseen(s)'
<1>1. req'[r] = x /\ \A q \in LifeRequests : q # r => req'[q] = req[q]
  BY DEF LifeShape, LifeTypeOK
<1>2. ASSUME NEW s \in LifeRequests, req'[s].pc = "idle" PROVE Unseen(s)'
  <2>1. s # r /\ Unseen(s)
    BY <1>1, <1>2 DEF LifeCalm
  <2>2. \A q \in LifeRequests : req'[q].row.doc # s /\ req'[q].took # s
    BY <1>1, <2>1 DEF Unseen, StaysUnseen
  <2> QED
    BY <2>1, <2>2 DEF Unseen, StaysUnseen
<1> QED
  BY <1>2

(* A request keeps its kind. *)
LEMMA LifeKindStep ==
  ASSUME LifeShape, NEW r \in LifeRequests, NEW x, req' = [req EXCEPT ![r] = x],
         req[r].pc = "idle" \/ x.kind = req[r].kind, NoRowWritten'
  PROVE  NoRowWritten
<1>1. req'[r] = x /\ \A q \in LifeRequests : q # r => req'[q] = req[q]
  BY DEF LifeShape, LifeTypeOK
<1>2. req[r].kind \in {"none", x.kind}
  BY DEF LifeShape
<1> QED
  BY <1>1, <1>2 DEF NoRowWritten

(* What a request reads when it comes. *)
LEMMA LifeBegins ==
  ASSUME LifeInv, NEW r \in LifeRequests,
         BeginSave(r) \/ BeginUpdate(r) \/ BeginSync(r) \/ DeleteProject(r)
  PROVE  LifeInv'
<1>0. LifeShape /\ VersionHoldsContent /\ (NoRowWritten => LifeCalm)
  BY DEF LifeInv
<1>1. PICK kind \in {"save", "update", "sync", "delete"}, pc \in {"load", "write", "reread", "done"} :
         /\ Reads(r, kind, pc)
         /\ pc = "load" => Attached /\ kind # "delete"
         /\ pc \in {"write", "reread"} => kind \in {"save", "update"}
  BY DEF BeginSave, BeginUpdate, BeginSync, DeleteProject, Materialized
<1>2. /\ req[r].pc = "idle" /\ project.alive /\ UNCHANGED <<text, sessions, old>>
      /\ \/ UNCHANGED <<project, versions>>
         \/ project' = [project EXCEPT !.alive = FALSE] /\ versions' = <<>>
  BY DEF BeginSave, BeginUpdate, BeginSync, DeleteProject, Comes
<1>3. project \in Row /\ versions \in Seq(Texts) /\ text \in [Docs -> Texts \cup {None}]
      /\ sessions \subseteq Docs /\ old \subseteq Texts /\ req \in [LifeRequests -> Request]
  BY <1>0 DEF LifeShape, LifeTypeOK
<1> DEFINE x == [req[r] EXCEPT !.kind = kind, !.pc = pc, !.row = project]
<1>4. req' = [req EXCEPT ![r] = x]
  BY <1>1 DEF Reads
<1>5. x \in Request /\ x.kind = kind /\ x.pc = pc /\ x.row = project
      /\ x.took = req[r].took /\ x.synced = req[r].synced
  BY <1>3 DEF Request, Kinds
<1> HIDE DEF x
<1>6. ~req[r].synced
  BY <1>0, <1>2 DEF LifeShape
<1>7. project' \in Row /\ versions' \in Seq(Texts) /\ project'.content = project.content /\ project'.doc = project.doc
  <2>1. CASE UNCHANGED <<project, versions>>
    BY <1>3, <2>1
  <2>2. CASE project' = [project EXCEPT !.alive = FALSE] /\ versions' = <<>>
    <3>1. project' \in Row /\ project'.content = project.content /\ project'.doc = project.doc
      BY <1>3, <2>2 DEF Row
    <3> QED
      BY <2>2, <3>1, EmptySeq
  <2> QED
    BY <1>2, <2>1, <2>2
<1>8. LifeShape'
  BY <1>0, <1>1, <1>2, <1>3, <1>4, <1>5, <1>6, <1>7, LifeShapeStep DEF Attached
<1>9. VersionHoldsContent'
  <2>1. CASE UNCHANGED <<project, versions>>
    BY <1>0, <1>4, <1>5, <2>1, LifeVersionStep
  <2>2. CASE project' = [project EXCEPT !.alive = FALSE]
    BY <1>3, <2>2 DEF VersionHoldsContent, Row
  <2> QED
    BY <1>2, <2>1, <2>2
<1>10. ASSUME NoRowWritten, LifeCalm PROVE LifeCalm'
  <2>1. req'[r] = x /\ \A q \in LifeRequests : q # r => req'[q] = req[q]
    BY <1>3, <1>4
  <2>2. x.pc \notin {"idle", "write back"} /\ x.row.doc = project.doc
    BY <1>1, <1>5
  <2>3. \A s \in LifeRequests : req'[s].pc = "idle" => Unseen(s)'
    <3>1. DOMAIN versions' = {} \/ versions' = versions
      BY <1>2, EmptySeq
    <3>2. ASSUME NEW s \in LifeRequests, s # r, Unseen(s)
          PROVE  StaysUnseen(s, x)
      BY <1>2, <1>5, <1>7, <2>2, <3>1, <3>2 DEF StaysUnseen, Unseen
    <3> QED
      BY <1>0, <1>4, <1>5, <1>10, <2>2, <3>2, UnseenStep
  <2>4. project'.alive => project.alive
    BY <1>2
  <2>5. OldStaysOut'
    BY <1>2, <1>7, <1>10, <2>1, <2>2, <2>4 DEF LifeCalm, OldStaysOut, RestoreSticks, Attached, DocumentOf
  <2> QED
    BY <2>3, <2>5 DEF LifeCalm
<1>11. NoRowWritten' => NoRowWritten
  BY <1>0, <1>2, <1>4, LifeKindStep
<1> QED
  BY <1>0, <1>8, <1>9, <1>10, <1>11 DEF LifeInv

(* A request that leaves everything else as it is. *)
LEMMA LifeEnds ==
  ASSUME LifeInv, NEW r \in LifeRequests, NEW x \in Request, req' = [req EXCEPT ![r] = x],
         x.pc \in {"done", "write"}, x.pc = "write" => x.kind \in {"save", "update"},
         x.kind = req[r].kind, x.took = req[r].took, x.synced = req[r].synced,
         x.row.doc = req[r].row.doc \/ x.kind \in {"save", "update"},
         UNCHANGED <<project, versions, text, sessions, old>>
  PROVE  LifeInv'
<1>0. LifeShape /\ VersionHoldsContent /\ (NoRowWritten => LifeCalm)
  BY DEF LifeInv
<1>1. project \in Row /\ versions \in Seq(Texts) /\ text \in [Docs -> Texts \cup {None}]
      /\ sessions \subseteq Docs /\ old \subseteq Texts /\ req \in [LifeRequests -> Request]
  BY <1>0 DEF LifeShape, LifeTypeOK
<1>2. LifeShape'
  BY <1>0, <1>1, LifeShapeStep
<1>3. VersionHoldsContent'
  BY <1>0, LifeVersionStep
<1>4. ASSUME NoRowWritten' PROVE LifeCalm'
  <2>1. NoRowWritten /\ LifeCalm
    BY <1>0, <1>4, LifeKindStep
  <2>2. req'[r] = x /\ \A q \in LifeRequests : q # r => req'[q] = req[q]
    BY <1>1
  <2>3. x.row.doc = req[r].row.doc
    BY <1>4, <2>2 DEF NoRowWritten
  <2>4. ASSUME NEW s \in LifeRequests, s # r, Unseen(s)
        PROVE  StaysUnseen(s, x)
    BY <2>3, <2>4 DEF StaysUnseen, Unseen
  <2>5. LifeShape /\ x.pc # "idle" /\ x.pc # "write back" /\ OldStaysOut
    BY <1>0, <2>1 DEF LifeCalm
  <2>6. \A s \in LifeRequests : req'[s].pc = "idle" => Unseen(s)'
    BY <2>1, <2>4, <2>5, UnseenStep
  <2>7. OldStaysOut'
    <3>1. RestoreSticks' /\ (project.alive /\ Attached => text[project.doc] \notin old)'
      BY <2>5 DEF OldStaysOut, RestoreSticks, Attached
    <3>2. ASSUME NEW q \in LifeRequests, req'[q].pc = "write back", DocumentOf(req[q].row.doc)'
          PROVE  req'[q].took \notin old'
      <4>1. q # r
        BY <2>2, <2>5, <3>2
      <4>2. req'[q] = req[q] /\ project' = project /\ old' = old
        BY <2>2, <4>1
      <4>3. DocumentOf(req[q].row.doc)
        BY <3>2, <4>2 DEF DocumentOf
      <4> QED
        BY <2>5, <3>2, <4>2, <4>3 DEF OldStaysOut
    <3> QED
      BY <3>1, <3>2 DEF OldStaysOut
  <2> QED
    BY <2>6, <2>7 DEF LifeCalm
<1> QED
  BY <1>2, <1>3, <1>4 DEF LifeInv

(* The collaboration service reads a text, and may have to take the row's for it. *)
LEMMA LifeLoads ==
  ASSUME LifeInv, NEW r \in LifeRequests, LoadDocument(r)
  PROVE  LifeInv'
<1>0. LifeShape /\ VersionHoldsContent /\ (NoRowWritten => LifeCalm)
  BY DEF LifeInv
<1> DEFINE d == req[r].row.doc
<1>1. req[r].pc = "load" /\ UNCHANGED <<project, versions, sessions, old>>
  BY DEF LoadDocument
<1>2. project \in Row /\ versions \in Seq(Texts) /\ text \in [Docs -> Texts \cup {None}]
      /\ sessions \subseteq Docs /\ old \subseteq Texts /\ req \in [LifeRequests -> Request]
  BY <1>0 DEF LifeShape, LifeTypeOK
<1>3. d \in Docs /\ d # None /\ req[r].kind \in {"save", "update", "sync"} /\ ~req[r].synced
  BY <1>0, <1>1, <1>2 DEF LifeShape, Request, Row
<1>4. CASE DocumentOf(d)
  <2> DEFINE x == [req[r] EXCEPT !.pc = "write back", !.took = text'[d]]
  <2>1. text' = Initialized(d) /\ req' = [req EXCEPT ![r] = x]
    BY <1>4 DEF LoadDocument
  <2>2. /\ text' \in [Docs -> Texts \cup {None}] /\ \A e \in Docs : e # d => text'[e] = text[e]
        /\ text'[d] \in {text[d], project.content} \ {None}
    <3>1. project.content \in Texts /\ None \notin Texts
      BY <1>2, LifeAssumption DEF Row, Texts
    <3> QED
      BY <1>2, <1>3, <2>1, <3>1 DEF Initialized
  <2>3. text'[d] \in Texts
    BY <1>2, <1>3, <2>2
  <2>4. x \in Request /\ x.pc = "write back" /\ x.took = text'[d] /\ x.row = req[r].row
        /\ x.synced = req[r].synced /\ x.kind = req[r].kind
    BY <1>2, <2>3 DEF Request
  <2> HIDE DEF x
  <2>5. LifeShape'
    BY <1>0, <1>1, <1>2, <1>3, <2>1, <2>2, <2>3, <2>4, LifeShapeStep
  <2>6. VersionHoldsContent'
    BY <1>0, <1>1, <1>3, <2>1, LifeVersionStep
  <2>7. ASSUME LifeCalm PROVE LifeCalm'
    <3>1. req'[r] = x /\ \A q \in LifeRequests : q # r => req'[q] = req[q]
      BY <1>2, <2>1
    <3>2. ASSUME NEW s \in LifeRequests, s # r, Unseen(s)
          PROVE  StaysUnseen(s, x)
      <4>1. s \in Docs /\ d # s
        BY <3>2 DEF Docs, Unseen
      <4>2. text'[s] = None /\ text'[d] # s
        BY <1>3, <2>2, <3>2, <4>1 DEF Unseen
      <4> QED
        BY <1>1, <1>3, <2>2, <2>4, <3>2, <4>1, <4>2 DEF StaysUnseen, Unseen
    <3>3. \A s \in LifeRequests : req'[s].pc = "idle" => Unseen(s)'
      BY <1>0, <2>1, <2>4, <2>7, <3>2, UnseenStep
    <3> OldStaysOut
      BY <2>7 DEF LifeCalm
    <3>4. text'[d] \notin old
      BY <1>3, <1>4, <2>2 DEF OldStaysOut, RestoreSticks, Attached, DocumentOf
    <3>5. RestoreSticks' /\ (project.alive /\ Attached => text'[project.doc] \notin old)
      BY <1>1, <1>4, <3>4 DEF OldStaysOut, RestoreSticks, DocumentOf
    <3>6. ASSUME NEW q \in LifeRequests, req'[q].pc = "write back", DocumentOf(req'[q].row.doc)
          PROVE  req'[q].took \notin old
      BY <1>1, <2>4, <3>1, <3>4, <3>6 DEF OldStaysOut, DocumentOf
    <3>7. OldStaysOut'
      BY <1>1, <3>5, <3>6 DEF OldStaysOut, Attached, DocumentOf
    <3> QED
      BY <3>3, <3>7 DEF LifeCalm
  <2>8. NoRowWritten' => NoRowWritten
    BY <1>0, <2>1, <2>4, LifeKindStep
  <2> QED
    BY <1>0, <2>5, <2>6, <2>7, <2>8 DEF LifeInv
<1>5. CASE ~DocumentOf(d)
  <2> DEFINE x == [req[r] EXCEPT !.pc = "done"]
  <2>1. text' = text /\ req' = [req EXCEPT ![r] = x]
    BY <1>5 DEF LoadDocument, Goto
  <2>2. x \in Request /\ x.pc = "done" /\ x.took = req[r].took /\ x.row = req[r].row
        /\ x.synced = req[r].synced /\ x.kind = req[r].kind
    BY <1>2 DEF Request
  <2> HIDE DEF x
  <2> QED
    BY <1>0, <1>1, <1>2, <2>1, <2>2, LifeEnds
<1> QED
  BY <1>4, <1>5

(* A request that is to write back has a text. *)
LEMMA TookIsText ==
  ASSUME LifeShape, NEW r \in LifeRequests, req[r].pc = "write back"
  PROVE  req[r].took \in Texts
  BY DEF LifeShape

(* The text it took reaches the row that still has the document. *)
LEMMA LifeWritesBack ==
  ASSUME LifeInv, NEW r \in LifeRequests, WriteBack(r)
  PROVE  LifeInv'
<1>0. LifeShape /\ VersionHoldsContent /\ (NoRowWritten => LifeCalm)
  BY DEF LifeInv
<1> DEFINE pc == IF req[r].kind = "sync" THEN "done" ELSE "reread"
           x == [req[r] EXCEPT !.synced = TRUE, !.pc = pc]
           there == DocumentOf(req[r].row.doc)
<1>1. /\ req[r].pc = "write back" /\ UNCHANGED <<versions, text, sessions, old>>
      /\ req' = [req EXCEPT ![r] = x]
      /\ project' = IF there THEN [project EXCEPT !.content = req[r].took] ELSE project
  BY DEF WriteBack
<1>2. project \in Row /\ versions \in Seq(Texts) /\ text \in [Docs -> Texts \cup {None}]
      /\ sessions \subseteq Docs /\ old \subseteq Texts /\ req \in [LifeRequests -> Request]
  BY <1>0 DEF LifeShape, LifeTypeOK
<1>3. req[r].kind \in {"save", "update", "sync"}
  BY <1>0, <1>1 DEF LifeShape
<1>4. pc \in {"done", "reread"} /\ (pc = "reread" => req[r].kind \in {"save", "update"})
  BY <1>3
<1>5. x \in Request /\ x.pc = pc /\ x.took = req[r].took /\ x.row = req[r].row /\ x.synced /\ x.kind = req[r].kind
  BY <1>2, <1>4 DEF Request
<1> HIDE DEF x, pc
<1>6. req'[r] = x /\ \A q \in LifeRequests : q # r => req'[q] = req[q]
  BY <1>1, <1>2
<1>7. project' \in Row /\ project'.alive = project.alive /\ project'.doc = project.doc
      /\ project'.content = (IF there THEN req[r].took ELSE project.content)
  <2>1. there => req[r].took \in Texts
    BY <1>0, <1>1, TookIsText
  <2> QED
    BY <1>1, <1>2, <2>1 DEF Row
<1>8. LifeShape'
  BY <1>0, <1>1, <1>2, <1>4, <1>5, <1>7, LifeShapeStep
<1>9. VersionHoldsContent'
  <2>1. CASE there
    BY <1>5, <1>6, <1>7, <2>1 DEF VersionHoldsContent
  <2>2. CASE ~there
    BY <1>0, <1>1, <1>5, <1>7, <2>2, LifeVersionStep
  <2> QED
    BY <2>1, <2>2
<1>10. ASSUME LifeCalm PROVE LifeCalm'
  <2>1. OldStaysOut /\ x.pc # "idle" /\ x.pc # "write back" /\ (there => req[r].took \notin old)
    BY <1>1, <1>4, <1>5, <1>10 DEF LifeCalm, OldStaysOut
  <2>2. ASSUME NEW s \in LifeRequests, s # r, Unseen(s)
        PROVE  StaysUnseen(s, x)
    BY <1>1, <1>5, <1>7, <2>2 DEF StaysUnseen, Unseen
  <2>3. \A s \in LifeRequests : req'[s].pc = "idle" => Unseen(s)'
    BY <1>0, <1>1, <1>5, <1>10, <2>1, <2>2, UnseenStep
  <2> UNCHANGED <<text, old>>
    BY <1>1
  <2> HIDE DEF there
  <2>4. RestoreSticks'
    BY <1>7, <2>1 DEF OldStaysOut, RestoreSticks
  <2>5. (project.alive /\ Attached => text[project.doc] \notin old)'
    BY <1>7, <2>1 DEF OldStaysOut, Attached
  <2>6. ASSUME NEW q \in LifeRequests, req'[q].pc = "write back", DocumentOf(req[q].row.doc)'
        PROVE  req'[q].took \notin old'
    <3>1. req'[q] = req[q] /\ old' = old
      BY <1>1, <1>6, <2>1, <2>6
    <3>2. DocumentOf(req[q].row.doc)
      BY <1>7, <2>6, <3>1 DEF DocumentOf
    <3> QED
      BY <2>1, <2>6, <3>1, <3>2 DEF OldStaysOut
  <2> QED
    BY <2>3, <2>4, <2>5, <2>6 DEF LifeCalm, OldStaysOut
<1>11. NoRowWritten' => NoRowWritten
  BY <1>0, <1>1, <1>5, LifeKindStep
<1> QED
  BY <1>0, <1>8, <1>9, <1>10, <1>11 DEF LifeInv

(* A save or an update reads the row anew, and writes it with its version. *)
LEMMA LifeSaves ==
  ASSUME LifeInv, NEW r \in LifeRequests, ReadAgain(r) \/ WriteRow(r)
  PROVE  LifeInv'
<1>0. LifeShape /\ VersionHoldsContent /\ (NoRowWritten => LifeCalm)
  BY DEF LifeInv
<1>1. UNCHANGED <<text, sessions, old>> /\ req[r].pc \in {"reread", "write"}
  BY DEF ReadAgain, WriteRow
<1>2. project \in Row /\ versions \in Seq(Texts) /\ text \in [Docs -> Texts \cup {None}]
      /\ sessions \subseteq Docs /\ old \subseteq Texts /\ req \in [LifeRequests -> Request]
  BY <1>0 DEF LifeShape, LifeTypeOK
<1>3. req[r].kind \in {"save", "update"} /\ req[r].row \in Row
  BY <1>0, <1>1, <1>2 DEF LifeShape, Request
<1>4. CASE ReadAgain(r)
  <2>1. UNCHANGED <<project, versions>>
    BY <1>4 DEF ReadAgain
  <2>2. CASE project.alive
    <3> DEFINE x == [req[r] EXCEPT !.kind = req[r].kind, !.pc = "write", !.row = project]
    <3>1. req' = [req EXCEPT ![r] = x]
      BY <1>4, <2>2 DEF ReadAgain, Reads
    <3>2. x \in Request /\ x.pc = "write" /\ x.took = req[r].took /\ x.synced = req[r].synced /\ x.kind = req[r].kind
      BY <1>2 DEF Request
    <3> HIDE DEF x
    <3> QED
      BY <1>1, <1>3, <2>1, <3>1, <3>2, LifeEnds
  <2>3. CASE ~project.alive
    <3> DEFINE x == [req[r] EXCEPT !.pc = "done"]
    <3>1. req' = [req EXCEPT ![r] = x]
      BY <1>4, <2>3 DEF ReadAgain, Goto
    <3>2. x \in Request /\ x.pc = "done" /\ x.took = req[r].took /\ x.synced = req[r].synced /\ x.kind = req[r].kind
      BY <1>2 DEF Request
    <3> HIDE DEF x
    <3> QED
      BY <1>1, <1>3, <2>1, <3>1, <3>2, LifeEnds
  <2> QED
    BY <2>2, <2>3
<1>5. CASE WriteRow(r)
  <2> DEFINE x == [req[r] EXCEPT !.pc = "done"]
  <2>1. req' = [req EXCEPT ![r] = x] /\ project' = Saved(r) /\ versions' = Append(versions, project'.content)
    BY <1>5 DEF WriteRow, Goto
  <2>2. x \in Request /\ x.pc = "done" /\ x.kind = req[r].kind
    BY <1>2 DEF Request
  <2> HIDE DEF x
  <2>3. project' \in Row
    BY <1>3, <2>1 DEF Saved, Row, Texts
  <2>4. project'.content \in Texts
    BY <2>3 DEF Row
  <2>5. versions' \in Seq(Texts) /\ Len(versions') = Len(versions) + 1 /\ versions'[Len(versions')] = project'.content
    BY <1>2, <2>1, <2>4, AppendProperties
  <2>6. LifeShape'
    BY <1>0, <1>1, <1>2, <2>1, <2>2, <2>3, <2>5, LifeShapeStep
  <2>7. VersionHoldsContent'
    BY <2>5 DEF VersionHoldsContent
  <2>8. ~NoRowWritten'
    BY <1>2, <1>3, <2>1, <2>2 DEF NoRowWritten
  <2> QED
    BY <2>6, <2>7, <2>8 DEF LifeInv
<1> QED
  BY <1>4, <1>5

(* A restore detaches the document: what was written is old, and none of it is in the row. *)
LEMMA LifeRestores ==
  ASSUME LifeInv, NEW r \in LifeRequests, NEW n \in DOMAIN versions, RestoreProjectVersion(r, n)
  PROVE  LifeInv'
<1>0. LifeShape /\ VersionHoldsContent /\ (NoRowWritten => LifeCalm)
  BY DEF LifeInv
<1> DEFINE x == [req[r] EXCEPT !.kind = "restore", !.pc = "done", !.row = project]
           kept == versions[n]
<1>1. /\ req[r].pc = "idle" /\ UNCHANGED <<text, sessions>>
      /\ req' = [req EXCEPT ![r] = x] /\ old' = Written \ {kept}
      /\ project' = [project EXCEPT !.content = kept, !.doc = None] /\ versions' = Append(versions, kept)
  BY DEF RestoreProjectVersion, Comes, Reads
<1>2. project \in Row /\ versions \in Seq(Texts) /\ text \in [Docs -> Texts \cup {None}]
      /\ sessions \subseteq Docs /\ req \in [LifeRequests -> Request] /\ kept \in Texts
  BY <1>0 DEF LifeShape, LifeTypeOK
<1>3. x \in Request /\ x.pc = "done" /\ x.kind = "restore" /\ x.row = project
      /\ x.took = req[r].took /\ x.synced = req[r].synced
  BY <1>2 DEF Request, Kinds
<1> HIDE DEF x, kept
<1>4. req'[r] = x /\ \A q \in LifeRequests : q # r => req'[q] = req[q]
  BY <1>1, <1>2
<1>5. project' \in Row /\ project'.content = kept /\ project'.doc = None
  BY <1>1, <1>2 DEF Row
<1>6. /\ versions' \in Seq(Texts) /\ Len(versions') = Len(versions) + 1 /\ versions'[Len(versions')] = kept
      /\ \A m \in DOMAIN versions' : versions'[m] = kept \/ (m \in DOMAIN versions /\ versions'[m] = versions[m])
  <2>1. \A m \in 1..Len(versions) : versions'[m] = versions[m]
    BY <1>1, <1>2, AppendProperties
  <2> QED
    BY <1>1, <1>2, <2>1, AppendProperties, LenProperties
<1>7. old' \subseteq Texts /\ kept \notin old'
  BY <1>1, <1>2 DEF Written, Row
<1>8. LifeShape'
  BY <1>0, <1>1, <1>2, <1>3, <1>5, <1>6, <1>7, LifeShapeStep
<1>9. VersionHoldsContent'
  BY <1>5, <1>6 DEF VersionHoldsContent
<1>10. ASSUME LifeCalm PROVE LifeCalm'
  <2>1. ASSUME NEW s \in LifeRequests, s # r, Unseen(s)
        PROVE  StaysUnseen(s, x)
    <3>1. kept # s
      BY <2>1 DEF Unseen, kept
    <3>2. s \notin old'
      BY <1>1, <2>1 DEF Unseen, Written
    <3>3. s # None
      BY LifeAssumption
    <3> QED
      BY <1>1, <1>3, <1>5, <1>6, <2>1, <3>1, <3>2, <3>3 DEF StaysUnseen, Unseen
  <2>2. x.pc # "idle" /\ x.pc # "write back"
    BY <1>3
  <2>3. \A s \in LifeRequests : req'[s].pc = "idle" => Unseen(s)'
    BY <1>0, <1>1, <1>3, <1>10, <2>1, <2>2, UnseenStep
  <2>4. ASSUME NEW q \in LifeRequests, req'[q].pc = "write back" PROVE ~DocumentOf(req[q].row.doc)'
    <3>1. req'[q] = req[q]
      BY <1>4, <2>2, <2>4
    <3>2. req[q].row.doc # None
      BY <1>0, <2>4, <3>1 DEF LifeShape
    <3> QED
      BY <1>5, <3>1, <3>2 DEF DocumentOf
  <2>5. RestoreSticks' /\ ~Attached'
    BY <1>5, <1>7 DEF RestoreSticks, Attached
  <2> QED
    BY <2>3, <2>4, <2>5 DEF LifeCalm, OldStaysOut
<1>11. NoRowWritten' => NoRowWritten
  BY <1>0, <1>1, LifeKindStep
<1> QED
  BY <1>0, <1>8, <1>9, <1>10, <1>11 DEF LifeInv

(* A new document is one nobody has seen. *)
LEMMA LifeAttaches ==
  ASSUME LifeInv, NEW r \in LifeRequests, EnsureProjectCollabDocument(r)
  PROVE  LifeInv'
<1>0. LifeShape /\ VersionHoldsContent /\ (NoRowWritten => LifeCalm)
  BY DEF LifeInv
<1> DEFINE d == IF Attached THEN project.doc ELSE r
           x == [req[r] EXCEPT !.kind = "session", !.pc = "initialise", !.row = project']
<1>1. /\ req[r].pc = "idle" /\ project.alive /\ UNCHANGED <<versions, text, sessions, old>>
      /\ req' = [req EXCEPT ![r] = x] /\ project' = [project EXCEPT !.doc = d]
  BY DEF EnsureProjectCollabDocument, Comes
<1>2. project \in Row /\ versions \in Seq(Texts) /\ text \in [Docs -> Texts \cup {None}]
      /\ sessions \subseteq Docs /\ old \subseteq Texts /\ req \in [LifeRequests -> Request]
  BY <1>0 DEF LifeShape, LifeTypeOK
<1>3. d \in Docs /\ d # None /\ (Attached => d = project.doc) /\ (~Attached => d = r)
  BY <1>2, LifeAssumption DEF Docs, Row, Attached
<1> HIDE DEF d
<1>4. project' \in Row /\ project'.alive = project.alive /\ project'.content = project.content /\ project'.doc = d
  BY <1>1, <1>2, <1>3 DEF Row
<1>5. x \in Request /\ x.pc = "initialise" /\ x.kind = "session" /\ x.row.doc = d
      /\ x.took = req[r].took /\ x.synced = req[r].synced
  BY <1>2, <1>4 DEF Request, Kinds
<1> HIDE DEF x
<1>6. req'[r] = x /\ \A q \in LifeRequests : q # r => req'[q] = req[q]
  BY <1>1, <1>2
<1>7. ~req[r].synced
  BY <1>0, <1>1 DEF LifeShape
<1>8. LifeShape'
  BY <1>0, <1>1, <1>2, <1>3, <1>4, <1>5, <1>7, LifeShapeStep
<1>9. VersionHoldsContent'
  BY <1>0, <1>1, <1>4, <1>7, LifeVersionStep
<1>10. ASSUME LifeCalm PROVE LifeCalm'
  <2>1. ASSUME NEW s \in LifeRequests, s # r, Unseen(s)
        PROVE  StaysUnseen(s, x)
    <3>1. d # s
      BY <1>3, <2>1 DEF Unseen
    <3> QED
      BY <1>1, <1>4, <1>5, <2>1, <3>1 DEF StaysUnseen, Unseen
  <2>2. x.pc # "idle" /\ x.pc # "write back" /\ OldStaysOut /\ Unseen(r)
    BY <1>1, <1>5, <1>10 DEF LifeCalm
  <2>3. \A s \in LifeRequests : req'[s].pc = "idle" => Unseen(s)'
    BY <1>0, <1>1, <1>5, <1>10, <2>1, <2>2, UnseenStep
  <2> UNCHANGED <<text, old>>
    BY <1>1
  <2>4. RestoreSticks'
    BY <1>4, <2>2 DEF OldStaysOut, RestoreSticks
  <2>5. text[d] \notin old
    <3>1. CASE Attached
      BY <1>1, <1>3, <2>2, <3>1 DEF OldStaysOut
    <3>2. CASE ~Attached
      <4>1. None \notin old
        BY <1>2, LifeAssumption DEF Texts
      <4> QED
        BY <1>3, <2>2, <3>2, <4>1 DEF Unseen
    <3> QED
      BY <3>1, <3>2
  <2>6. ASSUME NEW q \in LifeRequests, req'[q].pc = "write back", DocumentOf(req[q].row.doc)'
        PROVE  req'[q].took \notin old'
    <3>1. req'[q] = req[q] /\ q # r /\ req[q].pc = "write back" /\ req[q].row.doc = d
      BY <1>4, <1>6, <2>2, <2>6 DEF DocumentOf
    <3>2. d # r
      BY <2>2, <3>1 DEF Unseen
    <3>3. DocumentOf(req[q].row.doc)
      BY <1>1, <1>3, <3>1, <3>2 DEF DocumentOf
    <3> QED
      BY <2>2, <3>1, <3>3 DEF OldStaysOut
  <2>7. (project.alive /\ Attached => text[project.doc] \notin old)'
    BY <1>1, <1>4, <2>5
  <2> QED
    BY <2>3, <2>4, <2>6, <2>7 DEF LifeCalm, OldStaysOut
<1>11. NoRowWritten' => NoRowWritten
  BY <1>0, <1>1, LifeKindStep
<1> QED
  BY <1>0, <1>8, <1>9, <1>10, <1>11 DEF LifeInv

(* A document that has a text keeps it; a new one has the row's. *)
LEMMA LifeInitialises ==
  ASSUME LifeInv, NEW r \in LifeRequests, InitializeProjectDocument(r)
  PROVE  LifeInv'
<1>0. LifeShape /\ VersionHoldsContent /\ (NoRowWritten => LifeCalm)
  BY DEF LifeInv
<1> DEFINE d == req[r].row.doc
           x == [req[r] EXCEPT !.pc = "done"]
<1>1. req[r].pc = "initialise" /\ req' = [req EXCEPT ![r] = x] /\ UNCHANGED <<project, versions, old>>
  BY DEF InitializeProjectDocument, Goto
<1>2. project \in Row /\ versions \in Seq(Texts) /\ text \in [Docs -> Texts \cup {None}]
      /\ sessions \subseteq Docs /\ old \subseteq Texts /\ req \in [LifeRequests -> Request]
  BY <1>0 DEF LifeShape, LifeTypeOK
<1>3. x \in Request /\ x.pc = "done" /\ x.kind = req[r].kind /\ x.row = req[r].row
      /\ x.took = req[r].took /\ x.synced = req[r].synced
  BY <1>2 DEF Request
<1> HIDE DEF x
<1>4. CASE ~DocumentOf(d)
  <2>1. UNCHANGED <<text, sessions>>
    BY <1>4 DEF InitializeProjectDocument
  <2> QED
    BY <1>1, <1>3, <2>1, LifeEnds
<1>5. CASE DocumentOf(d)
  <2>1. text' = Initialized(d) /\ sessions' = sessions \cup {d}
    BY <1>5 DEF InitializeProjectDocument
  <2>2. d \in Docs /\ d # None
    BY <1>0, <1>1, <1>2 DEF Request, Row, LifeShape
  <2>3. /\ text' \in [Docs -> Texts \cup {None}] /\ sessions' \subseteq Docs
        /\ \A e \in Docs : e # d => text'[e] = text[e]
        /\ text'[d] \in {text[d], project.content} \ {None}
    <3>1. project.content \in Texts /\ None \notin Texts
      BY <1>2, LifeAssumption DEF Row, Texts
    <3> QED
      BY <1>2, <2>1, <2>2, <3>1 DEF Initialized
  <2>4. LifeShape'
    BY <1>0, <1>1, <1>2, <1>3, <2>3, LifeShapeStep
  <2>5. VersionHoldsContent'
    BY <1>0, <1>1, <1>3, LifeVersionStep
  <2>6. ASSUME LifeCalm PROVE LifeCalm'
    <3>1. ASSUME NEW s \in LifeRequests, s # r, Unseen(s)
          PROVE  StaysUnseen(s, x)
      <4>1. s \in Docs /\ d # s
        BY <3>1 DEF Docs, Unseen
      <4>2. text'[s] = None /\ text'[d] # s /\ s \notin sessions'
        BY <2>1, <2>2, <2>3, <3>1, <4>1 DEF Unseen
      <4> QED
        BY <1>1, <1>3, <2>3, <3>1, <4>1, <4>2 DEF StaysUnseen, Unseen
    <3>2. x.pc # "idle" /\ x.pc # "write back" /\ OldStaysOut
      BY <1>3, <2>6 DEF LifeCalm
    <3>3. \A s \in LifeRequests : req'[s].pc = "idle" => Unseen(s)'
      BY <1>0, <1>1, <1>3, <2>6, <3>1, <3>2, UnseenStep
    <3> UNCHANGED <<project, old>>
      BY <1>1
    <3>4. RestoreSticks'
      BY <3>2 DEF OldStaysOut, RestoreSticks
    <3>5. project.doc = d /\ text'[d] \notin old
      BY <1>5, <2>2, <2>3, <3>2 DEF OldStaysOut, RestoreSticks, Attached, DocumentOf
    <3>6. ASSUME NEW q \in LifeRequests, req'[q].pc = "write back", DocumentOf(req[q].row.doc)'
          PROVE  req'[q].took \notin old'
      <4>1. req'[q] = req[q]
        BY <1>1, <1>2, <3>2, <3>6
      <4>2. DocumentOf(req[q].row.doc)
        BY <3>6, <4>1 DEF DocumentOf
      <4> QED
        BY <3>2, <3>6, <4>1, <4>2 DEF OldStaysOut
    <3>7. (project.alive /\ Attached => text[project.doc] \notin old)'
      BY <3>5
    <3> QED
      BY <3>3, <3>4, <3>6, <3>7 DEF LifeCalm, OldStaysOut
  <2>7. NoRowWritten' => NoRowWritten
    BY <1>0, <1>1, <1>3, LifeKindStep
  <2> QED
    BY <1>0, <2>4, <2>5, <2>6, <2>7 DEF LifeInv
<1> QED
  BY <1>4, <1>5

(* What a client writes is new. *)
LEMMA LifeEdits ==
  ASSUME LifeInv, NEW r \in LifeRequests, NEW d \in Docs, EditDocument(r, d)
  PROVE  LifeInv'
<1>0. LifeShape /\ VersionHoldsContent /\ (NoRowWritten => LifeCalm)
  BY DEF LifeInv
<1> DEFINE x == [req[r] EXCEPT !.kind = "edit", !.pc = "done", !.row = project]
<1>1. /\ req[r].pc = "idle" /\ d \in sessions /\ req' = [req EXCEPT ![r] = x] /\ text' = [text EXCEPT ![d] = r]
      /\ UNCHANGED <<project, versions, sessions, old>>
  BY DEF EditDocument, Comes, Reads
<1>2. project \in Row /\ versions \in Seq(Texts) /\ text \in [Docs -> Texts \cup {None}]
      /\ sessions \subseteq Docs /\ old \subseteq Texts /\ req \in [LifeRequests -> Request]
  BY <1>0 DEF LifeShape, LifeTypeOK
<1>3. x \in Request /\ x.pc = "done" /\ x.row = project /\ x.took = req[r].took /\ x.synced = req[r].synced
  BY <1>2 DEF Request, Kinds
<1> HIDE DEF x
<1>4. text' \in [Docs -> Texts \cup {None}] /\ text'[d] = r /\ \A e \in Docs : e # d => text'[e] = text[e]
  BY <1>1, <1>2 DEF Texts
<1>5. LifeShape'
  BY <1>0, <1>1, <1>2, <1>3, <1>4, LifeShapeStep
<1>6. VersionHoldsContent'
  BY <1>0, <1>1, <1>3, LifeVersionStep
<1>7. ASSUME LifeCalm PROVE LifeCalm'
  <2>1. ASSUME NEW s \in LifeRequests, s # r, Unseen(s)
        PROVE  StaysUnseen(s, x)
    <3>1. s \in Docs /\ d # s
      BY <1>1, <2>1 DEF Docs, Unseen
    <3>2. text'[s] = None /\ \A e \in Docs : text'[e] # s
      BY <1>4, <2>1, <3>1 DEF Unseen
    <3> QED
      BY <1>1, <1>3, <2>1, <3>2 DEF StaysUnseen, Unseen
  <2>2. x.pc # "idle" /\ x.pc # "write back" /\ OldStaysOut /\ r \notin old
    BY <1>1, <1>3, <1>7 DEF LifeCalm, Unseen
  <2>3. \A s \in LifeRequests : req'[s].pc = "idle" => Unseen(s)'
    BY <1>0, <1>1, <1>3, <1>7, <2>1, <2>2, UnseenStep
  <2> UNCHANGED <<project, old>>
    BY <1>1
  <2>4. RestoreSticks'
    BY <2>2 DEF OldStaysOut, RestoreSticks
  <2>5. (project.alive /\ Attached => text[project.doc] \notin old)'
    <3>1. Attached => project.doc \in Docs
      BY <1>2 DEF Attached, Row
    <3> QED
      BY <1>4, <2>2, <3>1 DEF OldStaysOut, Attached
  <2>6. ASSUME NEW q \in LifeRequests, req'[q].pc = "write back", DocumentOf(req[q].row.doc)'
        PROVE  req'[q].took \notin old'
    <3>1. req'[q] = req[q]
      BY <1>1, <1>2, <2>2, <2>6
    <3>2. DocumentOf(req[q].row.doc)
      BY <2>6, <3>1 DEF DocumentOf
    <3> QED
      BY <2>2, <2>6, <3>1, <3>2 DEF OldStaysOut
  <2> QED
    BY <2>3, <2>4, <2>5, <2>6 DEF LifeCalm, OldStaysOut
<1>8. NoRowWritten' => NoRowWritten
  BY <1>0, <1>1, LifeKindStep
<1> QED
  BY <1>0, <1>5, <1>6, <1>7, <1>8 DEF LifeInv

(* Nothing is old when the project has been created. *)
LEMMA LifeInitInv == LifeInit => LifeInv
<1> SUFFICES ASSUME LifeInit PROVE LifeInv
  OBVIOUS
<1> DEFINE nobody == [kind |-> "none", pc |-> "idle", row |-> Created, took |-> None, synced |-> FALSE]
<1>1. /\ project = Created /\ versions \in {<<>>, <<Original>>} /\ text = [d \in Docs |-> None]
      /\ sessions = {} /\ req = [r \in LifeRequests |-> nobody] /\ old = {}
  BY DEF LifeInit
<1>2. Created \in Row /\ Created.content = Original /\ Created.doc = None
  BY DEF Created, Row, Texts
<1>3. nobody \in Request /\ nobody.kind = "none" /\ nobody.pc = "idle" /\ nobody.row = Created
      /\ nobody.took = None /\ ~nobody.synced
  BY <1>2 DEF Request
<1> HIDE DEF nobody
<1>4. /\ versions \in Seq(Texts) /\ \A n \in DOMAIN versions : versions[n] = Original
      /\ versions # <<>> => versions[Len(versions)] = Original
  <2>1. Original \in Texts
    BY DEF Texts
  <2>2. CASE versions = <<>>
    BY <2>2, EmptySeq
  <2>3. CASE versions = <<Original>>
    BY <2>1, <2>3
  <2> QED
    BY <1>1, <2>2, <2>3
<1>5. LifeShape
  <2>1. \A n \in DOMAIN versions : versions[n] \in Texts
    BY <1>4 DEF Texts
  <2>2. LifeTypeOK
    BY <1>1, <1>2, <1>3, <2>1 DEF LifeTypeOK
  <2> QED
    BY <1>1, <1>3, <1>4, <2>2 DEF LifeShape
<1>6. VersionHoldsContent
  BY <1>1, <1>2, <1>4 DEF VersionHoldsContent
<1>7. OldStaysOut
  BY <1>1, <1>2, <1>3 DEF OldStaysOut, RestoreSticks, Attached
<1>8. ASSUME NEW r \in LifeRequests PROVE Unseen(r)
  <2>1. r # Original /\ r # None
    BY LifeAssumption
  <2> QED
    BY <1>1, <1>2, <1>3, <1>4, <2>1 DEF Unseen, Docs
<1> QED
  BY <1>5, <1>6, <1>7, <1>8 DEF LifeInv, LifeCalm

(* The invariant of a project holds in every behaviour. *)
LEMMA LifeInvariant == LifeSpec => []LifeInv
<1>1. ASSUME LifeInv, UNCHANGED lifeVars PROVE LifeInv'
  <2>1. UNCHANGED <<project, versions, text, sessions, req, old>>
    BY <1>1 DEF lifeVars
  <2>2. LifeShape' /\ VersionHoldsContent'
    BY <1>1, <2>1 DEF LifeInv, LifeShape, LifeTypeOK, VersionHoldsContent
  <2>3. (NoRowWritten' => NoRowWritten) /\ (LifeCalm => LifeCalm')
    BY <2>1 DEF NoRowWritten, LifeCalm, OldStaysOut, RestoreSticks, Attached, DocumentOf, Unseen
  <2> QED
    BY <1>1, <2>2, <2>3 DEF LifeInv
<1>2. LifeInv /\ [LifeNext]_lifeVars => LifeInv'
  BY <1>1, LifeBegins, LifeLoads, LifeWritesBack, LifeSaves, LifeRestores, LifeAttaches, LifeInitialises, LifeEdits
     DEF LifeNext, RequestStep
<1> QED
  BY <1>2, LifeInitInv, PTL DEF LifeSpec

(* A version gives back what the project holds, and what a restore replaced stays away unless a save
   or an update writes the row back: for any number of requests, in any order. *)
THEOREM ContentIsKept == LifeSpec => []ContentKept
<1>1. LifeInv => ContentKept
  BY DEF LifeInv, ContentKept, LifeCalm, OldStaysOut
<1> QED
  BY <1>1, LifeInvariant, PTL

-----------------------------------------------------------------------------
(* Workspaces and members                                                  *)

\* An invite held FOR UPDATE stays pending until the one acceptance that holds it ends.
AcceptanceHolds ==
    /\ \A i \in locked : invite[i].status = "pending"
    /\ \A r \in Requests : task[r].pc = "accept" => task[r].invite \in locked
    /\ \A r, s \in Requests :
          task[r].pc = "accept" /\ task[s].pc = "accept" /\ task[r].invite = task[s].invite => r = s

MemberInv == MemberTypeOK /\ AcceptanceHolds /\ RemovedStaysOut

(* The initial state: the owner alone, and no invite held. *)
LEMMA MemberInitInv == MemberInit => MemberInv
  BY DEF MemberInit, MemberInv, MemberTypeOK, AcceptanceHolds, RemovedStaysOut, Task, Invite, People

(* Every operation on members and invites keeps the types. *)
LEMMA MemberStepTypes == MemberTypeOK /\ [MemberNext]_memberVars => MemberTypeOK'
<1> SUFFICES ASSUME MemberTypeOK, [MemberNext]_memberVars PROVE MemberTypeOK'
  OBVIOUS
<1> USE DEF MemberTypeOK, People, BeginTask, EndTask
<1>1. ASSUME NEW u \in Users, RemoveWorkspaceMember(u) PROVE MemberTypeOK'
  BY <1>1 DEF RemoveWorkspaceMember
<1>2. ASSUME NEW u \in Users, NEW role \in Roles, AddWorkspaceMember(u, role) PROVE MemberTypeOK'
  BY <1>2 DEF AddWorkspaceMember, Admit
<1>3. ASSUME NEW i \in Invites,
             CreateWorkspaceInvite(i) \/ InviteAges(i) \/ ExpireInvite(i) PROVE MemberTypeOK'
  <2>1. ASSUME NEW to \in {"pending", "expired"}, SetStatus(i, to)
        PROVE invite' \in [Invites -> Invite]
    BY <2>1 DEF SetStatus, Invite
  <2>2. CASE CreateWorkspaceInvite(i) \/ ExpireInvite(i)
    BY <2>1, <2>2 DEF CreateWorkspaceInvite, ExpireInvite
  <2>3. CASE InviteAges(i)
    BY <2>3 DEF InviteAges, Invite
  <2> QED
    BY <1>3, <2>2, <2>3
<1>4. ASSUME NEW r \in Requests, NEW u \in Users, NEW role \in Roles, ReadMember(r, u, role)
      PROVE MemberTypeOK'
  BY <1>4 DEF ReadMember, Task
<1>5. ASSUME NEW r \in Requests, UpdateMember(r) PROVE MemberTypeOK'
  BY <1>5 DEF UpdateMember, Task
<1>6. ASSUME NEW r \in Requests, AcceptInvite(r) PROVE MemberTypeOK'
  BY <1>6 DEF AcceptInvite, Admit, SetStatus, Task, Invite
<1>7. ASSUME NEW r \in Requests, RevokeInvite(r) PROVE MemberTypeOK'
  BY <1>7 DEF RevokeInvite, SetStatus, Task, Invite
<1>8. ASSUME NEW r \in Requests, NEW i \in Invites, LockInvite(r, i) \/ CheckPending(r, i)
      PROVE MemberTypeOK'
  BY <1>8 DEF LockInvite, CheckPending, SetStatus, Task, Invite
<1>9. CASE UNCHANGED memberVars
  BY <1>9 DEF memberVars
<1> QED
  BY <1>1, <1>2, <1>3, <1>4, <1>5, <1>6, <1>7, <1>8, <1>9 DEF MemberNext

(* A held invite changes its status only by the acceptance that holds it, and
   an acceptance begins by locking a pending invite nobody holds. *)
LEMMA MemberStepHolds ==
  MemberTypeOK /\ AcceptanceHolds /\ [MemberNext]_memberVars => AcceptanceHolds'
<1> SUFFICES ASSUME MemberTypeOK, AcceptanceHolds, [MemberNext]_memberVars PROVE AcceptanceHolds'
  OBVIOUS
<1> USE DEF MemberTypeOK, AcceptanceHolds, BeginTask, EndTask
<1>1. ASSUME NEW u \in Users, RemoveWorkspaceMember(u) PROVE AcceptanceHolds'
  BY <1>1 DEF RemoveWorkspaceMember
<1>2. ASSUME NEW u \in Users, NEW role \in Roles, AddWorkspaceMember(u, role) PROVE AcceptanceHolds'
  BY <1>2 DEF AddWorkspaceMember
<1>3. ASSUME NEW i \in Invites,
             CreateWorkspaceInvite(i) \/ InviteAges(i) \/ ExpireInvite(i) PROVE AcceptanceHolds'
  BY <1>3 DEF CreateWorkspaceInvite, InviteAges, ExpireInvite, SetStatus, Invite
<1>4. ASSUME NEW r \in Requests, NEW u \in Users, NEW role \in Roles, ReadMember(r, u, role)
      PROVE AcceptanceHolds'
  BY <1>4 DEF ReadMember, Task
<1>5. ASSUME NEW r \in Requests, UpdateMember(r) PROVE AcceptanceHolds'
  BY <1>5 DEF UpdateMember, Task
<1>6. ASSUME NEW r \in Requests, AcceptInvite(r) PROVE AcceptanceHolds'
  BY <1>6 DEF AcceptInvite, SetStatus, Task, Invite
<1>7. ASSUME NEW r \in Requests, RevokeInvite(r) PROVE AcceptanceHolds'
  BY <1>7 DEF RevokeInvite, SetStatus, Task, Invite
<1>8. ASSUME NEW r \in Requests, NEW i \in Invites, LockInvite(r, i) PROVE AcceptanceHolds'
  <2>1. CASE invite[i].late
    BY <1>8, <2>1 DEF LockInvite, SetStatus, Invite
  <2>2. CASE ~invite[i].late
    BY <1>8, <2>2 DEF LockInvite, Task
  <2> QED
    BY <2>1, <2>2
<1>9. ASSUME NEW r \in Requests, NEW i \in Invites, CheckPending(r, i) PROVE AcceptanceHolds'
  BY <1>9 DEF CheckPending, Task
<1>10. CASE UNCHANGED memberVars
  BY <1>10 DEF memberVars
<1> QED
  BY <1>1, <1>2, <1>3, <1>4, <1>5, <1>6, <1>7, <1>8, <1>9, <1>10 DEF MemberNext

(* Only an addition and an acceptance make a removed user a member again, and
   they take him off the removed ones. *)
LEMMA MemberStepRemoved ==
  MemberTypeOK /\ RemovedStaysOut /\ [MemberNext]_memberVars => RemovedStaysOut'
<1> SUFFICES ASSUME MemberTypeOK, RemovedStaysOut, [MemberNext]_memberVars PROVE RemovedStaysOut'
  OBVIOUS
<1> USE DEF MemberTypeOK, RemovedStaysOut, People, Admit
<1>1. ASSUME NEW u \in Users, RemoveWorkspaceMember(u) PROVE RemovedStaysOut'
  BY <1>1 DEF RemoveWorkspaceMember
<1>2. ASSUME NEW u \in Users, NEW role \in Roles, AddWorkspaceMember(u, role) PROVE RemovedStaysOut'
  BY <1>2 DEF AddWorkspaceMember
<1>3. ASSUME NEW r \in Requests, UpdateMember(r) PROVE RemovedStaysOut'
  BY <1>3 DEF UpdateMember, Task
<1>4. ASSUME NEW r \in Requests, AcceptInvite(r) PROVE RemovedStaysOut'
  BY <1>4 DEF AcceptInvite, Task, Invite
<1>5. CASE UNCHANGED <<roster, removed>>
  BY <1>5
<1> QED
  BY <1>1, <1>2, <1>3, <1>4, <1>5
     DEF MemberNext, CreateWorkspaceInvite, InviteAges, ExpireInvite, ReadMember, RevokeInvite,
         LockInvite, CheckPending, memberVars

(* The inductive invariant holds in every reachable state. *)
THEOREM MemberInvariant == MemberSpec => []MemberInv
<1>1. MemberInv /\ [MemberNext]_memberVars => MemberInv'
  BY MemberStepTypes, MemberStepHolds, MemberStepRemoved DEF MemberInv
<1> QED
  BY <1>1, MemberInitInv, PTL DEF MemberSpec

(* Whoever was removed from a workspace is no member until he is added or
   invited again, for any users, invites and number of requests. *)
THEOREM RemovalHolds == MemberSpec => []RemovedStaysOut
  BY MemberInvariant, PTL DEF MemberInv

(* An invite admits only while it is pending: AcceptWorkspaceInvite holds the
   row from its check to its update. *)
THEOREM AcceptanceNeedsPending == MemberSpec => AdmitsWhilePending
<1>1. MemberInv => AdmitsOnlyPending
  BY DEF MemberInv, AcceptanceHolds, AdmitsOnlyPending, AcceptInvite
<1> QED
  BY <1>1, MemberInvariant, PTL DEF AdmitsWhilePending

-----------------------------------------------------------------------------
(* Collaborators and share links                                           *)

SharingInv == SharingTypeOK /\ RemovedIsUnshared

(* Every operation on collaborators and links keeps the types. *)
LEMMA SharingStepTypes == SharingTypeOK /\ [SharingNext]_sharingVars => SharingTypeOK'
<1> SUFFICES ASSUME SharingTypeOK, [SharingNext]_sharingVars PROVE SharingTypeOK'
  OBVIOUS
<1> USE DEF SharingTypeOK, ProjectRoles, WorkspaceRoles, BeginErrand, EndErrand, Share
<1>1. ASSUME NEW u \in Guests, RemoveProjectCollaborator(u) PROVE SharingTypeOK'
  BY <1>1 DEF RemoveProjectCollaborator
<1>2. ASSUME NEW u \in Guests, NEW role \in ProjectRoles, AddProjectCollaborator(u, role)
      PROVE SharingTypeOK'
  BY <1>2 DEF AddProjectCollaborator
<1>3. ASSUME NEW u \in Guests, NEW role \in WorkspaceRoles \cup {"none"}, RosterChanges(u, role)
      PROVE SharingTypeOK'
  BY <1>3 DEF RosterChanges
<1>4. ASSUME NEW l \in Links,
             CreateProjectShareLink(l) \/ RevokeProjectShareLink(l) \/ LinkExpires(l)
      PROVE SharingTypeOK'
  BY <1>4 DEF CreateProjectShareLink, RevokeProjectShareLink, LinkExpires, Link
<1>5. ASSUME NEW r \in Errands, UpdateCollaborator(r) PROVE SharingTypeOK'
  BY <1>5 DEF UpdateCollaborator, Errand
<1>6. ASSUME NEW r \in Errands, JoinByLink(r) PROVE SharingTypeOK'
  BY <1>6 DEF JoinByLink, Errand
<1>7. ASSUME NEW r \in Errands, NEW u \in Guests, NEW role \in ProjectRoles,
             ReadCollaborator(r, u, role)
      PROVE SharingTypeOK'
  BY <1>7 DEF ReadCollaborator, Errand
<1>8. ASSUME NEW r \in Errands, NEW l \in Links, NEW u \in Guests, AcceptProjectShareLink(r, l, u)
      PROVE SharingTypeOK'
  BY <1>8 DEF AcceptProjectShareLink, Errand, Link
<1>9. CASE UNCHANGED sharingVars
  BY <1>9 DEF sharingVars
<1> QED
  BY <1>1, <1>2, <1>3, <1>4, <1>5, <1>6, <1>7, <1>8, <1>9 DEF SharingNext

(* Only an addition and a link give a removed collaborator a share again. *)
LEMMA SharingStepRemoved ==
  SharingTypeOK /\ RemovedIsUnshared /\ [SharingNext]_sharingVars => RemovedIsUnshared'
<1> SUFFICES ASSUME SharingTypeOK, RemovedIsUnshared, [SharingNext]_sharingVars
             PROVE RemovedIsUnshared'
  OBVIOUS
<1> USE DEF SharingTypeOK, RemovedIsUnshared, Share
<1>1. ASSUME NEW u \in Guests, RemoveProjectCollaborator(u) PROVE RemovedIsUnshared'
  BY <1>1 DEF RemoveProjectCollaborator
<1>2. ASSUME NEW u \in Guests, NEW role \in ProjectRoles, AddProjectCollaborator(u, role)
      PROVE RemovedIsUnshared'
  BY <1>2 DEF AddProjectCollaborator
<1>3. ASSUME NEW r \in Errands, UpdateCollaborator(r) PROVE RemovedIsUnshared'
  BY <1>3 DEF UpdateCollaborator, Errand
<1>4. ASSUME NEW r \in Errands, JoinByLink(r) PROVE RemovedIsUnshared'
  BY <1>4 DEF JoinByLink, Errand
<1>5. CASE UNCHANGED <<shared, barred>>
  BY <1>5
<1> QED
  BY <1>1, <1>2, <1>3, <1>4, <1>5
     DEF SharingNext, CreateProjectShareLink, RevokeProjectShareLink, LinkExpires, RosterChanges,
         ReadCollaborator, AcceptProjectShareLink, sharingVars

(* The invariant of the collaborators holds in every behaviour. *)
LEMMA SharingInvariant == SharingSpec => []SharingInv
<1>1. SharingInit => SharingInv
  BY DEF SharingInit, SharingInv, SharingTypeOK, RemovedIsUnshared, Errand, Link, ProjectRoles,
         WorkspaceRoles
<1>2. SharingInv /\ [SharingNext]_sharingVars => SharingInv'
  BY SharingStepTypes, SharingStepRemoved DEF SharingInv
<1> QED
  BY <1>1, <1>2, PTL DEF SharingSpec

(* A removed collaborator has no share until he is added or follows a link
   again, for any guests, links and number of requests. *)
THEOREM UnsharingHolds == SharingSpec => []RemovedIsUnshared
  BY SharingInvariant, PTL DEF SharingInv

-----------------------------------------------------------------------------
(* The parts side by side                                                  *)

(* A step of one part is a step of its component, and none of the others: every part of the *)
(* composition behaves as its component says.                                               *)
LEMMA PartsBehave ==
  AllSpec =>
    /\ Spec /\ MemberSpec /\ SharingSpec /\ ListSpec /\ TemplateSpec
    /\ HandoffSpec /\ ArchiveSpec /\ LifeSpec /\ AISpec
<1>1. AllInit =>
        /\ Init /\ MemberInit /\ SharingInit /\ ListInit /\ TemplateInit
        /\ HandoffInit /\ ArchiveInit /\ LifeInit /\ AIInit
  BY DEF AllInit
<1>2. [AllNext]_all =>
        /\ [Next]_vars /\ [MemberNext]_memberVars /\ [SharingNext]_sharingVars /\ [ListNext]_listVars
        /\ [TemplateNext]_templateVars /\ [HandoffNext]_handoffVars /\ [ArchiveNext]_archiveVars
        /\ [LifeNext]_lifeVars /\ [AINext]_aiVars
  BY DEF AllNext, OutboxStep, LifeStep, MembersStep, SharingStep, ListsStep, ArchiveStep, HandoffsStep, AIStep,
         OptionsStep, all, peopleVars, keeperVars
<1> QED
  BY <1>1, <1>2, PTL DEF AllSpec, Spec, MemberSpec, SharingSpec, ListSpec, TemplateSpec, HandoffSpec, ArchiveSpec,
                         LifeSpec, AISpec

(* Whatever happens to the rows, every one of them is of its type: no more retries are counted than *)
(* callbacks came, only rows that came are closed, and no run goes further than past its last turn. *)
THEOREM RecordTypesHold == AllSpec => []PartsTypeOK
<1>1. MemberInv /\ SharingInv => MemberTypeOK /\ SharingTypeOK
  BY DEF MemberInv, SharingInv
<1>2. ListInv /\ TemplateInv => ListTypeOK /\ TemplateTypeOK
  BY DEF ListInv, TemplateInv
<1>3. ArchiveInv /\ LifeInv /\ LogInv => ArchiveTypeOK /\ LifeTypeOK /\ AITypeOK
  BY DEF ArchiveInv, LifeInv, LifeShape, LogInv
<1> QED
  BY <1>1, <1>2, <1>3, PartsBehave, OutboxTypeCorrect, MemberInvariant, SharingInvariant, ListInvariant,
     TemplateInvariant, HandoffTypesHold, ArchiveInvariant, LifeInvariant, LogHolds, PTL DEF PartsTypeOK

=============================================================================
