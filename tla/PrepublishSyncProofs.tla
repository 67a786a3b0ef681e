------------------------ MODULE PrepublishSyncProofs ------------------------
(***************************************************************************)
(* Syncs of drafts beside editors and publishes, for any platforms, syncs, *)
(* versions and requests.                                                  *)
(*                                                                         *)
(* The argument: whatever makes a row active has looked at the row in the  *)
(* same step, so an active row has a draft and is enabled; a sync writes a *)
(* row only where it is disabled, not active, or still marked syncing.     *)
(***************************************************************************)
EXTENDS PrepublishSync, CollabDocument, FiniteSetTheorems, TLAPS

\* A row that is queued or published has not been deselected.
ActiveEnabled ==
    \A p \in DOMAIN pubs : pubs[p].status \in ActivePublicationStatuses => pubs[p].enabled

Inv == TypeOK /\ ActiveHasDraft /\ ActiveEnabled

Row == Publication(0..MaxVersion)

(* What the statements of the services do to one row: its type. *)
LEMMA RowTypes ==
  ASSUME NEW pub \in Row, NEW v \in 0..MaxVersion, NEW b \in BOOLEAN
  PROVE  /\ PendingPublication \in Row /\ SavedDraft(v) \in Row
         /\ MarkQueued(pub) \in Row /\ MarkPublishing(pub) \in Row
         /\ CompletedPublication(pub, b) \in Row
         /\ DisablePublication(pub) \in Row /\ ResetPublicationForDraft(pub, b) \in Row
         /\ MarkDraftsStale(pub) \in Row /\ EnsurePrepublishPublication(pub) \in Row
         /\ MarkPrepublishSyncing(pub) \in Row
         /\ CompileFailed(pub) \in Row /\ DraftMissing(pub) \in Row
         /\ [pub EXCEPT !.stale = TRUE] \in Row
<1>0. 0 \in 0..MaxVersion
  BY PrepublishAssumption
<1> USE DEF Row, Publication, PublicationStatus, DraftStatus
<1>1. PendingPublication \in Row /\ SavedDraft(v) \in Row
  BY <1>0 DEF PendingPublication, SavedDraft
<1>2. MarkQueued(pub) \in Row /\ MarkPublishing(pub) \in Row
  BY DEF MarkQueued, MarkPublishing
<1>3. CompletedPublication(pub, b) \in Row
  BY DEF CompletedPublication
<1>4. DisablePublication(pub) \in Row
  BY DEF DisablePublication
<1>5. ResetPublicationForDraft(pub, b) \in Row
  BY DEF ResetPublicationForDraft
<1>6. MarkDraftsStale(pub) \in Row
  BY DEF MarkDraftsStale
<1>7. EnsurePrepublishPublication(pub) \in Row
  BY DEF EnsurePrepublishPublication
<1>8. MarkPrepublishSyncing(pub) \in Row
  BY DEF MarkPrepublishSyncing
<1>9. CompileFailed(pub) \in Row /\ DraftMissing(pub) \in Row
  BY DEF CompileFailed, DraftMissing
<1>10. [pub EXCEPT !.stale = TRUE] \in Row
  OBVIOUS
<1> HIDE DEF Row
<1> QED
  BY <1>1, <1>2, <1>3, <1>4, <1>5, <1>6, <1>7, <1>8, <1>9, <1>10

\* A row that may be active: it has a draft and is enabled.
Sound(pub) == pub.status \in ActivePublicationStatuses => pub.content # 0 /\ pub.enabled

(* What the statements of the services do to one row: it is sound if it was. *)
LEMMA RowSound ==
  ASSUME NEW pub \in Row, Sound(pub), NEW v \in 0..MaxVersion, NEW b \in BOOLEAN
  PROVE  /\ Sound(PendingPublication) /\ Sound(SavedDraft(v))
         /\ PreparePublishJob(pub) => Sound(MarkQueued(pub))
         /\ ~PublicationDisabled(pub) /\ ~PublicationRequiresSync(pub) => Sound(MarkPublishing(pub))
         /\ Sound(CompletedPublication(pub, b))
         /\ Sound(DisablePublication(pub)) /\ Sound(ResetPublicationForDraft(pub, b))
         /\ Sound(MarkDraftsStale(pub)) /\ Sound(EnsurePrepublishPublication(pub))
         /\ Sound(MarkPrepublishSyncing(pub))
         /\ Sound(CompileFailed(pub)) /\ Sound(DraftMissing(pub))
         /\ Sound([pub EXCEPT !.stale = TRUE])
<1> USE DEF Row, Publication, PublicationStatus, DraftStatus, Sound, ActivePublicationStatuses
<1>1. Sound(PendingPublication) /\ Sound(SavedDraft(v))
  BY DEF PendingPublication, SavedDraft
<1>2. PreparePublishJob(pub) => Sound(MarkQueued(pub))
  BY DEF PreparePublishJob, PublicationDisabled, PublicationHasSyncedDraft, MarkQueued
<1>3. ~PublicationDisabled(pub) /\ ~PublicationRequiresSync(pub) => Sound(MarkPublishing(pub))
  BY DEF PublicationDisabled, PublicationRequiresSync, PublicationHasSyncedDraft, MarkPublishing
<1>4. Sound(CompletedPublication(pub, b))
  BY DEF CompletedPublication
<1>5. Sound(DisablePublication(pub)) /\ Sound(ResetPublicationForDraft(pub, b))
  BY DEF DisablePublication, ResetPublicationForDraft
<1>6. Sound(MarkDraftsStale(pub))
  BY DEF MarkDraftsStale
<1>7. Sound(EnsurePrepublishPublication(pub))
  BY DEF EnsurePrepublishPublication
<1>8. Sound(MarkPrepublishSyncing(pub)) /\ Sound(CompileFailed(pub)) /\ Sound(DraftMissing(pub))
  BY DEF MarkPrepublishSyncing, CompileFailed, DraftMissing
<1>9. Sound([pub EXCEPT !.stale = TRUE])
  OBVIOUS
<1> HIDE DEF Row, Sound
<1> QED
  BY <1>1, <1>2, <1>3, <1>4, <1>5, <1>6, <1>7, <1>8, <1>9

\* All rows are rows of the table and sound.
Rows(table) ==
    /\ DOMAIN table \subseteq Platforms
    /\ table \in [DOMAIN table -> Row]
    /\ \A p \in DOMAIN table : Sound(table[p])

(* The invariant speaks of the rows one by one. *)
LEMMA InvRows ==
  Inv <=> /\ version \in 1..MaxVersion
          /\ Rows(pubs) /\ running \subseteq DOMAIN pubs
          /\ sync \in [Syncs -> Sync] /\ requests \in 0..MaxRequests
  BY DEF Inv, TypeOK, ActiveHasDraft, ActiveEnabled, Rows, Row, Sound

(* At the start every row is pending. *)
LEMMA InitInv == Init => Inv
<1> SUFFICES ASSUME Init PROVE Inv
  OBVIOUS
<1>1. version \in 1..MaxVersion /\ requests \in 0..MaxRequests
  BY PrepublishAssumption DEF Init
<1>2. sync \in [Syncs -> Sync]
  BY PrepublishAssumption DEF Init, Sync, SyncPC
<1>3. Rows(pubs)
  <2>1. PendingPublication \in Row
    BY PrepublishAssumption
       DEF PendingPublication, Row, Publication, PublicationStatus, DraftStatus
  <2>2. Sound(PendingPublication)
    BY DEF PendingPublication, Sound, ActivePublicationStatuses
  <2> QED
    BY <2>1, <2>2 DEF Init, Rows
<1> QED
  BY <1>1, <1>2, <1>3, InvRows DEF Init

(* A step of the sync itself keeps its own state. *)
LEMMA SyncTypes ==
  ASSUME TypeOK, NEW r \in Syncs, NEW pc \in SyncPC
  PROVE  [sync EXCEPT ![r].pc = pc] \in [Syncs -> Sync]
  BY DEF TypeOK, Sync

(* The rows after a sync's step. *)
LEMMA SyncRows ==
  ASSUME Inv, NEW r \in Syncs,
         \/ \E ps \in SUBSET Platforms : LoadProject(r, ps) \/ ApplyCompiledDrafts(r, ps)
         \/ EnsurePublications(r) \/ MarkSyncing(r) \/ MarkCompileFailure(r)
  PROVE  Inv'
<1>1. /\ version \in 1..MaxVersion /\ 1..MaxVersion \subseteq 0..MaxVersion
      /\ Rows(pubs) /\ running \subseteq DOMAIN pubs /\ TypeOK
      /\ sync \in [Syncs -> Sync] /\ requests \in 0..MaxRequests
  BY InvRows DEF Inv
<1>2. /\ sync[r].platforms \subseteq Platforms /\ sync[r].base \in 0..MaxVersion
      /\ FALSE \in BOOLEAN
  BY <1>1 DEF Sync
<1>3. ASSUME NEW ps \in SUBSET Platforms, LoadProject(r, ps) PROVE Inv'
  <2>1. sync' \in [Syncs -> Sync]
    BY <1>1, <1>3 DEF LoadProject, Sync, SyncPC
  <2> QED
    BY <1>1, <1>3, <2>1, InvRows DEF LoadProject, Inv, TypeOK, ActiveHasDraft, ActiveEnabled
<1>4. ASSUME Rows(pubs'), running \subseteq DOMAIN pubs', sync' \in [Syncs -> Sync],
             UNCHANGED <<version, running, requests>>
      PROVE  Inv'
  BY <1>1, <1>4
     DEF Inv, TypeOK, ActiveHasDraft, ActiveEnabled, Rows, Row, Sound
<1>5. CASE EnsurePublications(r)
  <2>1. sync' \in [Syncs -> Sync]
    BY <1>1, <1>5, SyncTypes DEF EnsurePublications, Goto, SyncPC
  <2>2. Rows(pubs')
    <3>1. DOMAIN pubs' = DOMAIN pubs \cup sync[r].platforms
      BY <1>5 DEF EnsurePublications
    <3>2. pubs' = [p \in DOMAIN pubs' |->
                      IF p \notin DOMAIN pubs THEN PendingPublication
                      ELSE IF p \in sync[r].platforms THEN EnsurePrepublishPublication(pubs[p])
                      ELSE pubs[p]]
      BY <1>5 DEF EnsurePublications
    <3>3. PendingPublication \in Row /\ Sound(PendingPublication)
      BY PrepublishAssumption DEF PendingPublication, Row, Publication, PublicationStatus,
                                  DraftStatus, Sound, ActivePublicationStatuses
    <3>4. ASSUME NEW p \in DOMAIN pubs'
          PROVE  pubs'[p] \in Row /\ Sound(pubs'[p])
      <4>1. CASE p \notin DOMAIN pubs
        BY <3>2, <3>3, <4>1
      <4>2. CASE p \in DOMAIN pubs
        <5>1. pubs[p] \in Row /\ Sound(pubs[p])
          BY <1>1, <4>2 DEF Rows
        <5>2. /\ EnsurePrepublishPublication(pubs[p]) \in Row
              /\ Sound(EnsurePrepublishPublication(pubs[p]))
          BY <1>2, <5>1, RowTypes, RowSound
        <5> QED
          BY <3>2, <4>2, <5>1, <5>2
      <4> QED
        BY <4>1, <4>2
    <3> QED
      BY <1>1, <1>2, <3>1, <3>2, <3>4 DEF Rows
  <2>3. running \subseteq DOMAIN pubs'
    BY <1>1, <1>5 DEF EnsurePublications
  <2> QED
    BY <1>4, <1>5, <2>1, <2>2, <2>3 DEF EnsurePublications
<1>6. CASE MarkSyncing(r)
  <2>1. sync' \in [Syncs -> Sync]
    <3>1. \/ sync' = [sync EXCEPT ![r].pc = "syncing"]
          \/ sync' = [sync EXCEPT ![r].pc = "failed"]
      BY <1>6 DEF MarkSyncing, Goto
    <3>2. "syncing" \in SyncPC /\ "failed" \in SyncPC
      BY DEF SyncPC
    <3> QED
      BY <1>1, <3>1, <3>2, SyncTypes
  <2>2. Rows(pubs') /\ DOMAIN pubs' = DOMAIN pubs
    <3>1. CASE UNCHANGED pubs
      BY <1>1, <3>1
    <3>2. CASE pubs' = [p \in DOMAIN pubs |-> IF p \in sync[r].platforms
                                              THEN MarkPrepublishSyncing(pubs[p]) ELSE pubs[p]]
      <4>1. ASSUME NEW p \in DOMAIN pubs PROVE pubs'[p] \in Row /\ Sound(pubs'[p])
        <5>1. pubs[p] \in Row /\ Sound(pubs[p])
          BY <1>1 DEF Rows
        <5>2. /\ MarkPrepublishSyncing(pubs[p]) \in Row
              /\ Sound(MarkPrepublishSyncing(pubs[p]))
          BY <1>2, <5>1, RowTypes, RowSound
        <5> QED
          BY <3>2, <5>1, <5>2
      <4> QED
        BY <1>1, <3>2, <4>1 DEF Rows
    <3> QED
      BY <1>6, <3>1, <3>2 DEF MarkSyncing
  <2> QED
    BY <1>1, <1>4, <1>6, <2>1, <2>2 DEF MarkSyncing
<1>7. ASSUME NEW answer, Apply(r, answer), UNCHANGED <<version, running, requests>>,
             \A p \in sync[r].platforms \cap DOMAIN pubs : answer[p] \in Row /\ Sound(answer[p])
      PROVE  Inv'
  <2>1. sync' \in [Syncs -> Sync]
    <3>1. \/ sync' = [sync EXCEPT ![r].pc = "done"]
          \/ sync' = [sync EXCEPT ![r].pc = "failed"]
      BY <1>7 DEF Apply, Goto
    <3>2. "done" \in SyncPC /\ "failed" \in SyncPC
      BY DEF SyncPC
    <3> QED
      BY <1>1, <3>1, <3>2, SyncTypes
  <2>2. Rows(pubs') /\ DOMAIN pubs' = DOMAIN pubs
    <3>1. CASE UNCHANGED pubs
      BY <1>1, <3>1
    <3>2. CASE pubs' = [p \in DOMAIN pubs |-> IF p \in sync[r].platforms THEN answer[p] ELSE pubs[p]]
      <4>1. ASSUME NEW p \in DOMAIN pubs PROVE pubs'[p] \in Row /\ Sound(pubs'[p])
        BY <1>1, <1>7, <3>2 DEF Rows
      <4> QED
        BY <1>1, <3>2, <4>1 DEF Rows
    <3> QED
      BY <1>7, <3>1, <3>2 DEF Apply
  <2> QED
    BY <1>1, <1>4, <1>7, <2>1, <2>2
<1>8. ASSUME NEW ps \in SUBSET Platforms, ApplyCompiledDrafts(r, ps) PROVE Inv'
  <2> DEFINE answer == [p \in sync[r].platforms |->
                           IF p \in ps THEN SavedDraft(sync[r].base) ELSE DraftMissing(pubs[p])]
  <2>1. ASSUME NEW p \in sync[r].platforms \cap DOMAIN pubs
        PROVE  answer[p] \in Row /\ Sound(answer[p])
    <3>1. pubs[p] \in Row /\ Sound(pubs[p])
      BY <1>1 DEF Rows
    <3>2. /\ SavedDraft(sync[r].base) \in Row /\ DraftMissing(pubs[p]) \in Row
          /\ Sound(SavedDraft(sync[r].base)) /\ Sound(DraftMissing(pubs[p]))
      BY <1>2, <3>1, RowTypes, RowSound
    <3> QED
      BY <3>2
  <2>2. Apply(r, answer) /\ UNCHANGED <<version, running, requests>>
    BY <1>8 DEF ApplyCompiledDrafts
  <2> HIDE DEF answer
  <2> QED
    BY <1>7, <2>1, <2>2
<1>9. CASE MarkCompileFailure(r)
  <2> DEFINE answer == [p \in sync[r].platforms |-> CompileFailed(pubs[p])]
  <2>1. ASSUME NEW p \in sync[r].platforms \cap DOMAIN pubs
        PROVE  answer[p] \in Row /\ Sound(answer[p])
    <3>1. pubs[p] \in Row /\ Sound(pubs[p])
      BY <1>1 DEF Rows
    <3>2. CompileFailed(pubs[p]) \in Row /\ Sound(CompileFailed(pubs[p]))
      BY <1>2, <3>1, RowTypes, RowSound
    <3> QED
      BY <3>2
  <2>2. Apply(r, answer) /\ UNCHANGED <<version, running, requests>>
    BY <1>9 DEF MarkCompileFailure
  <2> HIDE DEF answer
  <2> QED
    BY <1>7, <2>1, <2>2
<1> QED
  BY <1>3, <1>5, <1>6, <1>8, <1>9

(* The rows after a step that writes one of them. *)
LEMMA SetRows ==
  ASSUME Rows(pubs), NEW p \in DOMAIN pubs, NEW row \in Row, Sound(row), Set(p, row)
  PROVE  Rows(pubs') /\ DOMAIN pubs' = DOMAIN pubs
  BY DEF Rows, Set

(* One more request is within the bound. *)
LEMMA RequestTypes ==
  ASSUME requests \in 0..MaxRequests, Request
  PROVE  requests' \in 0..MaxRequests
  BY PrepublishAssumption DEF Request

(* A new version is within the bound. *)
LEMMA VersionTypes ==
  ASSUME version \in 1..MaxVersion, NewVersion
  PROVE  version' \in 1..MaxVersion
  BY PrepublishAssumption DEF NewVersion

(* The parts of the invariant, at the end of a step. *)
LEMMA InvAfter ==
  ASSUME version' \in 1..MaxVersion, Rows(pubs'), running' \subseteq DOMAIN pubs',
         sync' \in [Syncs -> Sync], requests' \in 0..MaxRequests
  PROVE  Inv'
  BY DEF Inv, TypeOK, ActiveHasDraft, ActiveEnabled, Rows, Row, Sound

(* The rows after a change of the selection. *)
LEMMA ReconciledRows ==
  ASSUME Rows(pubs), NEW selected \in SUBSET Platforms, NEW all \in BOOLEAN,
         pubs' = Reconciled(selected, all)
  PROVE  Rows(pubs') /\ DOMAIN pubs \subseteq DOMAIN pubs'
<1>1. /\ DOMAIN pubs' = DOMAIN pubs \cup selected
      /\ pubs' = [p \in DOMAIN pubs' |->
                     IF p \notin DOMAIN pubs THEN PendingPublication
                     ELSE IF p \notin selected THEN DisablePublication(pubs[p])
                     ELSE IF all \/ PublicationDisabled(pubs[p])
                          THEN ResetPublicationForDraft(pubs[p], all)
                     ELSE pubs[p]]
  BY DEF Reconciled
<1>2. PendingPublication \in Row /\ Sound(PendingPublication)
  BY PrepublishAssumption DEF PendingPublication, Row, Publication, PublicationStatus,
                              DraftStatus, Sound, ActivePublicationStatuses
<1>3. ASSUME NEW p \in DOMAIN pubs' PROVE pubs'[p] \in Row /\ Sound(pubs'[p])
  <2>1. CASE p \notin DOMAIN pubs
    BY <1>1, <1>2, <2>1
  <2>2. CASE p \in DOMAIN pubs
    <3>1. pubs[p] \in Row /\ Sound(pubs[p])
      BY <2>2 DEF Rows
    <3>2. 1 \in 0..MaxVersion
      BY PrepublishAssumption
    <3>3. /\ DisablePublication(pubs[p]) \in Row /\ Sound(DisablePublication(pubs[p]))
          /\ ResetPublicationForDraft(pubs[p], all) \in Row
          /\ Sound(ResetPublicationForDraft(pubs[p], all))
      BY <3>1, <3>2, RowTypes, RowSound
    <3>4. \/ pubs'[p] = DisablePublication(pubs[p])
          \/ pubs'[p] = ResetPublicationForDraft(pubs[p], all)
          \/ pubs'[p] = pubs[p]
      BY <1>1, <2>2
    <3> QED
      BY <3>1, <3>3, <3>4
  <2> QED
    BY <2>1, <2>2
<1> QED
  BY <1>1, <1>3 DEF Rows

(* Every step keeps the invariant. *)
LEMMA StepInv == Inv /\ [Next]_vars => Inv'
<1> SUFFICES ASSUME Inv, [Next]_vars PROVE Inv'
  OBVIOUS
<1>1. /\ version \in 1..MaxVersion /\ Rows(pubs) /\ running \subseteq DOMAIN pubs
      /\ sync \in [Syncs -> Sync] /\ requests \in 0..MaxRequests /\ TypeOK
  BY InvRows DEF Inv
<1>2. \A p \in DOMAIN pubs : pubs[p] \in Row /\ Sound(pubs[p])
  BY <1>1 DEF Rows
<1>3. 1 \in 0..MaxVersion /\ 1..MaxVersion \subseteq 0..MaxVersion /\ TRUE \in BOOLEAN /\ FALSE \in BOOLEAN
  BY PrepublishAssumption
<1>4. ASSUME NEW r \in Syncs, RefreshSource(r) PROVE Inv'
  <2>1. version' \in 1..MaxVersion
    BY <1>1, <1>4, VersionTypes DEF RefreshSource
  <2>2. sync' \in [Syncs -> Sync]
    <3>1. sync' = [sync EXCEPT ![r].pc = "refreshed"] /\ "refreshed" \in SyncPC
      BY <1>4 DEF RefreshSource, Goto, SyncPC
    <3> QED
      BY <1>1, <3>1, SyncTypes
  <2> QED
    BY <1>1, <1>4, <2>1, <2>2, InvAfter DEF RefreshSource
<1>5. ASSUME NEW r \in Syncs, SyncStep(r) PROVE Inv'
  BY <1>5, SyncRows DEF SyncStep
<1>6. ASSUME NEW r \in Syncs, SyncFails(r) PROVE Inv'
  <2>1. sync' = [sync EXCEPT ![r].pc = "failed"] /\ "failed" \in SyncPC
    BY <1>6 DEF SyncFails, Goto, SyncPC
  <2>2. sync' \in [Syncs -> Sync]
    BY <1>1, <2>1, SyncTypes
  <2> QED
    BY <1>1, <1>6, <2>2, InvAfter DEF SyncFails
<1>7. CASE SaveProjectContent
  <2>1. pubs' = [p \in DOMAIN pubs |-> MarkDraftsStale(pubs[p])]
    BY <1>7 DEF SaveProjectContent
  <2>2. ASSUME NEW p \in DOMAIN pubs
        PROVE  MarkDraftsStale(pubs[p]) \in Row /\ Sound(MarkDraftsStale(pubs[p]))
    BY <1>2, <1>3, RowTypes, RowSound
  <2>3. Rows(pubs') /\ DOMAIN pubs' = DOMAIN pubs
    BY <1>1, <2>1, <2>2 DEF Rows
  <2> QED
    BY <1>1, <1>7, <2>3, RequestTypes, VersionTypes, InvAfter DEF SaveProjectContent
<1>8. ASSUME NEW selected \in SUBSET Platforms, UpdateProject(selected) PROVE Inv'
  <2>1. Rows(pubs') /\ DOMAIN pubs \subseteq DOMAIN pubs'
    BY <1>1, <1>3, <1>8, ReconciledRows DEF UpdateProject
  <2> QED
    BY <1>1, <1>8, <2>1, RequestTypes, VersionTypes, InvAfter DEF UpdateProject
<1>9. ASSUME NEW selected \in SUBSET Platforms, SaveProjectPlatforms(selected) PROVE Inv'
  <2>1. Rows(pubs') /\ DOMAIN pubs \subseteq DOMAIN pubs'
    BY <1>1, <1>3, <1>9, ReconciledRows DEF SaveProjectPlatforms
  <2> QED
    BY <1>1, <1>9, <2>1, RequestTypes, InvAfter DEF SaveProjectPlatforms
<1>10. ASSUME NEW p \in DOMAIN pubs, UpdateProjectPrepublishDraft(p) PROVE Inv'
  <2>1. SavedDraft(version) \in Row /\ Sound(SavedDraft(version))
    BY <1>1, <1>2, <1>3, <1>10, RowTypes, RowSound
  <2>2. Rows(pubs') /\ DOMAIN pubs' = DOMAIN pubs
    BY <1>1, <1>10, <2>1, SetRows DEF UpdateProjectPrepublishDraft
  <2> QED
    BY <1>1, <1>10, <2>2, RequestTypes, InvAfter DEF UpdateProjectPrepublishDraft
<1>11. ASSUME NEW p \in DOMAIN pubs, QueuePublication(p) PROVE Inv'
  <2>1. MarkQueued(pubs[p]) \in Row /\ Sound(MarkQueued(pubs[p]))
    BY <1>2, <1>3, <1>11, RowTypes, RowSound DEF QueuePublication
  <2>2. Rows(pubs') /\ DOMAIN pubs' = DOMAIN pubs
    BY <1>1, <1>11, <2>1, SetRows DEF QueuePublication
  <2> QED
    BY <1>1, <1>11, <2>2, RequestTypes, InvAfter DEF QueuePublication
<1>12. ASSUME NEW p \in DOMAIN pubs, BeginPublishing(p) PROVE Inv'
  <2>1. MarkPublishing(pubs[p]) \in Row /\ Sound(MarkPublishing(pubs[p]))
    BY <1>2, <1>3, <1>12, RowTypes, RowSound DEF BeginPublishing
  <2>2. Rows(pubs') /\ DOMAIN pubs' = DOMAIN pubs
    BY <1>1, <1>12, <2>1, SetRows DEF BeginPublishing
  <2> QED
    BY <1>1, <1>12, <2>2, RequestTypes, InvAfter DEF BeginPublishing
<1>13. ASSUME NEW p \in DOMAIN pubs, EndPublishing(p) PROVE Inv'
  <2>1. PICK ok \in BOOLEAN : Set(p, CompletedPublication(pubs[p], ok))
    BY <1>13 DEF EndPublishing
  <2>2. CompletedPublication(pubs[p], ok) \in Row /\ Sound(CompletedPublication(pubs[p], ok))
    BY <1>2, <1>3, RowTypes, RowSound
  <2>3. Rows(pubs') /\ DOMAIN pubs' = DOMAIN pubs
    BY <1>1, <2>1, <2>2, SetRows
  <2> QED
    BY <1>1, <1>13, <2>3, InvAfter DEF EndPublishing
<1>14. ASSUME NEW p \in DOMAIN pubs, PublicationTurnsStale(p) PROVE Inv'
  <2>1. [pubs[p] EXCEPT !.stale = TRUE] \in Row /\ Sound([pubs[p] EXCEPT !.stale = TRUE])
    BY <1>2, <1>3, RowTypes, RowSound
  <2>2. Rows(pubs') /\ DOMAIN pubs' = DOMAIN pubs
    BY <1>1, <1>14, <2>1, SetRows DEF PublicationTurnsStale
  <2> QED
    BY <1>1, <1>14, <2>2, InvAfter DEF PublicationTurnsStale
<1>15. CASE UNCHANGED vars
  BY <1>1, <1>15, InvAfter DEF vars
<1> QED
  BY <1>4, <1>5, <1>6, <1>7, <1>8, <1>9, <1>10, <1>11, <1>12, <1>13, <1>14, <1>15 DEF Next

(* All of it holds in every state. *)
LEMMA Invariance == Spec => []Inv
  BY InitInv, StepInv, PTL DEF Spec

(***************************************************************************)
(* Type correctness of the drafts of a project.                            *)
(***************************************************************************)
THEOREM PrepublishTypeCorrect == Spec => []TypeOK
<1>1. Inv => TypeOK
  BY DEF Inv
<1> QED
  BY Invariance, <1>1, PTL

(***************************************************************************)
(* The empty document is never published, whatever creates, disables and   *)
(* resets the rows meanwhile.                                              *)
(***************************************************************************)
THEOREM ActivesHaveDrafts == Spec => []ActiveHasDraft
<1>1. Inv => ActiveHasDraft
  BY DEF Inv
<1> QED
  BY Invariance, <1>1, PTL

\* The rows a step must leave alone are left alone.
ActivesKept ==
    \A p \in DOMAIN pubs :
        pubs[p].status \in ActivePublicationStatuses /\ sync' # sync => pubs'[p] = pubs[p]

(* No step of a sync writes an active row. *)
LEMMA StepKeepsActives == Inv /\ [Next]_vars => ActivesKept
<1> SUFFICES ASSUME Inv, [Next]_vars, sync' # sync,
                    NEW p \in DOMAIN pubs, pubs[p].status \in ActivePublicationStatuses
             PROVE  pubs'[p] = pubs[p]
  BY DEF ActivesKept
<1>1. /\ pubs[p].enabled /\ pubs[p].status # "cancelled" /\ pubs[p].status # "syncing"
      /\ pubs[p] \in Row /\ pubs \in [DOMAIN pubs -> Row]
  BY DEF Inv, ActiveEnabled, ActivePublicationStatuses, TypeOK, Row
<1>2. PICK r \in Syncs : RefreshSource(r) \/ SyncStep(r) \/ SyncFails(r)
  BY DEF Next, vars, SaveProjectContent, UpdateProject, SaveProjectPlatforms,
         UpdateProjectPrepublishDraft, QueuePublication, BeginPublishing, EndPublishing,
         PublicationTurnsStale
<1>3. CASE RefreshSource(r) \/ SyncFails(r) \/ (\E ps \in SUBSET Platforms : LoadProject(r, ps))
  BY <1>3 DEF RefreshSource, SyncFails, LoadProject
<1>4. CASE EnsurePublications(r)
  <2>1. EnsurePrepublishPublication(pubs[p]) = pubs[p]
    BY <1>1 DEF EnsurePrepublishPublication, PublicationDisabled
  <2> QED
    BY <1>4, <2>1 DEF EnsurePublications
<1>5. CASE MarkSyncing(r)
  BY <1>5 DEF MarkSyncing
<1>6. ASSUME NEW answer, Apply(r, answer) PROVE pubs'[p] = pubs[p]
  BY <1>1, <1>6 DEF Apply, StillSyncing
<1>7. CASE \E ps \in SUBSET Platforms : ApplyCompiledDrafts(r, ps)
  BY <1>6, <1>7 DEF ApplyCompiledDrafts
<1>8. CASE MarkCompileFailure(r)
  BY <1>6, <1>8 DEF MarkCompileFailure
<1> QED
  BY <1>2, <1>3, <1>4, <1>5, <1>7, <1>8 DEF SyncStep

(***************************************************************************)
(* No sync touches a publication that is queued or being published, for    *)
(* any number of syncs of any platforms beside any requests.               *)
(***************************************************************************)
THEOREM SyncsLeaveActivesAlone == Spec => SyncLeavesActiveAlone
<1>1. Inv /\ [Next]_vars => [ActivesKept]_vars
  BY StepKeepsActives
<1> QED
  BY Invariance, <1>1, PTL DEF Spec, SyncLeavesActiveAlone, ActivesKept

-----------------------------------------------------------------------------
(***************************************************************************)
(* The collaboration document, for any instances, edits, requests to       *)
(* initialise it, faults and syncs.                                        *)
(*                                                                         *)
(* The log: whoever is about to write a number holds the row and has the   *)
(* current number (RowHeld), so a batch begins where the log ends, and the *)
(* state answers for all that is written.  The seed: before the row of the *)
(* state nobody does anything (Idle); from then on every text that is      *)
(* stored, open or under way comes from that row, so it has the row's seed *)
(* and no other (Seeded).  The edits: what an instance that works alone    *)
(* has read or encoded stays as it read it, and its open copy has all that *)
(* is stored (Kept); with a second instance that is false, which is how    *)
(* NoEditLost fails.                                                       *)
(***************************************************************************)

\* The copy of instance i becomes this one; the others stay.
Sets(i, d, t, p, y, k) ==
    /\ inst' = [j \in Instances |-> inst'[j]]
    /\ inst'[i] = [doc |-> d, text |-> t, pending |-> p, dirty |-> y, task |-> k]
    /\ \A j \in Instances \ {i} : inst'[j] = inst[j]

(* What each step makes of the copy of its instance. *)
LEMMA CopyAfter ==
  ASSUME DocTypeOK, NEW i \in Instances
  PROVE  LET c == inst[i]  k == inst[i].task IN
         /\ \A kind : BeginTask(i, kind) =>
               Sets(i, c.doc, c.text, {}, IF kind = "store" THEN FALSE ELSE c.dirty,
                    WithFlush(i, [NoTask EXCEPT !.kind = kind, !.seen = made]))
         /\ OnLoadDocument(i) =>
               Sets(i, "loading", c.text, c.pending, c.dirty, [NoTask EXCEPT !.kind = "load", !.pc = "read state"])
         /\ \A task : Turn(i, task) => Sets(i, c.doc, c.text, c.pending, c.dirty, task)
         /\ k.pc = "read batches" /\ k.kind = "load" /\ ReadBatches(i) =>
               Sets(i, "open",
                    c.text \cup (k.text \cup UNION {b.text : b \in {x \in batches : x.to > k.at}}),
                    c.pending, c.dirty, NoTask)
         /\ \A e : OnChange(i, e) => Sets(i, c.doc, c.text \cup {e}, c.pending \cup {e}, TRUE, k)
         /\ \A e : HandleMessage(i, e) =>
               \/ UNCHANGED inst /\ c.doc = "closed"
               \/ c.doc # "closed" /\ \E y \in BOOLEAN : (c.dirty => y) /\ Sets(i, c.doc, c.text \cup {e}, c.pending, y, k)
         /\ Unload(i) => Sets(i, "closed", {}, c.pending, c.dirty, k)
         /\ \A kept : TaskEnds(i, kept) =>
               Sets(i, IF k.kind = "load" THEN "closed" ELSE c.doc, IF k.kind = "load" THEN {} ELSE c.text,
                    c.pending \cup kept, c.dirty \/ k.kind = "store", NoTask)
<1> DEFINE c == inst[i]  k == inst[i].task
<1>0. inst \in [Instances -> Copy] /\ c \in Copy
  BY DEF DocTypeOK
<1> USE <1>0 DEF Sets, Copy
<1>1. ASSUME NEW kind, BeginTask(i, kind)
      PROVE  Sets(i, c.doc, c.text, {}, IF kind = "store" THEN FALSE ELSE c.dirty,
                  WithFlush(i, [NoTask EXCEPT !.kind = kind, !.seen = made]))
  BY <1>1 DEF BeginTask
<1>2. ASSUME OnLoadDocument(i)
      PROVE  Sets(i, "loading", c.text, c.pending, c.dirty, [NoTask EXCEPT !.kind = "load", !.pc = "read state"])
  BY <1>2 DEF OnLoadDocument
<1>3. ASSUME NEW task, Turn(i, task) PROVE Sets(i, c.doc, c.text, c.pending, c.dirty, task)
  BY <1>3 DEF Turn
<1>4. ASSUME k.pc = "read batches", k.kind = "load", ReadBatches(i)
      PROVE Sets(i, "open",
                    c.text \cup (k.text \cup UNION {b.text : b \in {x \in batches : x.to > k.at}}),
                    c.pending, c.dirty, NoTask)
  BY <1>4 DEF ReadBatches, Task_
<1>5. ASSUME NEW e, OnChange(i, e) PROVE Sets(i, c.doc, c.text \cup {e}, c.pending \cup {e}, TRUE, k)
  BY <1>5 DEF OnChange
<1>6. ASSUME NEW e, HandleMessage(i, e)
      PROVE \/ UNCHANGED inst /\ c.doc = "closed"
            \/ c.doc # "closed" /\ \E y \in BOOLEAN : (c.dirty => y) /\ Sets(i, c.doc, c.text \cup {e}, c.pending, y, k)
  <2>1. CASE c.doc = "closed"
    BY <1>6, <2>1 DEF HandleMessage
  <2>2. CASE c.doc # "closed"
    <3>1. PICK changed \in {FALSE, c.doc = "open"} :
              inst' = [inst EXCEPT ![i].text = @ \cup {e}, ![i].dirty = @ \/ changed]
      BY <1>6, <2>2 DEF HandleMessage
    <3>2. (c.dirty \/ changed) \in BOOLEAN /\ (c.dirty => (c.dirty \/ changed))
      OBVIOUS
    <3>3. Sets(i, c.doc, c.text \cup {e}, c.pending, c.dirty \/ changed, k)
      BY <3>1
    <3> QED
      BY <2>2, <3>2, <3>3
  <2> QED
    BY <2>1, <2>2
<1>7. ASSUME Unload(i) PROVE Sets(i, "closed", {}, c.pending, c.dirty, k)
  BY <1>7 DEF Unload
<1>8. ASSUME NEW kept, TaskEnds(i, kept)
      PROVE Sets(i, IF k.kind = "load" THEN "closed" ELSE c.doc, IF k.kind = "load" THEN {} ELSE c.text,
                    c.pending \cup kept, c.dirty \/ k.kind = "store", NoTask)
  BY <1>8 DEF TaskEnds, Task_
<1> QED
  BY <1>1, <1>2, <1>3, <1>4, <1>5, <1>6, <1>7, <1>8, Zenon

\* What a task is for says which statements it runs, and a copy is loading while it is loaded.
CopyShape(c) ==
    LET task == c.task IN
    /\ task.kind = "none" => task = NoTask
    /\ task.pc = "none" => task.kind = "none"
    /\ task.pc \in {"lock batch", "write batch"} => task.kind \in {"flush", "store", "sync"} /\ task.batch # {}
    /\ task.pc \notin {"lock batch", "write batch"} => task.batch = {}
    /\ task.pc \in {"encode", "lock state", "write state"} => task.kind = "store"
    /\ task.pc \in {"read state", "read batches"} => task.kind \in {"load", "sync"}
    /\ task.pc = "write source" => task.kind = "sync"
    /\ task.kind = "store" => c.doc = "open"
    /\ task.kind = "load" <=> c.doc = "loading"
    /\ c.doc = "closed" => c.text = {}

DocShape == DocTypeOK /\ \A i \in Instances : CopyShape(inst[i])

(* A copy of the right shape in its place. *)
LEMMA ShapeAfter ==
  ASSUME DocShape, NEW i \in Instances, NEW d \in {"closed", "loading", "open"}, NEW t \in Texts,
         NEW p \in SUBSET Edits, NEW y \in BOOLEAN, NEW k \in Task, Sets(i, d, t, p, y, k),
         CopyShape([doc |-> d, text |-> t, pending |-> p, dirty |-> y, task |-> k])
  PROVE  inst' \in [Instances -> Copy] /\ \A j \in Instances : CopyShape(inst'[j])
<1>1. inst'[i] \in Copy /\ CopyShape(inst'[i])
  BY DEF Sets, Copy
<1>2. ASSUME NEW j \in Instances PROVE inst'[j] \in Copy /\ CopyShape(inst'[j])
  <2>1. CASE j = i
    BY <1>1, <2>1
  <2>2. CASE j # i
    BY <2>2 DEF Sets, DocShape, DocTypeOK
  <2> QED
    BY <2>1, <2>2
<1> QED
  BY <1>2 DEF Sets

(* What a flush leaves of a task. *)
LEMMA FlushTypes ==
  ASSUME NEW task \in Task, task.kind \in {"flush", "store", "sync"}
  PROVE  /\ AfterFlush(task) \in Task /\ AfterFlush(task).batch = {}
         /\ AfterFlush(task).text \subseteq task.text
         /\ \/ AfterFlush(task) = NoTask
            \/ task.kind = "store" /\ AfterFlush(task).kind = "store" /\ AfterFlush(task).pc = "encode"
               /\ AfterFlush(task).seen = task.seen
            \/ /\ task.kind = "sync" /\ AfterFlush(task).kind = "sync" /\ AfterFlush(task).pc = "read state"
               /\ AfterFlush(task).seen = task.seen
<1>1. CASE task.kind = "flush"
  BY <1>1 DEF AfterFlush, Task, NoTask, Texts
<1>2. CASE task.kind = "store"
  BY <1>2 DEF AfterFlush, Task, NoTask
<1>3. CASE task.kind = "sync"
  BY <1>3 DEF AfterFlush, Task, NoTask
<1> QED
  BY <1>1, <1>2, <1>3

(* The task of a flush that begins. *)
LEMMA BegunTypes ==
  ASSUME DocTypeOK, NEW i \in Instances, NEW kind \in {"flush", "store", "sync"}
  PROVE  LET task == WithFlush(i, [NoTask EXCEPT !.kind = kind, !.seen = made]) IN
         /\ task \in Task /\ task.text = {}
         /\ \/ task = NoTask /\ inst[i].pending = {}
            \/ task.kind = kind /\ task.batch = inst[i].pending /\ task.seen = made
               /\ \/ task.pc = "lock batch" /\ task.batch # {}
                  \/ kind = "store" /\ task.pc = "encode" /\ task.batch = {}
                  \/ kind = "sync" /\ task.pc = "read state" /\ task.batch = {}
<1> DEFINE fresh == [NoTask EXCEPT !.kind = kind, !.seen = made]
<1>1. fresh \in Task /\ fresh.kind = kind /\ fresh.seen = made /\ fresh.text = {}
  BY DEF DocTypeOK, Task, NoTask, Texts
<1>2. inst[i].pending \in SUBSET Edits
  BY DEF DocTypeOK, Copy
<1> HIDE DEF fresh
<1>3. CASE inst[i].pending = {}
  <2>1. WithFlush(i, fresh) = AfterFlush(fresh)
    BY <1>3 DEF WithFlush
  <2>2. AfterFlush(fresh) \in Task /\ AfterFlush(fresh).batch = {} /\ AfterFlush(fresh).text = {}
        /\ \/ AfterFlush(fresh) = NoTask
           \/ /\ AfterFlush(fresh).kind = kind /\ AfterFlush(fresh).seen = made
              /\ \/ kind = "store" /\ AfterFlush(fresh).pc = "encode"
                 \/ kind = "sync" /\ AfterFlush(fresh).pc = "read state"
    BY <1>1, FlushTypes
  <2> QED
    BY <1>3, <2>1, <2>2 DEF fresh
<1>4. CASE inst[i].pending # {}
  <2>1. WithFlush(i, fresh) = [fresh EXCEPT !.pc = "lock batch", !.batch = inst[i].pending]
    BY <1>4 DEF WithFlush
  <2> QED
    BY <1>1, <1>2, <1>4, <2>1 DEF fresh, Task
<1> QED
  BY <1>3, <1>4

(* Every step leaves copies of the right shape. *)
LEMMA ShapesKept ==
  ASSUME DocShape, [DocNext]_docVars
  PROVE  inst' \in [Instances -> Copy] /\ \A j \in Instances : CopyShape(inst'[j])
<1> DEFINE Goal == inst' \in [Instances -> Copy] /\ \A j \in Instances : CopyShape(inst'[j])
<1>0. DocTypeOK /\ inst \in [Instances -> Copy] /\ \A i \in Instances : inst[i] \in Copy /\ CopyShape(inst[i])
  BY DEF DocShape, DocTypeOK
<1>1. CASE UNCHANGED inst
  BY <1>0, <1>1
<1>2. ASSUME NEW i \in Instances, InstanceStep(i) PROVE Goal
  <2> DEFINE c == inst[i]  k == inst[i].task
  <2>0. /\ c \in Copy /\ CopyShape(c) /\ c.doc \in {"closed", "loading", "open"} /\ c.text \in Texts
        /\ c.pending \in SUBSET Edits /\ c.dirty \in BOOLEAN /\ k \in Task
        /\ k.batch \in SUBSET Edits /\ k.text \in Texts /\ k.at \in Nat
    BY <1>0 DEF Copy, Task
  <2>1. ASSUME NEW kind \in {"flush", "store", "sync"}, BeginTask(i, kind), kind = "store" => c.doc = "open"
        PROVE  Goal
    <3> DEFINE task == WithFlush(i, [NoTask EXCEPT !.kind = kind, !.seen = made])
               y == IF kind = "store" THEN FALSE ELSE c.dirty
    <3>1. Sets(i, c.doc, c.text, {}, y, task)
      BY <1>0, <2>1, CopyAfter
    <3>2. /\ task \in Task
          /\ \/ task = NoTask /\ inst[i].pending = {}
             \/ task.kind = kind /\ task.batch = inst[i].pending /\ task.seen = made
                /\ \/ task.pc = "lock batch" /\ task.batch # {}
                   \/ kind = "store" /\ task.pc = "encode" /\ task.batch = {}
                   \/ kind = "sync" /\ task.pc = "read state" /\ task.batch = {}
      BY <1>0, BegunTypes
    <3>3. k = NoTask
      BY <2>1 DEF BeginTask, Task_
    <3> HIDE DEF task
    <3>4. CopyShape([doc |-> c.doc, text |-> c.text, pending |-> {}, dirty |-> y, task |-> task])
      <4>1. c.doc # "loading" /\ (c.doc = "closed" => c.text = {})
        BY <2>0, <3>3 DEF CopyShape, NoTask
      <4> HIDE DEF y
      <4>2. CASE task = NoTask
        BY <4>1, <4>2 DEF CopyShape, NoTask
      <4>3. CASE task # NoTask
        BY <2>1, <3>2, <4>1, <4>3 DEF CopyShape
      <4> QED
        BY <4>2, <4>3
    <3>5. task \in Task /\ y \in BOOLEAN /\ {} \in SUBSET Edits
      BY <2>0, <3>2
    <3> HIDE DEF y
    <3> QED
      BY <2>0, <3>1, <3>4, <3>5, ShapeAfter
  <2>2. CASE OnLoadDocument(i)
    <3> DEFINE task == [NoTask EXCEPT !.kind = "load", !.pc = "read state"]
    <3>1. Sets(i, "loading", c.text, c.pending, c.dirty, task)
      BY <1>0, <2>2, CopyAfter
    <3>2. task \in Task /\ task.kind = "load" /\ task.pc = "read state" /\ task.batch = {}
      BY DEF Task, NoTask, Texts
    <3> HIDE DEF task
    <3>3. CopyShape([doc |-> "loading", text |-> c.text, pending |-> c.pending, dirty |-> c.dirty, task |-> task])
      BY <2>0, <3>2 DEF CopyShape
    <3> QED
      BY <2>0, <3>1, <3>2, <3>3, ShapeAfter
  <2>3. ASSUME NEW task \in Task, Turn(i, task),
               CopyShape([doc |-> c.doc, text |-> c.text, pending |-> c.pending, dirty |-> c.dirty, task |-> task])
        PROVE  Goal
    <3>1. Sets(i, c.doc, c.text, c.pending, c.dirty, task)
      BY <1>0, <2>3, CopyAfter
    <3> QED
      BY <2>0, <2>3, <3>1, ShapeAfter
  <2>4. CASE LockDocumentAndReadSeq(i)
    <3>1. PICK task : task = [k EXCEPT !.at = seq, !.pc = IF k.pc = "lock batch" THEN "write batch" ELSE "write state"]
      OBVIOUS
    <3>2. task \in Task
      BY <1>0, <2>0, <3>1 DEF Task, DocTypeOK
    <3>3. CopyShape([doc |-> c.doc, text |-> c.text, pending |-> c.pending, dirty |-> c.dirty, task |-> task])
      BY <2>0, <2>4, <3>1 DEF CopyShape, LockDocumentAndReadSeq, Task_, NoTask, Task
    <3>4. Turn(i, task)
      BY <2>0, <2>4, <3>1 DEF LockDocumentAndReadSeq, Task_, Task
    <3> QED
      BY <2>3, <3>2, <3>3, <3>4
  <2>5. CASE WriteBatch(i)
    <3>1. k.kind \in {"flush", "store", "sync"} /\ Turn(i, AfterFlush(k))
      BY <2>0, <2>5 DEF WriteBatch, Task_, CopyShape
    <3>2. CopyShape([doc |-> c.doc, text |-> c.text, pending |-> c.pending, dirty |-> c.dirty, task |-> AfterFlush(k)])
      <4>1. /\ AfterFlush(k).batch = {}
            /\ \/ AfterFlush(k) = NoTask
               \/ k.kind = "store" /\ AfterFlush(k).kind = "store" /\ AfterFlush(k).pc = "encode"
               \/ k.kind = "sync" /\ AfterFlush(k).kind = "sync" /\ AfterFlush(k).pc = "read state"
        BY <2>0, <3>1, FlushTypes
      <4>2. c.doc # "loading" /\ (c.doc = "closed" => c.text = {}) /\ (k.kind = "store" => c.doc = "open")
        BY <2>0, <3>1 DEF CopyShape
      <4>3. CASE AfterFlush(k) = NoTask
        <5>1. CopyShape([doc |-> c.doc, text |-> c.text, pending |-> c.pending, dirty |-> c.dirty, task |-> NoTask])
          BY <4>2 DEF CopyShape, NoTask
        <5> QED
          BY <4>3, <5>1
      <4>4. CASE AfterFlush(k) # NoTask
        BY <4>1, <4>2, <4>4 DEF CopyShape
      <4> QED
        BY <4>3, <4>4
    <3> QED
      BY <2>0, <2>3, <3>1, <3>2, FlushTypes
  <2>6. CASE EncodeState(i)
    <3>1. PICK task : task = [k EXCEPT !.pc = "lock state", !.text = c.text]
      OBVIOUS
    <3>2. task \in Task
      BY <2>0, <3>1 DEF Task
    <3>3. CopyShape([doc |-> c.doc, text |-> c.text, pending |-> c.pending, dirty |-> c.dirty, task |-> task])
      BY <2>0, <2>6, <3>1 DEF CopyShape, EncodeState, Task_, NoTask, Task
    <3>4. Turn(i, task)
      BY <2>6, <3>1 DEF EncodeState, Task_
    <3> QED
      BY <2>3, <3>2, <3>3, <3>4
  <2>7. CASE ReadState(i)
    <3>1. PICK task : task = [k EXCEPT !.pc = "read batches", !.text = state.text, !.at = state.until]
      OBVIOUS
    <3>2. task \in Task
      BY <1>0, <2>0, <3>1 DEF Task, DocTypeOK
    <3>3. CopyShape([doc |-> c.doc, text |-> c.text, pending |-> c.pending, dirty |-> c.dirty, task |-> task])
      BY <2>0, <2>7, <3>1 DEF CopyShape, ReadState, Task_, NoTask, Task
    <3>4. Turn(i, task)
      BY <2>7, <3>1 DEF ReadState, Task_
    <3> QED
      BY <2>3, <3>2, <3>3, <3>4
  <2>8. CASE ReadBatches(i)
    <3> DEFINE read == k.text \cup UNION {b.text : b \in {x \in batches : x.to > k.at}}
    <3>1. k.pc = "read batches" /\ read \in Texts
      <4>1. \A b \in batches : b.text \in Texts
        BY <1>0 DEF DocTypeOK, Batch, Texts
      <4>2. k.pc = "read batches"
        BY <2>8 DEF ReadBatches, Task_
      <4> QED
        BY <2>0, <4>1, <4>2 DEF Texts
    <3>2. CASE k.kind = "load"
      <4>1. Sets(i, "open", c.text \cup read, c.pending, c.dirty, NoTask)
        BY <1>0, <2>8, <3>1, <3>2, CopyAfter
      <4> HIDE DEF read
      <4>2. CopyShape([doc |-> "open", text |-> c.text \cup read, pending |-> c.pending, dirty |-> c.dirty, task |-> NoTask])
        BY DEF CopyShape, NoTask
      <4>3. (c.text \cup read) \in Texts /\ NoTask \in Task
        BY <2>0, <3>1 DEF Texts, Task, NoTask
      <4> QED
        BY <2>0, <4>1, <4>2, <4>3, ShapeAfter
    <3>3. CASE k.kind # "load"
      <4>1. PICK task : task = [k EXCEPT !.pc = "write source", !.text = read]
        OBVIOUS
      <4>2. Turn(i, task)
        BY <2>8, <3>3, <4>1 DEF ReadBatches, Task_
      <4> HIDE DEF read
      <4>3. task \in Task
        BY <2>0, <3>1, <4>1 DEF Task
      <4>4. CopyShape([doc |-> c.doc, text |-> c.text, pending |-> c.pending, dirty |-> c.dirty, task |-> task])
        BY <2>0, <3>1, <3>3, <4>1 DEF CopyShape, NoTask, Task
      <4> QED
        BY <2>3, <4>2, <4>3, <4>4
    <3> QED
      BY <3>2, <3>3
  <2>9. CASE WriteState(i) \/ WriteSource(i)
    <3>1. Turn(i, NoTask) /\ k.kind # "load"
      BY <2>0, <2>9 DEF WriteState, WriteSource, Task_, CopyShape
    <3>2. CopyShape([doc |-> c.doc, text |-> c.text, pending |-> c.pending, dirty |-> c.dirty, task |-> NoTask])
          /\ NoTask \in Task
      BY <2>0, <3>1 DEF CopyShape, NoTask, Task, Texts
    <3> QED
      BY <2>3, <3>1, <3>2
  <2>10. ASSUME NEW e \in Edits, OnChange(i, e) PROVE Goal
    <3>1. Sets(i, c.doc, c.text \cup {e}, c.pending \cup {e}, TRUE, k)
      BY <1>0, <2>10, CopyAfter
    <3>2. (c.text \cup {e}) \in Texts /\ (c.pending \cup {e}) \in SUBSET Edits
      BY <2>0 DEF Texts
    <3>3. CopyShape([doc |-> c.doc, text |-> c.text \cup {e}, pending |-> c.pending \cup {e}, dirty |-> TRUE, task |-> k])
      BY <2>0, <2>10 DEF CopyShape, OnChange
    <3> QED
      BY <2>0, <3>1, <3>2, <3>3, ShapeAfter
  <2>11. ASSUME NEW e \in Edits, HandleMessage(i, e) PROVE Goal
    <3>1. CASE UNCHANGED inst
      BY <1>1, <3>1
    <3>2. ASSUME c.doc # "closed", NEW y \in BOOLEAN, Sets(i, c.doc, c.text \cup {e}, c.pending, y, k) PROVE Goal
      <4>1. (c.text \cup {e}) \in Texts
        BY <2>0 DEF Texts
      <4>2. CopyShape([doc |-> c.doc, text |-> c.text \cup {e}, pending |-> c.pending, dirty |-> y, task |-> k])
        BY <2>0, <3>2 DEF CopyShape
      <4> QED
        BY <2>0, <3>2, <4>1, <4>2, ShapeAfter
    <3> QED
      BY <1>0, <2>11, <3>1, <3>2, CopyAfter
  <2>12. CASE Unload(i)
    <3>1. k = NoTask
      BY <2>12 DEF Unload, Task_
    <3>2. Sets(i, "closed", {}, c.pending, c.dirty, NoTask)
      BY <1>0, <2>12, <3>1, CopyAfter
    <3>3. CopyShape([doc |-> "closed", text |-> {}, pending |-> c.pending, dirty |-> c.dirty, task |-> NoTask])
      BY DEF CopyShape, NoTask
    <3>4. {} \in Texts /\ NoTask \in Task
      BY DEF Texts, Task, NoTask
    <3> QED
      BY <2>0, <3>2, <3>3, <3>4, ShapeAfter
  <2>13. ASSUME NEW kept \in SUBSET Edits, TaskEnds(i, kept) PROVE Goal
    <3> DEFINE d == IF k.kind = "load" THEN "closed" ELSE c.doc  t == IF k.kind = "load" THEN {} ELSE c.text
               p == c.pending \cup kept  y == c.dirty \/ k.kind = "store"
    <3>1. Sets(i, d, t, p, y, NoTask)
      BY <1>0, <2>13, CopyAfter
    <3>2. d \in {"closed", "loading", "open"} /\ t \in Texts /\ p \in SUBSET Edits /\ y \in BOOLEAN /\ NoTask \in Task
          /\ d # "loading" /\ (d = "closed" => t = {})
      BY <2>0 DEF Texts, Task, NoTask, CopyShape
    <3> HIDE DEF d, t, p, y
    <3>3. CopyShape([doc |-> d, text |-> t, pending |-> p, dirty |-> y, task |-> NoTask])
      BY <3>2 DEF CopyShape, NoTask
    <3> QED
      BY <3>1, <3>2, <3>3, ShapeAfter
  <2>14. CASE CrashInstance(i)
    <3>1. inst' = [inst EXCEPT ![i] = ClosedDoc]
      BY <2>14 DEF CrashInstance
    <3>2. ClosedDoc \in Copy /\ CopyShape(ClosedDoc)
      BY DEF ClosedDoc, Copy, Task, NoTask, Texts, CopyShape
    <3> QED
      BY <1>0, <3>1, <3>2
  <2>15. CASE FlushTimer(i) \/ OnStoreDocument(i) \/ SyncProjectSourceContent(i)
    BY <2>1, <2>15 DEF FlushTimer, OnStoreDocument, SyncProjectSourceContent
  <2>16. CASE StatementFails(i) \/ ConnectionFails(i)
    BY <2>0, <2>13, <2>16 DEF StatementFails, ConnectionFails, Task_
  <2> HIDE DEF Goal
  <2> QED
    BY <1>2, <2>2, <2>4, <2>5, <2>6, <2>7, <2>8, <2>9, <2>10, <2>11, <2>12, <2>14, <2>15, <2>16
    DEF InstanceStep, TaskStep
<1> QED
  BY <1>1, <1>2 DEF DocNext, Initialize, ReadInitialized, InsertInitialState, docVars

(* The updates of a batch can be counted, and there is one at least. *)
LEMMA BatchCounts ==
  ASSUME NEW S \in SUBSET Edits
  PROVE  Cardinality(S) \in Nat /\ (S # {} => Cardinality(S) \in Nat \ {0})
<1>1. IsFiniteSet(S)
  BY DocAssumption, FS_Subset
<1>2. Cardinality(S) \in Nat /\ (Cardinality(S) = 0 <=> S = {})
  BY <1>1, FS_CardinalityType, FS_EmptySet
<1> QED
  BY <1>2

(* What a step of an instance writes besides its copy. *)
LEMMA StepFrame ==
  ASSUME NEW i \in Instances, InstanceStep(i)
  PROVE  /\ call' = call
         /\ seq' = seq \/ WriteBatch(i)
         /\ batches' = batches \/ WriteBatch(i) \/ WriteState(i)
         /\ state' = state \/ WriteState(i)
         /\ source' = source \/ WriteSource(i)
         /\ lock' \in {lock, i, Nobody}
         /\ \/ inbox' = inbox
            \/ \E e \in Edits : OnChange(i, e) \/ HandleMessage(i, e)
            \/ CrashInstance(i)
         /\ docFaults' = docFaults \/ (docFaults < MaxDocFaults /\ docFaults' = docFaults + 1)
         /\ syncs' = syncs \/ (syncs < MaxSyncs /\ syncs' = syncs + 1)
         /\ made' = made \/ \E e \in Edits : made' = made \cup {e}
         /\ users' = users \/ users' = users \cup {i}
         /\ disturbed' = disturbed \/ disturbed' = TRUE
<1> USE DEF InstanceStep, TaskStep, FlushTimer, OnStoreDocument, SyncProjectSourceContent, BeginSync,
   BeginTask, OnLoadDocument, LockDocumentAndReadSeq, WriteBatch, EncodeState, WriteState, ReadState,
   ReadBatches, WriteSource, OnChange, HandleMessage, Unload, StatementFails, ConnectionFails, TaskEnds,
   CrashInstance, DocFault, Works, Unlocked, history
<1>1. call' = call
  OBVIOUS
<1>2. seq' = seq \/ WriteBatch(i)
  OBVIOUS
<1>3. batches' = batches \/ WriteBatch(i) \/ WriteState(i)
  OBVIOUS
<1>4. state' = state \/ WriteState(i)
  OBVIOUS
<1>5. source' = source \/ WriteSource(i)
  OBVIOUS
<1>6. lock' \in {lock, i, Nobody}
  OBVIOUS
<1>7. \/ inbox' = inbox
      \/ \E e \in Edits : OnChange(i, e) \/ HandleMessage(i, e)
      \/ CrashInstance(i)
  OBVIOUS
<1>8. docFaults' = docFaults \/ (docFaults < MaxDocFaults /\ docFaults' = docFaults + 1)
  OBVIOUS
<1>9. syncs' = syncs \/ (syncs < MaxSyncs /\ syncs' = syncs + 1)
  OBVIOUS
<1>10. made' = made \/ \E e \in Edits : made' = made \cup {e}
  OBVIOUS
<1>11. users' = users \/ users' = users \cup {i}
  OBVIOUS
<1>12. disturbed' = disturbed \/ disturbed' = TRUE
  OBVIOUS
<1> HIDE DEF InstanceStep, TaskStep, FlushTimer, OnStoreDocument, SyncProjectSourceContent, BeginSync,
   BeginTask, OnLoadDocument, LockDocumentAndReadSeq, WriteBatch, EncodeState, WriteState, ReadState,
   ReadBatches, WriteSource, OnChange, HandleMessage, Unload, StatementFails, ConnectionFails, TaskEnds,
   CrashInstance, DocFault, Works, Unlocked, history
<1> QED
  BY <1>1, <1>2, <1>3, <1>4, <1>5, <1>6, <1>7, <1>8, <1>9, <1>10, <1>11, <1>12

(* The rest of the state keeps its type. *)
LEMMA RestTyped ==
  ASSUME DocShape, [DocNext]_docVars
  PROVE  /\ seq' \in Nat /\ lock' \in Instances \cup {Nobody} /\ (\A b \in batches' : b \in Batch)
         /\ state' \in [made : BOOLEAN, text : Texts, until : Nat] /\ source' \in Texts
         /\ inbox' \in [Instances -> SUBSET Edits] /\ call' \in [Initializers -> {"idle", "insert", "done"}]
         /\ docFaults' \in 0..MaxDocFaults /\ syncs' \in 0..MaxSyncs
         /\ made' \subseteq Edits /\ users' \subseteq Instances /\ disturbed' \in BOOLEAN
<1>0. /\ seq \in Nat /\ lock \in Instances \cup {Nobody} /\ (\A b \in batches : b \in Batch)
      /\ state \in [made : BOOLEAN, text : Texts, until : Nat] /\ source \in Texts
      /\ inbox \in [Instances -> SUBSET Edits] /\ call \in [Initializers -> {"idle", "insert", "done"}]
      /\ docFaults \in 0..MaxDocFaults /\ syncs \in 0..MaxSyncs
      /\ made \subseteq Edits /\ users \subseteq Instances /\ disturbed \in BOOLEAN
  BY DEF DocShape, DocTypeOK
<1>1. CASE UNCHANGED docVars
  BY <1>0, <1>1 DEF docVars
<1>2. ASSUME NEW c \in Initializers, Initialize(c) PROVE state' \in [made : BOOLEAN, text : Texts, until : Nat]
  <2> DEFINE seeded == [made |-> TRUE, text |-> {c}, until |-> 0]
  <2>1. seeded \in [made : BOOLEAN, text : Texts, until : Nat]
    BY DEF Texts, Seeds
  <2>2. state' = state \/ state' = seeded
    BY <1>2 DEF Initialize, ReadInitialized, InsertInitialState
  <2> HIDE DEF seeded
  <2> QED
    BY <1>0, <2>1, <2>2
<1>3. ASSUME NEW c \in Initializers, Initialize(c) PROVE call' \in [Initializers -> {"idle", "insert", "done"}]
  BY <1>0, <1>3 DEF Initialize, ReadInitialized, InsertInitialState
<1>4. ASSUME NEW c \in Initializers, Initialize(c)
      PROVE  UNCHANGED <<seq, lock, batches, source, inbox, docFaults, syncs, made, users, disturbed>>
  BY <1>4 DEF Initialize, ReadInitialized, InsertInitialState, history
<1>5. ASSUME NEW c \in Initializers, Initialize(c)
      PROVE  /\ seq' \in Nat /\ lock' \in Instances \cup {Nobody} /\ (\A b \in batches' : b \in Batch)
             /\ source' \in Texts
             /\ inbox' \in [Instances -> SUBSET Edits]
             /\ docFaults' \in 0..MaxDocFaults /\ syncs' \in 0..MaxSyncs
             /\ made' \subseteq Edits /\ users' \subseteq Instances /\ disturbed' \in BOOLEAN
  BY <1>0, <1>4, <1>5
<1>6. ASSUME NEW i \in Instances, InstanceStep(i)
      PROVE  /\ seq' \in Nat /\ lock' \in Instances \cup {Nobody} /\ (\A b \in batches' : b \in Batch)
             /\ state' \in [made : BOOLEAN, text : Texts, until : Nat] /\ source' \in Texts
             /\ inbox' \in [Instances -> SUBSET Edits] /\ call' \in [Initializers -> {"idle", "insert", "done"}]
             /\ docFaults' \in 0..MaxDocFaults /\ syncs' \in 0..MaxSyncs
             /\ made' \subseteq Edits /\ users' \subseteq Instances /\ disturbed' \in BOOLEAN
  <2> DEFINE k == inst[i].task
  <2>0. k \in Task /\ CopyShape(inst[i]) /\ k.at \in Nat /\ k.text \in Texts /\ k.batch \in SUBSET Edits
    BY DEF DocShape, DocTypeOK, Copy, Task
  <2>1. /\ call' = call
        /\ seq' = seq \/ WriteBatch(i)
        /\ batches' = batches \/ WriteBatch(i) \/ WriteState(i)
        /\ state' = state \/ WriteState(i)
        /\ source' = source \/ WriteSource(i)
        /\ lock' \in {lock, i, Nobody}
        /\ \/ inbox' = inbox
           \/ \E e \in Edits : OnChange(i, e) \/ HandleMessage(i, e)
           \/ CrashInstance(i)
        /\ docFaults' = docFaults \/ (docFaults < MaxDocFaults /\ docFaults' = docFaults + 1)
        /\ syncs' = syncs \/ (syncs < MaxSyncs /\ syncs' = syncs + 1)
        /\ made' = made \/ \E e \in Edits : made' = made \cup {e}
        /\ users' = users \/ users' = users \cup {i}
        /\ disturbed' = disturbed \/ disturbed' = TRUE
    BY <1>6, StepFrame
  <2>2. seq' \in Nat
    <3>1. Cardinality(k.batch) \in Nat
      BY <2>0, BatchCounts
    <3>2. WriteBatch(i) => seq' = k.at + Cardinality(k.batch)
      BY DEF WriteBatch, Task_
    <3> QED
      BY <1>0, <2>0, <2>1, <3>1, <3>2
  <2>3. ASSUME WriteBatch(i) PROVE \A b \in batches' : b \in Batch
    <3>1. Cardinality(k.batch) \in Nat
      BY <2>0, BatchCounts
    <3> QED
      <4> DEFINE new == [from |-> k.at + 1, to |-> k.at + Cardinality(k.batch), text |-> k.batch]
      <4>1. new \in Batch
        BY <2>0, <3>1 DEF Batch
      <4> HIDE DEF new
      <4>2. batches' = batches \cup {new}
        BY <2>3 DEF WriteBatch, Task_, new
      <4> QED
        BY <1>0, <4>1, <4>2
  <2>4. \A b \in batches' : b \in Batch
    <3>1. WriteState(i) => \A b \in batches' : b \in batches
      BY DEF WriteState
    <3> QED
      BY <1>0, <2>1, <2>3, <3>1
  <2>5. state' \in [made : BOOLEAN, text : Texts, until : Nat] /\ source' \in Texts
    <3>1. WriteState(i) => state' \in [made : BOOLEAN, text : Texts, until : Nat]
      <4> DEFINE stored == [made |-> TRUE, text |-> k.text, until |-> k.at]
      <4>1. stored \in [made : BOOLEAN, text : Texts, until : Nat]
        BY <2>0
      <4>2. WriteState(i) => state' = stored
        BY DEF WriteState, Task_
      <4> HIDE DEF stored
      <4> QED
        BY <4>1, <4>2
    <3>2. WriteSource(i) => source' \in Texts
      BY <2>0 DEF WriteSource, Task_
    <3> QED
      BY <1>0, <2>1, <3>1, <3>2
  <2>6. inbox' \in [Instances -> SUBSET Edits]
    <3>1. ASSUME NEW e \in Edits, OnChange(i, e) PROVE inbox' \in [Instances -> SUBSET Edits]
      BY <1>0, <3>1 DEF OnChange
    <3>2. ASSUME NEW e \in Edits, HandleMessage(i, e) PROVE inbox' \in [Instances -> SUBSET Edits]
      BY <1>0, <3>2 DEF HandleMessage
    <3>3. CrashInstance(i) => inbox' \in [Instances -> SUBSET Edits]
      BY <1>0 DEF CrashInstance
    <3> QED
      BY <1>0, <2>1, <3>1, <3>2, <3>3
  <2>7. docFaults' \in 0..MaxDocFaults /\ syncs' \in 0..MaxSyncs
    BY <1>0, <2>1, DocAssumption
  <2> QED
    BY <1>0, <2>1, <2>2, <2>4, <2>5, <2>6, <2>7
<1> QED
  BY <1>0, <1>1, <1>2, <1>3, <1>5, <1>6 DEF DocNext

(* Types and shapes, from the first state on. *)
LEMMA ShapeInit == DocInit => DocShape
<1> SUFFICES ASSUME DocInit PROVE DocShape
  OBVIOUS
<1>1. ClosedDoc \in Copy /\ CopyShape(ClosedDoc)
  BY DEF ClosedDoc, Copy, Task, NoTask, Texts, CopyShape
<1>2. \A i \in Instances : inst[i] = ClosedDoc
  BY DEF DocInit
<1>3. DocTypeOK
  <2>1. inst \in [Instances -> Copy]
    BY <1>1 DEF DocInit
  <2>2. state \in [made : BOOLEAN, text : Texts, until : Nat] /\ source \in Texts
    BY DEF DocInit, Texts
  <2>3. inbox \in [Instances -> SUBSET Edits] /\ call \in [Initializers -> {"idle", "insert", "done"}]
    BY DEF DocInit
  <2>4. docFaults \in 0..MaxDocFaults /\ syncs \in 0..MaxSyncs
    BY DocAssumption DEF DocInit
  <2>5. /\ seq \in Nat /\ lock \in Instances \cup {Nobody} /\ batches = {}
        /\ made \subseteq Edits /\ users \subseteq Instances /\ disturbed \in BOOLEAN
    BY DEF DocInit
  <2> QED
    BY <2>1, <2>2, <2>3, <2>4, <2>5 DEF DocTypeOK
<1> QED
  BY <1>1, <1>2, <1>3 DEF DocShape

(* Every step keeps the shape of the rows and of the copies. *)
LEMMA ShapeStep == DocShape /\ [DocNext]_docVars => DocShape'
BY ShapesKept, RestTyped DEF DocShape, DocTypeOK

(* A step of an instance leaves the copies of the others alone. *)
LEMMA OthersKept ==
  ASSUME DocTypeOK, NEW i \in Instances, InstanceStep(i)
  PROVE  \A j \in Instances \ {i} : inst'[j] = inst[j]
<1>0. inst \in [Instances -> Copy]
  BY DEF DocTypeOK
<1> QED
  BY <1>0 DEF InstanceStep, TaskStep, FlushTimer, OnStoreDocument, SyncProjectSourceContent, BeginTask,
     OnLoadDocument, LockDocumentAndReadSeq, WriteBatch, EncodeState, WriteState, ReadState, ReadBatches,
     WriteSource, OnChange, HandleMessage, Unload, StatementFails, ConnectionFails, TaskEnds, CrashInstance, Turn

(* The task that a step leaves to its instance. *)
LEMMA TaskAfter ==
  ASSUME DocTypeOK, NEW i \in Instances
  PROVE  /\ \A kind : BeginTask(i, kind) =>
               inst'[i].task = WithFlush(i, [NoTask EXCEPT !.kind = kind, !.seen = made])
         /\ \A task : Turn(i, task) => inst'[i].task = task
         /\ \A e : OnChange(i, e) \/ HandleMessage(i, e) => inst'[i].task = inst[i].task
         /\ Unload(i) => inst'[i].task = inst[i].task
         /\ \A kept : TaskEnds(i, kept) => inst'[i].task = NoTask
<1>1. ASSUME NEW d, NEW t, NEW p, NEW y, NEW k, Sets(i, d, t, p, y, k) PROVE inst'[i].task = k
  BY <1>1 DEF Sets
<1>2. ASSUME NEW kind, BeginTask(i, kind)
      PROVE  inst'[i].task = WithFlush(i, [NoTask EXCEPT !.kind = kind, !.seen = made])
  BY <1>1, <1>2, CopyAfter
<1>3. ASSUME NEW task, Turn(i, task) PROVE inst'[i].task = task
  BY <1>1, <1>3, CopyAfter
<1>4. ASSUME NEW e, OnChange(i, e) PROVE inst'[i].task = inst[i].task
  <2>1. Sets(i, inst[i].doc, inst[i].text \cup {e}, inst[i].pending \cup {e}, TRUE, inst[i].task)
    BY <1>4, CopyAfter
  <2> QED
    BY <1>1, <2>1
<1>5. ASSUME NEW e, HandleMessage(i, e) PROVE inst'[i].task = inst[i].task
  <2>1. \/ UNCHANGED inst
        \/ \E y \in BOOLEAN : Sets(i, inst[i].doc, inst[i].text \cup {e}, inst[i].pending, y, inst[i].task)
    BY <1>5, CopyAfter
  <2> QED
    BY <1>1, <2>1
<1>6. Unload(i) => inst'[i].task = inst[i].task
  BY <1>1, CopyAfter
<1>7. ASSUME NEW kept, TaskEnds(i, kept) PROVE inst'[i].task = NoTask
  BY <1>1, <1>7, CopyAfter
<1> QED
  BY <1>2, <1>3, <1>4, <1>5, <1>6, <1>7

(* A task comes to a write only by locking the row. *)
LEMMA WritesAreLocked ==
  ASSUME DocShape, NEW i \in Instances, InstanceStep(i), inst'[i].task.pc \in {"write batch", "write state"}
  PROVE  LockDocumentAndReadSeq(i) \/ (inst'[i].task = inst[i].task /\ lock' = lock)
<1> DEFINE k == inst[i].task
           Goal == inst'[i].task.pc \in {"write batch", "write state"}
                      => LockDocumentAndReadSeq(i) \/ (inst'[i].task = inst[i].task /\ lock' = lock)
<1>0. DocTypeOK /\ inst \in [Instances -> Copy] /\ inst[i] \in Copy /\ k \in Task /\ CopyShape(inst[i])
      /\ NoTask.pc = "none"
  BY DEF DocShape, DocTypeOK, Copy, NoTask
<1>1. ASSUME NEW kind \in {"flush", "store", "sync"}, BeginTask(i, kind) PROVE Goal
  <2> DEFINE task == WithFlush(i, [NoTask EXCEPT !.kind = kind, !.seen = made])
  <2>1. inst'[i].task = task
    BY <1>0, <1>1, TaskAfter
  <2>2. task = NoTask \/ task.pc = "lock batch" \/ task.pc = "encode" \/ task.pc = "read state"
    BY BegunTypes DEF DocShape
  <2> HIDE DEF task
  <2> QED
    BY <1>0, <2>1, <2>2
<1>2. CASE WriteBatch(i)
  <2>1. k.kind \in {"flush", "store", "sync"} /\ Turn(i, AfterFlush(k))
    BY <1>0, <1>2 DEF WriteBatch, Task_, CopyShape
  <2>2. AfterFlush(k) = NoTask \/ AfterFlush(k).pc = "encode" \/ AfterFlush(k).pc = "read state"
    BY <1>0, <2>1, FlushTypes
  <2>3. inst'[i].task = AfterFlush(k)
    BY <1>0, <2>1, TaskAfter
  <2> QED
    BY <1>0, <2>2, <2>3
<1>3. CASE OnLoadDocument(i)
  BY <1>0, <1>3 DEF OnLoadDocument, NoTask, Copy
<1>4. CASE EncodeState(i)
  BY <1>0, <1>4 DEF EncodeState, Turn, Copy, Task, Task_
<1>5. CASE ReadState(i)
  BY <1>0, <1>5 DEF ReadState, Turn, Copy, Task, Task_
<1>6. CASE ReadBatches(i)
  <2>1. inst'[i].task = NoTask \/ inst'[i].task.pc = "write source"
    <3>1. CASE k.kind = "load"
      BY <1>0, <1>6, <3>1 DEF ReadBatches, Copy, Task_
    <3>2. CASE k.kind # "load"
      <4>1. PICK read : Turn(i, [k EXCEPT !.pc = "write source", !.text = read])
        BY <1>6, <3>2 DEF ReadBatches, Task_
      <4>2. inst'[i].task = [k EXCEPT !.pc = "write source", !.text = read]
        BY <1>0, <4>1, TaskAfter
      <4> QED
        BY <1>0, <4>2 DEF Task
    <3> QED
      BY <3>1, <3>2
  <2> QED
    BY <1>0, <2>1
<1>7. CASE WriteState(i) \/ WriteSource(i)
  BY <1>0, <1>7 DEF WriteState, WriteSource, Turn, Copy
<1>8. CASE \E e \in Edits : OnChange(i, e) \/ HandleMessage(i, e)
  <2>1. inst'[i].task = k
    BY <1>0, <1>8, TaskAfter
  <2> QED
    BY <1>8, <2>1 DEF OnChange, HandleMessage
<1>9. CASE Unload(i)
  <2>1. inst'[i].task = k
    BY <1>0, <1>9, TaskAfter
  <2> QED
    BY <1>9, <2>1 DEF Unload
<1>10. CASE StatementFails(i) \/ ConnectionFails(i)
  <2>1. PICK kept : TaskEnds(i, kept)
    BY <1>10 DEF StatementFails, ConnectionFails
  <2>2. inst'[i].task = NoTask
    BY <1>0, <2>1, TaskAfter
  <2> QED
    BY <1>0, <2>2
<1>11. CASE CrashInstance(i)
  BY <1>0, <1>11 DEF CrashInstance, ClosedDoc
<1> QED
  BY <1>1, <1>2, <1>3, <1>4, <1>5, <1>6, <1>7, <1>8, <1>9, <1>10, <1>11
  DEF InstanceStep, TaskStep, FlushTimer, OnStoreDocument, SyncProjectSourceContent

\* Who writes a number to the document's row holds it, and the number is the one it read.
RowHeld ==
    \A i \in Instances :
        inst[i].task.pc \in {"write batch", "write state"} => lock = i /\ inst[i].task.at = seq

\* Every number that is not compacted has its batch, and no other.
Tiled ==
    /\ state.until <= seq
    /\ \A n \in (state.until + 1)..seq : \E b \in batches : {x \in batches : x.from <= n /\ n <= x.to} = {b}
    /\ \A b \in batches : b.to <= seq /\ b.to - b.from + 1 = Cardinality(b.text)

LogInv == RowHeld /\ Tiled /\ (~state.made => state.until = 0)

(* Batches that tile the log hold every update after the state once. *)
LEMMA TiledOnce == Tiled => LogTiled
<1> SUFFICES ASSUME Tiled, NEW n \in (state.until + 1)..seq
             PROVE  Cardinality({b \in batches : b.from <= n /\ n <= b.to}) = 1
  BY DEF Tiled, LogTiled
<1>1. PICK b \in batches : {x \in batches : x.from <= n /\ n <= x.to} = {b}
  BY DEF Tiled
<1> QED
  BY <1>1, FS_Singleton

(* Every step keeps the log tiled. *)
LEMMA LogStep ==
  ASSUME DocShape, LogInv, [DocNext]_docVars
  PROVE  LogInv'
<1>0. /\ inst \in [Instances -> Copy] /\ seq \in Nat /\ state \in [made : BOOLEAN, text : Texts, until : Nat]
      /\ Nobody \notin Instances /\ (\A b \in batches : b \in Batch)
  BY DocAssumption DEF DocShape, DocTypeOK
<1>1. RowHeld'
  <2>1. CASE UNCHANGED <<inst, lock, seq>>
    BY <2>1 DEF LogInv, RowHeld
  <2>2. ASSUME NEW i \in Instances, InstanceStep(i), NEW j \in Instances,
               inst'[j].task.pc \in {"write batch", "write state"}
        PROVE  lock' = j /\ inst'[j].task.at = seq'
    <3>1. CASE j = i
      <4>1. CASE LockDocumentAndReadSeq(i)
        BY <1>0, <3>1, <4>1 DEF LockDocumentAndReadSeq, Turn, Copy, Task, Task_
      <4>2. CASE inst'[i].task = inst[i].task /\ lock' = lock
        <5>1. lock = i /\ inst[i].task.at = seq
          BY <2>2, <3>1, <4>2 DEF LogInv, RowHeld
        <5>2. ~WriteBatch(i)
          BY <4>2, <5>1, <1>0 DEF WriteBatch, Unlocked
        <5>3. seq' = seq
          BY <2>2, <5>2, StepFrame
        <5> QED
          BY <3>1, <4>2, <5>1, <5>3
      <4> QED
        BY <2>2, <3>1, <4>1, <4>2, WritesAreLocked
    <3>2. CASE j # i
      <4>1. inst'[j] = inst[j]
        BY <2>2, <3>2, OthersKept DEF DocShape
      <4>2. lock = j /\ inst[j].task.at = seq
        BY <2>2, <4>1 DEF LogInv, RowHeld
      <4>3. ~WriteBatch(i)
        BY <3>2, <4>2 DEF WriteBatch, Task_, LogInv, RowHeld
      <4>4. seq' = seq
        BY <2>2, <4>3, StepFrame
      <4>5. lock' = lock
        BY <1>0, <2>2, <3>2, <4>2 DEF InstanceStep, TaskStep, FlushTimer, OnStoreDocument, SyncProjectSourceContent, BeginTask,
           OnLoadDocument, LockDocumentAndReadSeq, WriteBatch, EncodeState, WriteState, ReadState, ReadBatches,
           WriteSource, OnChange, HandleMessage, Unload, StatementFails, ConnectionFails, TaskEnds, CrashInstance, Unlocked
      <4> QED
        BY <4>1, <4>2, <4>4, <4>5
    <3> QED
      BY <3>1, <3>2
  <2> QED
    BY <2>1, <2>2 DEF RowHeld, DocNext, docVars, Initialize, ReadInitialized, InsertInitialState
<1>2. Tiled'
  <2>1. CASE UNCHANGED <<batches, seq>> /\ state'.until = state.until
    BY <2>1 DEF LogInv, Tiled
  <2>2. ASSUME NEW i \in Instances, WriteBatch(i) PROVE Tiled'
    <3> DEFINE k == inst[i].task  card == Cardinality(k.batch)
               new == [from |-> seq + 1, to |-> seq + card, text |-> k.batch]
    <3>1. k \in Task /\ k.batch \in SUBSET Edits /\ k.batch # {} /\ k.pc = "write batch" /\ k.at = seq
      BY <2>2 DEF WriteBatch, Task_, DocShape, DocTypeOK, CopyShape, Copy, Task, LogInv, RowHeld
    <3>2. card \in Nat \ {0}
      BY <3>1, BatchCounts
    <3>3. batches' = batches \cup {new} /\ seq' = seq + card /\ state' = state
      BY <2>2, <3>1 DEF WriteBatch, Task_
    <3>4. new.from = seq + 1 /\ new.to = seq + card /\ new.text = k.batch /\ card = Cardinality(k.batch)
      OBVIOUS
    <3> HIDE DEF card, new
    <3>5. \A b \in batches : b.to <= seq /\ b.from \in Nat /\ b.to \in Nat /\ b.to - b.from + 1 = Cardinality(b.text)
      BY <1>0 DEF LogInv, Tiled, Batch
    <3>6. state.until <= seq /\ state.until \in Nat
      BY <1>0 DEF LogInv, Tiled
    <3>7. ASSUME NEW n \in (state.until + 1)..(seq + card)
          PROVE  \E b \in batches' : {x \in batches' : x.from <= n /\ n <= x.to} = {b}
      <4>1. CASE n <= seq
        <5>1. PICK b \in batches : {x \in batches : x.from <= n /\ n <= x.to} = {b}
          BY <1>0, <3>6, <4>1 DEF LogInv, Tiled
        <5>2. ~(new.from <= n)
          BY <1>0, <3>4, <3>6, <4>1
        <5>3. {x \in batches' : x.from <= n /\ n <= x.to} = {x \in batches : x.from <= n /\ n <= x.to}
          BY <3>3, <5>2
        <5> QED
          BY <3>3, <5>1, <5>3
      <4>2. CASE n > seq
        <5>1. \A x \in batches : ~(n <= x.to)
          BY <1>0, <3>5, <3>6, <4>2
        <5>2. new.from <= n /\ n <= new.to
          BY <1>0, <3>2, <3>4, <3>6, <4>2
        <5>3. {x \in batches' : x.from <= n /\ n <= x.to} = {new}
          BY <3>3, <5>1, <5>2
        <5> QED
          BY <3>3, <5>3
      <4> QED
        BY <1>0, <3>6, <4>1, <4>2
    <3>8. ASSUME NEW b \in batches' PROVE b.to <= seq + card /\ b.to - b.from + 1 = Cardinality(b.text)
      <4>1. CASE b = new
        BY <1>0, <3>2, <3>4, <4>1
      <4>2. CASE b # new
        BY <1>0, <3>2, <3>3, <3>5, <4>2
      <4> QED
        BY <4>1, <4>2
    <3>9. state.until <= seq + card
      BY <1>0, <3>2, <3>6
    <3> QED
      BY <3>3, <3>7, <3>8, <3>9 DEF Tiled
  <2>3. ASSUME NEW i \in Instances, WriteState(i) PROVE Tiled'
    <3>1. inst[i].task.at = seq
      BY <2>3 DEF WriteState, Task_, LogInv, RowHeld
    <3>2. state'.until = seq /\ seq' = seq /\ \A b \in batches' : b \in batches
      BY <2>3, <3>1 DEF WriteState, Task_
    <3>3. \A n \in (state'.until + 1)..seq' : FALSE
      BY <1>0, <3>2
    <3> QED
      BY <1>0, <3>2, <3>3 DEF LogInv, Tiled
  <2>4. ASSUME NEW c \in Initializers, Initialize(c) PROVE UNCHANGED <<batches, seq>> /\ state'.until = state.until
    BY <2>4 DEF Initialize, ReadInitialized, InsertInitialState, LogInv
  <2>5. ASSUME NEW i \in Instances, InstanceStep(i) PROVE Tiled'
    BY <2>1, <2>2, <2>3, <2>5, StepFrame
  <2> QED
    BY <2>1, <2>4, <2>5 DEF DocNext, docVars
<1>3. ~state'.made => state'.until = 0
  <2>1. ASSUME NEW i \in Instances, InstanceStep(i) PROVE state' = state \/ state'.made
    <3>1. WriteState(i) => state' = [made |-> TRUE, text |-> inst[i].task.text, until |-> inst[i].task.at]
      BY DEF WriteState, Task_
    <3>2. WriteState(i) => state'.made
      BY <3>1
    <3> QED
      BY <2>1, <3>2, StepFrame
  <2>2. ASSUME NEW c \in Initializers, Initialize(c) PROVE state' = state \/ state'.made
    BY <2>2 DEF Initialize, ReadInitialized, InsertInitialState
  <2> QED
    BY <2>1, <2>2 DEF DocNext, docVars, LogInv
<1> QED
  BY <1>1, <1>2, <1>3 DEF LogInv

\* The seeds in the texts that somebody may store or load.
Used == {c \in Seeds : c \in state.text \/ \E i \in Instances : c \in inst[i].text \cup inst[i].task.text}

SeedIn(text) == text \cap Seeds # {}

\* Nobody works on the document.
Idle ==
    /\ batches = {} /\ \A c \in Initializers : call[c] # "done"
    /\ \A i \in Instances : inst[i].doc = "closed" /\ inst[i].pending = {} /\ inst[i].task = NoTask

\* A copy like this one has the content, and no other seed than the one in use.
Seeded(d, t, k) ==
    /\ \A c \in Seeds : c \in t \cup k.text => c \in Used
    /\ d = "open" => SeedIn(t)
    /\ k.pc \in {"lock state", "write state", "read batches"} => SeedIn(k.text)

SeedInv ==
    /\ ~state.made => Idle /\ state.text = {}
    /\ state.made => SeedIn(state.text)
    /\ \A c, d \in Used : c = d
    /\ \A i \in Instances : Seeded(inst[i].doc, inst[i].text, inst[i].task)

(* Nobody begins before there is content. *)
LEMMA IdleStays ==
  ASSUME DocShape, Idle, NEW i \in Instances, InstanceStep(i)
  PROVE  Idle' /\ UNCHANGED state
<1>0. /\ inst \in [Instances -> Copy] /\ inst[i].task = NoTask /\ inst[i].doc = "closed" /\ inst[i].pending = {}
      /\ NoTask.pc = "none"
  BY DEF Idle, DocShape, DocTypeOK, NoTask
<1>1. (\E e \in Edits : HandleMessage(i, e)) \/ CrashInstance(i)
  BY <1>0 DEF Idle, InstanceStep, TaskStep, FlushTimer, OnStoreDocument, SyncProjectSourceContent, BeginSync,
     OnLoadDocument, LockDocumentAndReadSeq, WriteBatch, EncodeState, WriteState, ReadState, ReadBatches,
     WriteSource, OnChange, Unload, StatementFails, ConnectionFails, TaskEnds, Task_
<1>2. UNCHANGED <<batches, call, state>>
  BY <1>1 DEF HandleMessage, CrashInstance
<1>3. \A j \in Instances : inst'[j] = inst[j] \/ inst'[j] = ClosedDoc
  BY <1>0, <1>1 DEF HandleMessage, CrashInstance
<1>4. ClosedDoc.doc = "closed" /\ ClosedDoc.pending = {} /\ ClosedDoc.task = NoTask
  BY DEF ClosedDoc
<1> QED
  BY <1>2, <1>3, <1>4 DEF Idle

(* What a step makes of the copy of its instance. *)
LEMMA SeedsAfter ==
  ASSUME DocShape, SeedInv, state.made, NEW i \in Instances, InstanceStep(i)
  PROVE  Seeded(inst'[i].doc, inst'[i].text, inst'[i].task)
<1> DEFINE c == inst[i]  k == inst[i].task  Goal == Seeded(inst'[i].doc, inst'[i].text, inst'[i].task)
<1>0. /\ DocTypeOK /\ inst \in [Instances -> Copy] /\ c \in Copy /\ k \in Task /\ CopyShape(c)
      /\ Seeded(c.doc, c.text, k) /\ SeedIn(state.text) /\ Edits \cap Seeds = {}
  BY DocAssumption DEF DocShape, DocTypeOK, Copy, SeedInv, Seeds
<1>1. ASSUME NEW d, NEW t, NEW p, NEW y, NEW task, Sets(i, d, t, p, y, task), Seeded(d, t, task) PROVE Goal
  BY <1>1 DEF Sets
<1>2. ASSUME NEW task, Turn(i, task), Seeded(c.doc, c.text, task) PROVE Goal
  BY <1>0, <1>1, <1>2, CopyAfter
<1>3. ASSUME NEW task, task.text = {}, task.pc \notin {"lock state", "write state", "read batches"}
      PROVE  Seeded(c.doc, c.text, task)
  BY <1>0, <1>3 DEF Seeded
<1>4. NoTask.text = {} /\ NoTask.pc = "none"
  BY DEF NoTask
<1>5. ASSUME NEW kind \in {"flush", "store", "sync"}, BeginTask(i, kind) PROVE Goal
  <2> DEFINE task == WithFlush(i, [NoTask EXCEPT !.kind = kind, !.seen = made])
             y == IF kind = "store" THEN FALSE ELSE c.dirty
  <2>1. Sets(i, c.doc, c.text, {}, y, task)
    BY <1>0, <1>5, CopyAfter
  <2>2. task.text = {} /\ task.pc \in {"none", "lock batch", "encode", "read state"}
    BY <1>0, <1>4, BegunTypes
  <2> HIDE DEF task, y, Goal
  <2> QED
    BY <1>1, <1>3, <2>1, <2>2
<1>6. CASE OnLoadDocument(i)
  <2> DEFINE task == [NoTask EXCEPT !.kind = "load", !.pc = "read state"]
  <2>1. Sets(i, "loading", c.text, c.pending, c.dirty, task)
    BY <1>0, <1>6, CopyAfter
  <2>2. task.text = {} /\ task.pc = "read state"
    BY DEF NoTask
  <2> HIDE DEF task
  <2>3. Seeded("loading", c.text, task)
    BY <1>0, <2>2 DEF Seeded
  <2> QED
    BY <1>1, <2>1, <2>3
<1>7. CASE LockDocumentAndReadSeq(i)
  <2> DEFINE task == [k EXCEPT !.at = seq, !.pc = IF k.pc = "lock batch" THEN "write batch" ELSE "write state"]
  <2>1. Turn(i, task)
    BY <1>0, <1>7 DEF LockDocumentAndReadSeq, Task_, Task
  <2>2. task.text = k.text /\ (task.pc \in {"lock state", "write state", "read batches"} => k.pc = "lock state")
    BY <1>0, <1>7 DEF LockDocumentAndReadSeq, Task_, Task
  <2> HIDE DEF task
  <2>3. Seeded(c.doc, c.text, task)
    BY <1>0, <2>2 DEF Seeded
  <2> QED
    BY <1>2, <2>1, <2>3
<1>8. CASE WriteBatch(i)
  <2>1. k.kind \in {"flush", "store", "sync"} /\ Turn(i, AfterFlush(k))
    BY <1>0, <1>8 DEF WriteBatch, Task_, CopyShape
  <2>2. AfterFlush(k).text \subseteq k.text /\ AfterFlush(k).pc \in {"none", "encode", "read state"}
    BY <1>0, <1>4, <2>1, FlushTypes
  <2>3. Seeded(c.doc, c.text, AfterFlush(k))
    BY <1>0, <2>2 DEF Seeded
  <2> QED
    BY <1>2, <2>1, <2>3
<1>9. CASE EncodeState(i)
  <2> DEFINE task == [k EXCEPT !.pc = "lock state", !.text = c.text]
  <2>1. Turn(i, task) /\ c.doc = "open"
    BY <1>0, <1>9 DEF EncodeState, Task_, CopyShape
  <2>2. task.text = c.text
    BY <1>0 DEF Task
  <2> HIDE DEF task
  <2>3. Seeded(c.doc, c.text, task)
    BY <1>0, <2>1, <2>2 DEF Seeded
  <2> QED
    BY <1>2, <2>1, <2>3
<1>10. CASE ReadState(i)
  <2> DEFINE task == [k EXCEPT !.pc = "read batches", !.text = state.text, !.at = state.until]
  <2>1. Turn(i, task)
    BY <1>10 DEF ReadState, Task_
  <2>2. task.text = state.text
    BY <1>0 DEF Task
  <2> HIDE DEF task
  <2>3. \A d \in Seeds : d \in state.text => d \in Used
    BY DEF Used
  <2>4. Seeded(c.doc, c.text, task)
    BY <1>0, <2>2, <2>3 DEF Seeded
  <2> QED
    BY <1>2, <2>1, <2>4
<1>11. CASE ReadBatches(i)
  <2> DEFINE read == k.text \cup UNION {b.text : b \in {x \in batches : x.to > k.at}}
  <2>1. k.pc = "read batches" /\ SeedIn(k.text)
    BY <1>0, <1>11 DEF ReadBatches, Task_, Seeded
  <2>2. k.text \subseteq read /\ read \cap Seeds \subseteq k.text
    BY <1>0 DEF DocTypeOK, Batch
  <2>3. CASE k.kind = "load"
    <3>1. Sets(i, "open", c.text \cup read, c.pending, c.dirty, NoTask)
      BY <1>0, <1>11, <2>1, <2>3, CopyAfter
    <3> HIDE DEF read
    <3>2. Seeded("open", c.text \cup read, NoTask)
      BY <1>0, <1>4, <2>1, <2>2 DEF Seeded, SeedIn
    <3> QED
      BY <1>1, <3>1, <3>2
  <2>4. CASE k.kind # "load"
    <3> DEFINE task == [k EXCEPT !.pc = "write source", !.text = read]
    <3>1. Turn(i, task)
      BY <1>11, <2>4 DEF ReadBatches, Task_
    <3> HIDE DEF read
    <3>2. task.text = read /\ task.pc = "write source"
      BY <1>0 DEF Task
    <3> HIDE DEF task
    <3>3. Seeded(c.doc, c.text, task)
      BY <1>0, <2>2, <3>2 DEF Seeded
    <3> QED
      BY <1>2, <3>1, <3>3
  <2> QED
    BY <2>3, <2>4
<1>12. CASE WriteState(i) \/ WriteSource(i)
  BY <1>2, <1>3, <1>4, <1>12 DEF WriteState, WriteSource
<1>13. ASSUME NEW e \in Edits, OnChange(i, e) PROVE Goal
  <2>1. Sets(i, c.doc, c.text \cup {e}, c.pending \cup {e}, TRUE, k)
    BY <1>0, <1>13, CopyAfter
  <2>2. Seeded(c.doc, c.text \cup {e}, k)
    BY <1>0 DEF Seeded, SeedIn
  <2> QED
    BY <1>1, <2>1, <2>2
<1>14. ASSUME NEW e \in Edits, HandleMessage(i, e) PROVE Goal
  <2>1. \/ UNCHANGED inst
        \/ \E y \in BOOLEAN : Sets(i, c.doc, c.text \cup {e}, c.pending, y, k)
    BY <1>0, <1>14, CopyAfter
  <2>2. Seeded(c.doc, c.text \cup {e}, k)
    BY <1>0 DEF Seeded, SeedIn
  <2> HIDE DEF Goal
  <2>3. UNCHANGED inst => Goal
    BY <1>0 DEF Goal
  <2> QED
    BY <1>1, <2>1, <2>2, <2>3
<1>15. CASE Unload(i)
  <2>1. Sets(i, "closed", {}, c.pending, c.dirty, k)
    BY <1>0, <1>15, CopyAfter
  <2>2. Seeded("closed", {}, k)
    BY <1>0 DEF Seeded
  <2> QED
    BY <1>1, <2>1, <2>2
<1>16. CASE StatementFails(i) \/ ConnectionFails(i)
  <2>1. PICK kept : TaskEnds(i, kept)
    BY <1>16 DEF StatementFails, ConnectionFails
  <2> DEFINE d == IF k.kind = "load" THEN "closed" ELSE c.doc  t == IF k.kind = "load" THEN {} ELSE c.text
             p == c.pending \cup kept  y == c.dirty \/ k.kind = "store"
  <2>2. Sets(i, d, t, p, y, NoTask)
    BY <1>0, <2>1, CopyAfter
  <2>3. (d = "closed" /\ t = {}) \/ (d = c.doc /\ t = c.text)
    OBVIOUS
  <2> HIDE DEF d, t, p, y
  <2>4. Seeded(d, t, NoTask)
    BY <1>0, <1>4, <2>3 DEF Seeded
  <2> QED
    BY <1>1, <2>2, <2>4
<1>17. CASE CrashInstance(i)
  <2>1. inst'[i] = ClosedDoc
    BY <1>0, <1>17 DEF CrashInstance
  <2>2. ClosedDoc.doc = "closed" /\ ClosedDoc.text = {} /\ ClosedDoc.task = NoTask
    BY DEF ClosedDoc
  <2> QED
    BY <1>4, <2>1, <2>2 DEF Seeded
<1> HIDE DEF Goal
<1> QED
  BY <1>5, <1>6, <1>7, <1>8, <1>9, <1>10, <1>11, <1>12, <1>13, <1>14, <1>15, <1>16, <1>17
  DEF InstanceStep, TaskStep, FlushTimer, OnStoreDocument, SyncProjectSourceContent, Goal

(* Every step keeps the document seeded once. *)
LEMMA SeedStep ==
  ASSUME DocShape, SeedInv, [DocNext]_docVars
  PROVE  SeedInv'
<1>0. /\ inst \in [Instances -> Copy] /\ call \in [Initializers -> {"idle", "insert", "done"}]
      /\ state \in [made : BOOLEAN, text : Texts, until : Nat]
  BY DEF DocShape, DocTypeOK
<1>1. ASSUME Used' \subseteq Used, state'.made => SeedIn(state'.text), ~state'.made => Idle' /\ state'.text = {},
             \A j \in Instances : Seeded(inst'[j].doc, inst'[j].text, inst'[j].task)
      PROVE  SeedInv'
  <2>1. \A j \in Instances : \A c \in Seeds : c \in inst'[j].text \cup inst'[j].task.text => c \in Used'
    BY DEF Used
  <2>2. \A c, d \in Used' : c = d
    BY <1>1 DEF SeedInv
  <2> QED
    BY <1>1, <2>1, <2>2 DEF SeedInv, Seeded
<1>2. ASSUME UNCHANGED <<state, inst>>, ~state'.made => Idle' PROVE SeedInv'
  BY <1>2 DEF SeedInv, Seeded, Used
<1>3. ASSUME NEW i \in Instances, InstanceStep(i), state.made PROVE SeedInv'
  <2>1. \A j \in Instances : Seeded(inst'[j].doc, inst'[j].text, inst'[j].task)
    BY <1>3, SeedsAfter, OthersKept DEF SeedInv, DocShape
  <2>2. state' = state \/ (state'.made /\ SeedIn(state'.text) /\ \A c \in Seeds : c \in state'.text => c \in Used)
    <3>1. CASE WriteState(i)
      <4>1. state' = [made |-> TRUE, text |-> inst[i].task.text, until |-> inst[i].task.at]
            /\ inst[i].task.pc = "write state"
        BY <3>1 DEF WriteState, Task_
      <4>2. state'.made /\ state'.text = inst[i].task.text
        BY <4>1
      <4> QED
        BY <4>1, <4>2 DEF SeedInv, Seeded
    <3> QED
      BY <1>3, <3>1, StepFrame
  <2>3. state'.made /\ SeedIn(state'.text) /\ \A c \in Seeds : c \in state'.text => c \in Used
    BY <1>3, <2>2 DEF SeedInv, Used
  <2>4. \A j \in Instances : \A c \in Seeds : c \in inst'[j].text \cup inst'[j].task.text => c \in Used
    BY <2>1 DEF Seeded
  <2>5. Used' \subseteq Used
    BY <2>3, <2>4 DEF Used
  <2> QED
    BY <1>1, <2>1, <2>3, <2>5
<1>4. ASSUME Idle, NEW j \in Instances
      PROVE  inst[j].doc = "closed" /\ inst[j].text = {} /\ inst[j].task.text = {} /\ inst[j].task.pc = "none"
  <2>1. inst[j].doc = "closed" /\ inst[j].task = NoTask /\ CopyShape(inst[j])
    BY <1>4 DEF Idle, DocShape
  <2>2. NoTask.text = {} /\ NoTask.pc = "none"
    BY DEF NoTask
  <2> QED
    BY <2>1, <2>2 DEF CopyShape
<1>5. ASSUME NEW i \in Instances, InstanceStep(i), ~state.made PROVE SeedInv'
  <2>1. Idle' /\ state' = state /\ Idle
    BY <1>5, IdleStays DEF SeedInv
  <2>2. \A j \in Instances : inst'[j].doc = "closed" /\ inst'[j].text = {} /\ inst'[j].task = NoTask
    BY <2>1, ShapeStep DEF Idle, DocShape, CopyShape
  <2>3. NoTask.text = {} /\ NoTask.pc = "none"
    BY DEF NoTask
  <2>4. \A j \in Instances : Seeded(inst'[j].doc, inst'[j].text, inst'[j].task)
    BY <2>2, <2>3 DEF Seeded
  <2>5. state'.text = {} /\ ~state'.made
    BY <1>5, <2>1 DEF SeedInv
  <2>6. Used' \subseteq Used
    BY <2>2, <2>3, <2>5 DEF Used
  <2> QED
    BY <1>1, <2>1, <2>4, <2>5, <2>6
<1>6. ASSUME NEW c \in Initializers, ReadInitialized(c) PROVE SeedInv'
  <2>1. UNCHANGED <<state, inst, batches>>
        /\ call' = [call EXCEPT ![c] = IF state.made \/ batches # {} THEN "done" ELSE "insert"]
    BY <1>6 DEF ReadInitialized
  <2>2. ~state'.made => Idle'
    BY <1>0, <2>1 DEF SeedInv, Idle
  <2> QED
    BY <1>2, <2>1, <2>2
<1>7. ASSUME NEW c \in Initializers, InsertInitialState(c) PROVE SeedInv'
  <2>1. UNCHANGED inst
    BY <1>7 DEF InsertInitialState
  <2>2. CASE state.made
    <3>1. UNCHANGED state
      BY <1>7, <2>2 DEF InsertInitialState
    <3> QED
      BY <1>2, <2>1, <2>2, <3>1
  <2>3. CASE ~state.made
    <3>1. state' = [made |-> TRUE, text |-> {c}, until |-> 0]
      BY <1>7, <2>3 DEF InsertInitialState
    <3>2. state'.made /\ state'.text = {c}
      BY <3>1
    <3>3. Used' \subseteq {c}
      BY <1>4, <2>1, <2>3, <3>2 DEF Used, SeedInv
    <3>4. SeedIn(state'.text)
      BY <3>2 DEF SeedIn, Seeds
    <3>5. \A j \in Instances : inst'[j].doc = "closed" /\ inst'[j].text = {} /\ inst'[j].task.text = {}
                              /\ inst'[j].task.pc = "none"
      BY <1>4, <2>1, <2>3 DEF SeedInv
    <3> QED
      BY <3>2, <3>3, <3>4, <3>5 DEF SeedInv, Seeded
  <2> QED
    BY <2>2, <2>3
<1>8. CASE UNCHANGED docVars
  <2>1. UNCHANGED <<state, inst, batches, call>>
    BY <1>8 DEF docVars
  <2> QED
    BY <1>2, <2>1 DEF SeedInv, Idle
<1> QED
  BY <1>3, <1>5, <1>6, <1>7, <1>8 DEF DocNext, Initialize

(* The text of everybody together holds one seed at most. *)
LEMMA SeedsOnce == SeedInv => SeededOnce
<1> SUFFICES ASSUME SeedInv PROVE SeededOnce
  OBVIOUS
<1> DEFINE all == Seeds \cap (state.text \cup UNION {inst[i].text : i \in Instances})
<1>1. all \subseteq Used
  BY DEF Used
<1>2. all = {} \/ \E c : all = {c}
  BY <1>1 DEF SeedInv
<1>3. Cardinality(all) <= 1
  <2> HIDE DEF all
  <2> QED
    <3>1. CASE all = {}
      BY <3>1, FS_EmptySet
    <3>2. ASSUME NEW c, all = {c} PROVE Cardinality(all) <= 1
      BY <3>2, FS_Singleton
    <3> QED
      BY <1>2, <3>1, <3>2
<1> QED
  BY <1>3 DEF SeededOnce, SeedInv, SeedIn, Seeded

\* The copy c of an instance that works alone, beside what is stored: what is pending or under way is in an
\* open copy that is to be stored; the open copy has all that is stored; and what its task has read or encoded
\* is still so, as nobody else writes.  Every accepted edit is stored, pending or under way.
Kept(c, stored, row, accepted) ==
    LET task == c.task IN
    /\ c.pending # {} => c.doc = "open" /\ c.dirty
    /\ task.batch # {} => c.doc = "open" /\ (c.dirty \/ task.kind = "store")
    /\ c.doc = "open" => stored \cup c.pending \cup task.batch \subseteq c.text
    /\ task.pc = "read batches" => task.text = row.text /\ task.at = row.until
    /\ task.pc \in {"lock state", "write state"} => stored \subseteq task.text /\ task.text \subseteq c.text
    /\ task.kind = "sync" =>
          task.seen \subseteq IF task.pc = "write source" THEN task.text ELSE stored \cup task.batch
    /\ accepted \subseteq stored \cup c.pending \cup task.batch

AloneInv ==
    /\ \A i \in Instances : i \notin users => inst[i] = ClosedDoc
    /\ ~disturbed => \A i \in Instances : users \subseteq {i} => Kept(inst[i], Stored, state, made)
    /\ Undisturbed => NothingDropped

(* What the steps of an instance that works alone make of its copy and of the log. *)
LEMMA KeptAfter ==
  ASSUME DocShape, LogInv, NEW i \in Instances, InstanceStep(i), ~disturbed', Kept(inst[i], Stored, state, made)
  PROVE  Kept(inst'[i], Stored', state', made')
<1> DEFINE c == inst[i]  k == inst[i].task  Goal == Kept(inst'[i], Stored', state', made')
<1>0. /\ DocTypeOK /\ inst \in [Instances -> Copy] /\ c \in Copy /\ k \in Task /\ CopyShape(c)
      /\ Kept(c, Stored, state, made) /\ \A b \in batches : b \in Batch
  BY DEF DocShape, DocTypeOK, Copy
<1>1. ASSUME UNCHANGED <<batches, state>> PROVE Stored' = Stored
  BY <1>1 DEF Stored
<1>2. NoTask.text = {} /\ NoTask.pc = "none" /\ NoTask.batch = {} /\ NoTask.kind = "none"
  BY DEF NoTask
<1>3. ASSUME NEW task, Turn(i, task)
      PROVE  inst'[i] = [doc |-> c.doc, text |-> c.text, pending |-> c.pending, dirty |-> c.dirty, task |-> task]
  <2>1. Sets(i, c.doc, c.text, c.pending, c.dirty, task)
    BY <1>0, <1>3, CopyAfter
  <2> QED
    BY <2>1 DEF Sets
<1>4. ASSUME NEW kind \in {"flush", "store", "sync"}, BeginTask(i, kind) PROVE Goal
  <2> DEFINE task == WithFlush(i, [NoTask EXCEPT !.kind = kind, !.seen = made])
             y == IF kind = "store" THEN FALSE ELSE c.dirty
  <2>1. Sets(i, c.doc, c.text, {}, y, task)
    BY <1>0, <1>4, CopyAfter
  <2>2. \/ task = NoTask /\ c.pending = {}
        \/ task.kind = kind /\ task.batch = c.pending /\ task.seen = made
           /\ task.pc \in {"lock batch", "encode", "read state"}
    BY <1>0, BegunTypes
  <2>3. k = NoTask /\ UNCHANGED <<batches, state, made>>
    BY <1>4 DEF BeginTask, Task_
  <2>4. y = c.dirty \/ kind = "store"
    OBVIOUS
  <2> HIDE DEF task, y
  <2>5. inst'[i] = [doc |-> c.doc, text |-> c.text, pending |-> {}, dirty |-> y, task |-> task]
    BY <2>1 DEF Sets
  <2>6. k.batch = {}
    BY <1>2, <2>3
  <2>7. CASE task = NoTask /\ c.pending = {}
    <3>1. Kept([doc |-> c.doc, text |-> c.text, pending |-> {}, dirty |-> y, task |-> NoTask], Stored, state, made)
      BY <1>0, <1>2, <2>6, <2>7 DEF Kept
    <3> QED
      BY <1>1, <2>3, <2>5, <2>7, <3>1
  <2>8. CASE task.kind = kind /\ task.batch = c.pending /\ task.seen = made
             /\ task.pc \in {"lock batch", "encode", "read state"}
    <3>1. Kept([doc |-> c.doc, text |-> c.text, pending |-> {}, dirty |-> y, task |-> task], Stored, state, made)
      BY <1>0, <2>4, <2>6, <2>8 DEF Kept
    <3> QED
      BY <1>1, <2>3, <2>5, <3>1
  <2> QED
    BY <2>2, <2>7, <2>8
<1>5. CASE OnLoadDocument(i)
  <2> DEFINE task == [NoTask EXCEPT !.kind = "load", !.pc = "read state"]
  <2>1. Sets(i, "loading", c.text, c.pending, c.dirty, task)
    BY <1>0, <1>5, CopyAfter
  <2>2. task.kind = "load" /\ task.pc = "read state" /\ task.batch = {}
    BY DEF NoTask
  <2>3. k = NoTask /\ c.doc = "closed" /\ UNCHANGED <<batches, state, made>>
    BY <1>5 DEF OnLoadDocument, Task_
  <2> HIDE DEF task
  <2>4. Kept([doc |-> "loading", text |-> c.text, pending |-> c.pending, dirty |-> c.dirty, task |-> task],
             Stored, state, made)
    BY <1>0, <1>2, <2>2, <2>3 DEF Kept
  <2> QED
    BY <1>1, <2>1, <2>3, <2>4 DEF Sets
<1>6. CASE LockDocumentAndReadSeq(i)
  <2> DEFINE task == [k EXCEPT !.at = seq, !.pc = IF k.pc = "lock batch" THEN "write batch" ELSE "write state"]
  <2>1. Turn(i, task) /\ k.pc \in {"lock batch", "lock state"} /\ UNCHANGED <<batches, state, made>>
    BY <1>0, <1>6 DEF LockDocumentAndReadSeq, Task_, Task
  <2>2. /\ task.text = k.text /\ task.batch = k.batch /\ task.kind = k.kind /\ task.seen = k.seen
        /\ task.pc = IF k.pc = "lock batch" THEN "write batch" ELSE "write state"
    BY <1>0 DEF Task
  <2> HIDE DEF task
  <2>3. Kept([doc |-> c.doc, text |-> c.text, pending |-> c.pending, dirty |-> c.dirty, task |-> task],
             Stored, state, made)
    BY <1>0, <2>1, <2>2 DEF Kept
  <2> QED
    BY <1>1, <1>3, <2>1, <2>3
<1>7. CASE WriteBatch(i)
  <2> DEFINE card == Cardinality(k.batch)
             new == [from |-> k.at + 1, to |-> k.at + card, text |-> k.batch]
  <2>1. /\ k.kind \in {"flush", "store", "sync"} /\ k.pc = "write batch" /\ k.batch # {} /\ k.batch \in SUBSET Edits
        /\ k.at = seq /\ state.until <= seq /\ seq \in Nat /\ state.until \in Nat
    BY <1>0, <1>7 DEF WriteBatch, Task_, CopyShape, Task, LogInv, RowHeld, Tiled, DocTypeOK
  <2>2. batches' = batches \cup {new} /\ state' = state /\ made' = made /\ Turn(i, AfterFlush(k))
    BY <1>7 DEF WriteBatch, Task_
  <2>3. new.text = k.batch /\ new.to > state.until
    <3>1. card \in Nat \ {0}
      BY <2>1, BatchCounts
    <3>2. new.text = k.batch /\ new.to = k.at + card
      OBVIOUS
    <3>3. k.at = seq /\ state.until <= seq /\ seq \in Nat /\ state.until \in Nat
      BY <2>1
    <3> HIDE DEF card, new
    <3>4. new.to = seq + card /\ seq + card > state.until
      BY <3>1, <3>2, <3>3
    <3> QED
      BY <3>2, <3>4
  <2> HIDE DEF new
  <2>4. Stored' = Stored \cup k.batch
    BY <2>2, <2>3 DEF Stored
  <2>5. /\ AfterFlush(k).batch = {}
        /\ \/ AfterFlush(k) = NoTask
           \/ k.kind = "store" /\ AfterFlush(k).kind = "store" /\ AfterFlush(k).pc = "encode"
           \/ /\ k.kind = "sync" /\ AfterFlush(k).kind = "sync" /\ AfterFlush(k).pc = "read state"
              /\ AfterFlush(k).seen = k.seen
    BY <1>0, <2>1, FlushTypes
  <2>6. PICK task : task = AfterFlush(k)
    OBVIOUS
  <2>7. task.batch = {} /\ task.pc \in {"none", "encode", "read state"}
        /\ (task.kind = "sync" => k.kind = "sync" /\ task.seen = k.seen)
    BY <1>2, <2>5, <2>6
  <2>8. Kept([doc |-> c.doc, text |-> c.text, pending |-> c.pending, dirty |-> c.dirty, task |-> task],
             Stored \cup k.batch, state, made)
    BY <1>0, <2>1, <2>7 DEF Kept
  <2> QED
    BY <1>3, <2>2, <2>4, <2>6, <2>8
<1>8. CASE EncodeState(i)
  <2> DEFINE task == [k EXCEPT !.pc = "lock state", !.text = c.text]
  <2>1. Turn(i, task) /\ c.doc = "open" /\ k.kind = "store" /\ k.batch = {} /\ UNCHANGED <<batches, state, made>>
    BY <1>0, <1>8 DEF EncodeState, Task_, CopyShape
  <2>2. task.text = c.text /\ task.pc = "lock state" /\ task.kind = k.kind /\ task.batch = k.batch
    BY <1>0 DEF Task
  <2> HIDE DEF task
  <2>3. Kept([doc |-> c.doc, text |-> c.text, pending |-> c.pending, dirty |-> c.dirty, task |-> task],
             Stored, state, made)
    BY <1>0, <2>1, <2>2 DEF Kept
  <2> QED
    BY <1>1, <1>3, <2>1, <2>3
<1>9. CASE WriteState(i)
  <2>1. /\ k.pc = "write state" /\ k.batch = {} /\ k.at = seq /\ Turn(i, NoTask) /\ made' = made
        /\ state' = [made |-> TRUE, text |-> k.text, until |-> k.at] /\ \A b \in batches' : b \in batches
    BY <1>0, <1>9 DEF WriteState, Task_, CopyShape, LogInv, RowHeld
  <2>2. \A b \in batches' : ~(b.to > state'.until)
    <3>1. \A b \in batches : b.to <= seq /\ b.to \in Nat
      BY <1>0 DEF LogInv, Tiled, Batch
    <3>2. state'.until = seq /\ seq \in Nat
      BY <1>0, <2>1 DEF DocTypeOK
    <3>3. \A b \in batches' : b \in batches
      BY <2>1
    <3> QED
      BY <3>1, <3>2, <3>3
  <2>3. Stored' = k.text
    BY <2>1, <2>2 DEF Stored
  <2>4. \A row : Kept([doc |-> c.doc, text |-> c.text, pending |-> c.pending, dirty |-> c.dirty, task |-> NoTask],
             k.text, row, made)
    BY <1>0, <1>2, <2>1 DEF Kept
  <2> QED
    BY <1>3, <2>1, <2>3, <2>4
<1>10. CASE ReadState(i)
  <2> DEFINE task == [k EXCEPT !.pc = "read batches", !.text = state.text, !.at = state.until]
  <2>1. Turn(i, task) /\ k.pc = "read state" /\ k.batch = {} /\ UNCHANGED <<batches, state, made>>
    BY <1>0, <1>10 DEF ReadState, Task_, CopyShape
  <2>2. /\ task.text = state.text /\ task.at = state.until /\ task.pc = "read batches" /\ task.kind = k.kind
        /\ task.batch = k.batch /\ task.seen = k.seen
    BY <1>0 DEF Task
  <2> HIDE DEF task
  <2>3. Kept([doc |-> c.doc, text |-> c.text, pending |-> c.pending, dirty |-> c.dirty, task |-> task],
             Stored, state, made)
    BY <1>0, <2>1, <2>2 DEF Kept
  <2> QED
    BY <1>1, <1>3, <2>1, <2>3
<1>11. CASE ReadBatches(i)
  <2> DEFINE read == k.text \cup UNION {b.text : b \in {x \in batches : x.to > k.at}}
  <2>1. k.pc = "read batches" /\ k.batch = {} /\ (k.kind = "load" => c.doc = "loading") /\ UNCHANGED <<batches, state, made>>
    BY <1>0, <1>11 DEF ReadBatches, Task_, CopyShape
  <2>2. read = Stored
    BY <1>0, <2>1 DEF Kept, Stored
  <2>3. CASE k.kind = "load"
    <3>1. Sets(i, "open", c.text \cup read, c.pending, c.dirty, NoTask)
      BY <1>0, <1>11, <2>1, <2>3, CopyAfter
    <3> HIDE DEF read
    <3>2. Kept([doc |-> "open", text |-> c.text \cup read, pending |-> c.pending, dirty |-> c.dirty, task |-> NoTask],
               Stored, state, made)
      BY <1>0, <1>2, <2>1, <2>2, <2>3 DEF Kept
    <3> QED
      BY <1>1, <2>1, <3>1, <3>2 DEF Sets
  <2>4. CASE k.kind # "load"
    <3> DEFINE task == [k EXCEPT !.pc = "write source", !.text = read]
    <3>1. Turn(i, task)
      BY <1>11, <2>4 DEF ReadBatches, Task_
    <3> HIDE DEF read
    <3>2. task.text = read /\ task.pc = "write source" /\ task.kind = k.kind /\ task.batch = k.batch /\ task.seen = k.seen
      BY <1>0 DEF Task
    <3> HIDE DEF task
    <3>3. Kept([doc |-> c.doc, text |-> c.text, pending |-> c.pending, dirty |-> c.dirty, task |-> task],
               Stored, state, made)
      BY <1>0, <2>1, <2>2, <3>2 DEF Kept
    <3> QED
      BY <1>1, <1>3, <2>1, <3>1, <3>3
  <2> QED
    BY <2>3, <2>4
<1>12. CASE WriteSource(i)
  <2>1. k.pc = "write source" /\ k.batch = {} /\ Turn(i, NoTask) /\ UNCHANGED <<batches, state, made>>
    BY <1>0, <1>12 DEF WriteSource, Task_, CopyShape
  <2>2. Kept([doc |-> c.doc, text |-> c.text, pending |-> c.pending, dirty |-> c.dirty, task |-> NoTask],
             Stored, state, made)
    BY <1>0, <1>2, <2>1 DEF Kept
  <2> QED
    BY <1>1, <1>3, <2>1, <2>2
<1>13. ASSUME NEW e \in Edits, OnChange(i, e) PROVE Goal
  <2>1. Sets(i, c.doc, c.text \cup {e}, c.pending \cup {e}, TRUE, k)
    BY <1>0, <1>13, CopyAfter
  <2>2. c.doc = "open" /\ UNCHANGED <<batches, state>> /\ made' = made \cup {e}
    BY <1>13 DEF OnChange
  <2>3. Kept([doc |-> c.doc, text |-> c.text \cup {e}, pending |-> c.pending \cup {e}, dirty |-> TRUE, task |-> k],
             Stored, state, made \cup {e})
    BY <1>0, <2>2 DEF Kept
  <2> QED
    BY <1>1, <2>1, <2>2, <2>3 DEF Sets
<1>14. ASSUME NEW e \in Edits, HandleMessage(i, e) PROVE Goal
  <2>1. UNCHANGED <<batches, state, made>>
    BY <1>14 DEF HandleMessage
  <2>2. \/ UNCHANGED inst
        \/ \E y \in BOOLEAN : (c.dirty => y) /\ Sets(i, c.doc, c.text \cup {e}, c.pending, y, k)
    BY <1>0, <1>14, CopyAfter
  <2>3. ASSUME NEW y \in BOOLEAN, c.dirty => y, Sets(i, c.doc, c.text \cup {e}, c.pending, y, k) PROVE Goal
    <3>1. Kept([doc |-> c.doc, text |-> c.text \cup {e}, pending |-> c.pending, dirty |-> y, task |-> k],
               Stored, state, made)
      BY <1>0, <2>3 DEF Kept
    <3> QED
      BY <1>1, <2>1, <2>3, <3>1 DEF Sets
  <2>4. UNCHANGED inst => Goal
    BY <1>0, <1>1, <2>1
  <2> HIDE DEF Goal
  <2> QED
    BY <2>2, <2>3, <2>4
<1>15. CASE Unload(i)
  <2>1. Sets(i, "closed", {}, c.pending, c.dirty, k)
    BY <1>0, <1>15, CopyAfter
  <2>2. ~c.dirty /\ k = NoTask /\ UNCHANGED <<batches, state, made>>
    BY <1>15 DEF Unload, Task_
  <2>3. Kept([doc |-> "closed", text |-> {}, pending |-> c.pending, dirty |-> c.dirty, task |-> k], Stored, state, made)
    BY <1>0, <1>2, <2>2 DEF Kept
  <2> QED
    BY <1>1, <2>1, <2>2, <2>3 DEF Sets
<1>16. CASE StatementFails(i)
  <2>1. TaskEnds(i, k.batch) /\ UNCHANGED <<batches, state, made>>
    BY <1>16 DEF StatementFails, TaskEnds, Task_
  <2> DEFINE d == IF k.kind = "load" THEN "closed" ELSE c.doc  t == IF k.kind = "load" THEN {} ELSE c.text
             p == c.pending \cup k.batch  y == c.dirty \/ k.kind = "store"
  <2>2. Sets(i, d, t, p, y, NoTask)
    BY <1>0, <2>1, CopyAfter
  <2>3. k.kind = "load" => c.doc = "loading"
    BY <1>0 DEF CopyShape
  <2>4. Kept([doc |-> d, text |-> t, pending |-> p, dirty |-> y, task |-> NoTask], Stored, state, made)
    BY <1>0, <1>2, <2>3 DEF Kept
  <2> QED
    BY <1>1, <2>1, <2>2, <2>4 DEF Sets
<1>17. ~ConnectionFails(i) /\ ~CrashInstance(i)
  BY DEF ConnectionFails, CrashInstance
<1> HIDE DEF Goal
<1> QED
  BY <1>4, <1>5, <1>6, <1>7, <1>8, <1>9, <1>10, <1>11, <1>12, <1>13, <1>14, <1>15, <1>16, <1>17
  DEF InstanceStep, TaskStep, FlushTimer, OnStoreDocument, SyncProjectSourceContent, Goal

(* Who has not worked on the document does nothing but begin, or drop a message. *)
LEMMA StrangersIdle ==
  ASSUME DocShape, NEW i \in Instances, InstanceStep(i), ~disturbed', inst[i] = ClosedDoc, i \notin users'
  PROVE  UNCHANGED <<inst, batches, state, made>>
<1>0. /\ ClosedDoc.doc = "closed" /\ ClosedDoc.pending = {} /\ ClosedDoc.task = NoTask /\ NoTask.pc = "none"
  BY DEF ClosedDoc, NoTask
<1>1. \E e \in Edits : HandleMessage(i, e)
  BY <1>0 DEF InstanceStep, TaskStep, FlushTimer, OnStoreDocument, SyncProjectSourceContent, BeginTask, Works,
     OnLoadDocument, LockDocumentAndReadSeq, WriteBatch, EncodeState, WriteState, ReadState, ReadBatches,
     WriteSource, OnChange, Unload, StatementFails, ConnectionFails, CrashInstance, TaskEnds, Task_
<1> QED
  BY <1>0, <1>1 DEF HandleMessage

(* One that works alone keeps what is accepted. *)
LEMMA AloneStep ==
  ASSUME DocShape, LogInv, SeedInv, AloneInv, [DocNext]_docVars
  PROVE  AloneInv'
<1>0. /\ inst \in [Instances -> Copy] /\ users \subseteq Instances
      /\ ClosedDoc.doc = "closed" /\ ClosedDoc.pending = {} /\ ClosedDoc.task = NoTask
      /\ NoTask.pc = "none" /\ NoTask.batch = {} /\ NoTask.kind = "none"
  BY DEF DocShape, DocTypeOK, ClosedDoc, NoTask
<1>1. ASSUME UNCHANGED <<inst, users, disturbed, batches, state, made>> PROVE AloneInv'
  <2>1. UNCHANGED <<Stored, Undisturbed, NothingDropped>>
    BY <1>1 DEF Stored, Undisturbed, NothingDropped
  <2> QED
    BY <1>1, <2>1 DEF AloneInv
<1>2. ASSUME NEW i \in Instances, InstanceStep(i) PROVE AloneInv'
  <2>1. users' = users \/ users' = users \cup {i}
    BY <1>2, StepFrame
  <2>2. ~disturbed' => ~disturbed
    BY <1>2, StepFrame DEF DocShape, DocTypeOK
  <2>3. \A j \in Instances \ {i} : inst'[j] = inst[j]
    BY <1>2, OthersKept DEF DocShape
  <2>4. inst[i] = ClosedDoc /\ i \notin users' => inst'[i] = ClosedDoc
    <3>1. SUFFICES ASSUME inst[i] = ClosedDoc, i \notin users' PROVE inst'[i] = ClosedDoc
      OBVIOUS
    <3>2. (\E e \in Edits : HandleMessage(i, e)) \/ CrashInstance(i)
      BY <1>0, <1>2, <3>1 DEF InstanceStep, TaskStep, FlushTimer, OnStoreDocument, SyncProjectSourceContent, BeginTask,
         Works, OnLoadDocument, LockDocumentAndReadSeq, WriteBatch, EncodeState, WriteState, ReadState, ReadBatches,
         WriteSource, OnChange, Unload, StatementFails, ConnectionFails, TaskEnds, Task_
    <3> QED
      BY <1>0, <3>1, <3>2 DEF HandleMessage, CrashInstance
  <2>5. \A j \in Instances : j \notin users' => inst'[j] = ClosedDoc
    BY <2>1, <2>3, <2>4 DEF AloneInv
  <2>6. CASE i \in users'
    <3>1. ASSUME ~disturbed', users' \subseteq {i} PROVE Kept(inst'[i], Stored', state', made')
      <4>1. Kept(inst[i], Stored, state, made)
        BY <2>1, <2>2, <3>1 DEF AloneInv
      <4> QED
        BY <1>2, <3>1, <4>1, KeptAfter
    <3>2. \A j \in Instances : users' \subseteq {j} => j = i
      BY <2>6
    <3>3. Undisturbed' => ~disturbed' /\ users' \subseteq {i}
      BY <2>6 DEF Undisturbed
    <3>4. Kept(inst'[i], Stored', state', made') => NothingDropped'
      BY DEF Kept, NothingDropped
    <3> QED
      BY <2>5, <3>1, <3>2, <3>3, <3>4 DEF AloneInv
  <2>7. CASE i \notin users'
    <3>1. users' = users /\ inst[i] = ClosedDoc
      BY <2>1, <2>7 DEF AloneInv
    <3>2. CASE disturbed'
      BY <2>5, <3>2 DEF AloneInv, Undisturbed
    <3>3. CASE ~disturbed'
      <4>1. UNCHANGED <<inst, batches, state, made>>
        BY <1>2, <2>7, <3>1, <3>3, StrangersIdle
      <4>2. UNCHANGED disturbed
        BY <1>2, <3>3, StepFrame
      <4> QED
        BY <1>1, <3>1, <4>1, <4>2
    <3> QED
      BY <3>2, <3>3
  <2> QED
    BY <2>6, <2>7
<1>3. ASSUME NEW c \in Initializers, Initialize(c) PROVE AloneInv'
  <2>1. UNCHANGED <<inst, users, disturbed, batches, made>>
    BY <1>3 DEF Initialize, ReadInitialized, InsertInitialState, history
  <2>2. CASE state' = state
    BY <1>1, <2>1, <2>2
  <2>3. CASE state' # state
    <3>1. Idle /\ state.text = {}
      BY <1>3, <2>3 DEF Initialize, ReadInitialized, InsertInitialState, SeedInv
    <3>2. Stored = {}
      BY <3>1 DEF Idle, Stored
    <3>3. ASSUME NEW i \in Instances, Kept(inst[i], Stored, state, made) PROVE Kept(inst[i], Stored', state', made)
      <4>1. inst[i].doc = "closed" /\ inst[i].pending = {} /\ inst[i].task = NoTask
        BY <3>1 DEF Idle
      <4> QED
        BY <1>0, <3>2, <3>3, <4>1 DEF Kept
    <3>4. NothingDropped => NothingDropped'
      BY <2>1, <3>2 DEF NothingDropped
    <3> QED
      BY <2>1, <3>3, <3>4 DEF AloneInv, Undisturbed
  <2> QED
    BY <2>2, <2>3
<1>4. CASE UNCHANGED docVars
  BY <1>1, <1>4 DEF docVars
<1> QED
  BY <1>2, <1>3, <1>4 DEF DocNext

(* A fault is counted: it is no stutter. *)
LEMMA FaultsGrow == DocTypeOK => docFaults # docFaults + 1
<1>1. DocTypeOK => docFaults \in 0..MaxDocFaults
  BY DEF DocTypeOK
<1> QED
  BY <1>1, DocAssumption

(* A sync that ends well, of an instance that works alone. *)
LEMMA SyncsComplete ==
  ASSUME DocShape, AloneInv, [DocNext]_docVars, Undisturbed'
  PROVE  SyncEndsComplete
<1> SUFFICES ASSUME NEW i \in Instances, inst[i].task.pc = "write source", inst'[i].task.pc # "write source",
                    docFaults' = docFaults
             PROVE  inst[i].task.seen \subseteq source'
  BY DEF SyncEndsComplete
<1> DEFINE k == inst[i].task
<1>0. DocTypeOK /\ inst \in [Instances -> Copy] /\ CopyShape(inst[i]) /\ k # NoTask /\ ClosedDoc.task = NoTask
  <2>1. NoTask.pc = "none" /\ ClosedDoc.task = NoTask
    BY DEF NoTask, ClosedDoc
  <2> QED
    BY <2>1 DEF DocShape, DocTypeOK
<1>1. PICK j \in Instances : InstanceStep(j)
  BY DEF DocNext, docVars, Initialize, ReadInitialized, InsertInitialState
<1>2. InstanceStep(i)
  BY <1>0, <1>1, OthersKept
<1>3. WriteSource(i)
  <2>1. \A e : ~OnChange(i, e) /\ ~HandleMessage(i, e)
    BY <1>0, TaskAfter
  <2>2. ~Unload(i) /\ \A kind : ~BeginTask(i, kind)
    BY <1>0 DEF Unload, BeginTask, Task_
  <2>3. ~OnLoadDocument(i)
    BY <1>0 DEF OnLoadDocument, Task_
  <2>4. docFaults' # docFaults + 1
    <3>1. docFaults # docFaults + 1
      BY <1>0, FaultsGrow
    <3> QED
      BY <3>1
  <2>5. ~StatementFails(i) /\ ~ConnectionFails(i) /\ ~CrashInstance(i)
    BY <2>4 DEF StatementFails, ConnectionFails, CrashInstance, DocFault
  <2> QED
    BY <1>2, <2>1, <2>2, <2>3, <2>5 DEF InstanceStep, TaskStep, FlushTimer, OnStoreDocument, SyncProjectSourceContent,
       LockDocumentAndReadSeq, WriteBatch, EncodeState, WriteState, ReadState, ReadBatches, Task_
<1>4. i \in users
  BY <1>0 DEF AloneInv
<1>5. ~disturbed /\ users \subseteq {i}
  <2>1. users \subseteq users' /\ disturbed' = disturbed
    BY <1>3 DEF WriteSource, history
  <2> QED
    BY <1>4, <2>1 DEF Undisturbed
<1>6. k.seen \subseteq k.text
  BY <1>0, <1>5 DEF AloneInv, Kept, CopyShape
<1> QED
  BY <1>3, <1>6 DEF WriteSource, Task_

DocInv == DocShape /\ LogInv /\ SeedInv /\ AloneInv

(* The invariant holds at first. *)
LEMMA DocInvInit == DocInit => DocInv
<1> SUFFICES ASSUME DocInit PROVE DocInv
  OBVIOUS
<1>0. /\ ClosedDoc.doc = "closed" /\ ClosedDoc.text = {} /\ ClosedDoc.pending = {} /\ ClosedDoc.task = NoTask
      /\ NoTask.pc = "none" /\ NoTask.kind = "none" /\ NoTask.batch = {} /\ NoTask.text = {}
  BY DEF ClosedDoc, NoTask
<1>1. \A i \in Instances : inst[i] = ClosedDoc
  BY DEF DocInit
<1>2. state.made = FALSE /\ state.text = {} /\ state.until = 0 /\ batches = {} /\ seq = 0
  BY DEF DocInit
<1>3. LogInv
  <2>1. RowHeld
    BY <1>0, <1>1 DEF RowHeld
  <2>2. Tiled
    <3>1. \A n \in (state.until + 1)..seq : FALSE
      BY <1>2
    <3> QED
      BY <1>2, <3>1 DEF Tiled
  <2> QED
    BY <1>2, <2>1, <2>2 DEF LogInv
<1>4. SeedInv
  <2>1. Idle
    BY <1>0, <1>1, <1>2 DEF Idle, DocInit
  <2>2. Used = {}
    BY <1>0, <1>1, <1>2 DEF Used
  <2> QED
    BY <1>0, <1>1, <1>2, <2>1, <2>2 DEF SeedInv, Seeded
<1>5. AloneInv
  <2>1. Kept(ClosedDoc, Stored, state, made)
    BY <1>0 DEF Kept, DocInit
  <2> QED
    BY <1>1, <2>1 DEF AloneInv, DocInit, NothingDropped
<1> QED
  BY <1>3, <1>4, <1>5, ShapeInit DEF DocInv

(* The invariant of a document holds in every behaviour. *)
LEMMA DocInvariance == DocSpec => []DocInv
<1>1. DocInv /\ [DocNext]_docVars => DocInv'
  BY ShapeStep, LogStep, SeedStep, AloneStep DEF DocInv
<1> QED
  BY DocInvInit, <1>1, PTL DEF DocSpec

(***************************************************************************)
(* However many instances flush, store, load and fail, the log has no gap  *)
(* and no overlap and the content is in it once; and an instance that has  *)
(* worked on it alone and lives drops no accepted edit when statements     *)
(* fail, nor leaves one out of a sync that ends well.                      *)
(***************************************************************************)
THEOREM UpdatesAreKept == DocSpec => UpdatesKept
<1>1. DocInv => DocTypeOK /\ SeededOnce /\ LogTiled /\ (Undisturbed => NothingDropped)
  BY TiledOnce, SeedsOnce DEF DocInv, DocShape, LogInv, AloneInv
<1>2. DocInv /\ [DocNext]_docVars => [Undisturbed' => SyncEndsComplete]_docVars
  BY SyncsComplete DEF DocInv
<1> QED
  BY DocInvariance, <1>1, <1>2, PTL DEF DocSpec, UpdatesKept
=============================================================================
