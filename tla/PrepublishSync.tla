--------------------------- MODULE PrepublishSync ---------------------------
(***************************************************************************)
(* The platform drafts of one project: compiling them from the project's   *)
(* content (backend/internal/services/prepublish/drafts.go) while users    *)
(* save content, choose platforms and edit drafts, and while publications  *)
(* are being published.                                                    *)
(*                                                                         *)
(* A sync is a request of several statements: it brings the content up to  *)
(* date with the collaboration document, reads the project, makes sure of  *)
(* the rows, marks them syncing, has the drafts compiled by another        *)
(* service and applies the answer.  Each of its transactions is one step.  *)
(* What publishing does to a row is reduced to its statements on that row; *)
(* PublishPipeline has the rest.                                           *)
(***************************************************************************)
EXTENDS PublicationRow

CONSTANTS
    Platforms,
    Syncs,          \* sync requests
    MaxVersion,     \* bound on the versions of the project's content
    MaxRequests     \* bound on the requests other than syncs

ASSUME PrepublishAssumption == MaxVersion \in Nat \ {0} /\ MaxRequests \in Nat

VARIABLES
    version,    \* the version of projects.source_content
    pubs,       \* the publication rows there are, by platform
    running,    \* platforms a publish is under way for
    sync,       \* local state of each sync
    requests    \* requests other than syncs so far

vars == <<version, pubs, running, sync, requests>>

SyncPC == {"idle", "refreshed", "loaded", "ensured", "syncing", "done", "failed"}

\* base: the version of the project the sync read.
Sync == [pc : SyncPC, platforms : SUBSET Platforms, base : 0..MaxVersion]

TypeOK ==
    /\ version \in 1..MaxVersion
    /\ DOMAIN pubs \subseteq Platforms
    /\ pubs \in [DOMAIN pubs -> Publication(0..MaxVersion)]
    /\ running \subseteq DOMAIN pubs
    /\ sync \in [Syncs -> Sync]
    /\ requests \in 0..MaxRequests

\* CreateProject with some platforms selected.
Init ==
    /\ version = 1
    /\ \E selected \in SUBSET Platforms \ {{}} : pubs = [p \in selected |-> PendingPublication]
    /\ running = {}
    /\ sync = [r \in Syncs |-> [pc |-> "idle", platforms |-> {}, base |-> 0]]
    /\ requests = 0

At(r, pc) == sync[r].pc = pc

Goto(r, pc) == sync' = [sync EXCEPT ![r].pc = pc]

Set(p, row) == pubs' = [pubs EXCEPT ![p] = row]

\* The content changes; a project has at most MaxVersion versions.
NewVersion == version < MaxVersion /\ version' = version + 1

\* A request of an editor or a publisher begins.
Request == requests < MaxRequests /\ requests' = requests + 1
-----------------------------------------------------------------------------
(* SyncProjectPrepublish.                                                  *)

\* SyncProjectCollabSourceContent writes the content of the collaboration
\* document into the project, without a mark on the drafts.
RefreshSource(r) ==
    /\ At(r, "idle")
    /\ NewVersion \/ UNCHANGED version
    /\ Goto(r, "refreshed")
    /\ UNCHANGED <<pubs, running, requests>>

\* The project is read; no platforms in the request means all enabled ones.
LoadProject(r, ps) ==
    /\ At(r, "refreshed") /\ ps # {}
    /\ sync' = [sync EXCEPT ![r] = [pc |-> "loaded", platforms |-> ps, base |-> version]]
    /\ UNCHANGED <<version, pubs, running, requests>>

EnsurePublications(r) ==
    /\ At(r, "loaded")
    /\ pubs' = [p \in DOMAIN pubs \cup sync[r].platforms |->
                   IF p \notin DOMAIN pubs THEN PendingPublication
                   ELSE IF p \in sync[r].platforms THEN EnsurePrepublishPublication(pubs[p])
                   ELSE pubs[p]]
    /\ Goto(r, "ensured")
    /\ UNCHANGED <<version, running, requests>>

\* One active publication refuses them all, and the transaction counts the
\* active ones again before it commits.
MarkSyncing(r) ==
    /\ At(r, "ensured")
    /\ \/ /\ \A p \in sync[r].platforms : pubs[p].status \notin ActivePublicationStatuses
          /\ pubs' = [p \in DOMAIN pubs |-> IF p \in sync[r].platforms
                                            THEN MarkPrepublishSyncing(pubs[p]) ELSE pubs[p]]
          /\ Goto(r, "syncing")
       \/ /\ \E p \in sync[r].platforms : pubs[p].status \in ActivePublicationStatuses
          /\ Goto(r, "failed")
          /\ UNCHANGED pubs
    /\ UNCHANGED <<version, running, requests>>

\* Mutant of StillSyncing: rows are updated by project and platform alone.
StillThere(r) == TRUE

\* updateSyncingPrepublishPublication: "AND status = 'syncing'"; a row that
\* is not rolls the transaction back.
StillSyncing(r) == \A p \in sync[r].platforms : pubs[p].status = "syncing"

\* The rows of the answer are written together or not at all.
Apply(r, answer) ==
    \/ /\ StillSyncing(r)
       /\ pubs' = [p \in DOMAIN pubs |-> IF p \in sync[r].platforms THEN answer[p] ELSE pubs[p]]
       /\ Goto(r, "done")
    \/ /\ ~StillSyncing(r)
       /\ Goto(r, "failed")
       /\ UNCHANGED pubs

\* The compiler answers with drafts for some of the platforms.
ApplyCompiledDrafts(r, compiled) ==
    /\ At(r, "syncing")
    /\ Apply(r, [p \in sync[r].platforms |-> IF p \in compiled THEN SavedDraft(sync[r].base)
                                                         ELSE DraftMissing(pubs[p])])
    /\ UNCHANGED <<version, running, requests>>

\* Mutant of MarkCompileFailure: the compiler's error is only reported.
ReportCompileFailure(r) ==
    /\ At(r, "syncing")
    /\ Goto(r, "done")
    /\ UNCHANGED <<version, pubs, running, requests>>

\* The compiler answers with an error.
MarkCompileFailure(r) ==
    /\ At(r, "syncing")
    /\ Apply(r, [p \in sync[r].platforms |-> CompileFailed(pubs[p])])
    /\ UNCHANGED <<version, running, requests>>

\* A statement fails, or the process dies: the request reports an error or
\* does not answer.
SyncFails(r) ==
    /\ sync[r].pc \in {"refreshed", "loaded", "ensured", "syncing"}
    /\ Goto(r, "failed")
    /\ UNCHANGED <<version, pubs, running, requests>>
-----------------------------------------------------------------------------
(* The requests of the editors.                                            *)

\* SaveProjectContent, RestoreProjectVersion.
SaveProjectContent ==
    /\ Request
    /\ NewVersion
    /\ pubs' = [p \in DOMAIN pubs |-> MarkDraftsStale(pubs[p])]
    /\ UNCHANGED <<running, sync>>

\* ReconcileSelected.
Reconciled(selected, resetAll) ==
    [p \in DOMAIN pubs \cup selected |->
        IF p \notin DOMAIN pubs THEN PendingPublication
        ELSE IF p \notin selected THEN DisablePublication(pubs[p])
        ELSE IF resetAll \/ PublicationDisabled(pubs[p])
             THEN ResetPublicationForDraft(pubs[p], resetAll)
        ELSE pubs[p]]

UpdateProject(selected) ==
    /\ Request
    /\ selected # {}
    /\ NewVersion
    /\ pubs' = Reconciled(selected, TRUE)
    /\ UNCHANGED <<running, sync>>

SaveProjectPlatforms(selected) ==
    /\ Request
    /\ selected # {}
    /\ pubs' = Reconciled(selected, FALSE)
    /\ UNCHANGED <<version, running, sync>>

\* The user edits a draft with the present content in view.
UpdateProjectPrepublishDraft(p) ==
    /\ Request
    /\ Set(p, SavedDraft(version))
    /\ UNCHANGED <<version, running, sync>>
-----------------------------------------------------------------------------
(* Publishing, as far as it writes the row.                                *)

\* EnqueuePublishProject: the status compared by MarkQueued is the one checked.
QueuePublication(p) ==
    /\ Request
    /\ PreparePublishJob(pubs[p])
    /\ Set(p, MarkQueued(pubs[p]))
    /\ UNCHANGED <<version, running, sync>>

BeginPublishing(p) ==
    /\ Request
    /\ p \notin running
    /\ ~PublicationDisabled(pubs[p]) /\ ~PublicationRequiresSync(pubs[p])
    /\ Set(p, MarkPublishing(pubs[p]))
    /\ running' = running \cup {p}
    /\ UNCHANGED <<version, sync>>

\* CompletePublication or MarkFailed, by ID.
EndPublishing(p) ==
    /\ p \in running
    /\ \E ok \in BOOLEAN : Set(p, CompletedPublication(pubs[p], ok))
    /\ running' = running \ {p}
    /\ UNCHANGED <<version, sync, requests>>

\* publishStaleAfter has passed, or the process that was publishing died.
PublicationTurnsStale(p) ==
    /\ pubs[p].status \in ActivePublicationStatuses /\ ~pubs[p].stale
    /\ Set(p, [pubs[p] EXCEPT !.stale = TRUE])
    /\ running' \in {running, running \ {p}}
    /\ UNCHANGED <<version, sync, requests>>
-----------------------------------------------------------------------------
SyncStep(r) ==
    \/ \E ps \in SUBSET Platforms : LoadProject(r, ps) \/ ApplyCompiledDrafts(r, ps)
    \/ EnsurePublications(r) \/ MarkSyncing(r) \/ MarkCompileFailure(r)

Next ==
    \/ \E r \in Syncs : RefreshSource(r) \/ SyncStep(r) \/ SyncFails(r)
    \/ SaveProjectContent
    \/ \E selected \in SUBSET Platforms : UpdateProject(selected) \/ SaveProjectPlatforms(selected)
    \/ \E p \in DOMAIN pubs :
          \/ UpdateProjectPrepublishDraft(p)
          \/ QueuePublication(p) \/ BeginPublishing(p) \/ EndPublishing(p)
          \/ PublicationTurnsStale(p)

Spec == Init /\ [][Next]_vars

\* A request that began runs on: the compiler's call has a deadline.
Fairness == \A r \in Syncs : WF_vars(SyncStep(r))

FairSpec == Spec /\ Fairness
-----------------------------------------------------------------------------
(***************************************************************************)
(* A sync never touches a publication that is queued or being published,   *)
(* however the publication came to be active since the sync began: through *)
(* a deselection and reselection, a draft edit, or another sync.           *)
(***************************************************************************)
SyncLeavesActiveAlone ==
    [][\A p \in DOMAIN pubs :
          pubs[p].status \in ActivePublicationStatuses /\ sync' # sync => pubs'[p] = pubs[p]]_vars

(***************************************************************************)
(* The empty document is never published: a publication is only queued or  *)
(* published with a draft, though rows are created, disabled and reset in  *)
(* between.                                                                *)
(***************************************************************************)
ActiveHasDraft ==
    \A p \in DOMAIN pubs :
        pubs[p].status \in ActivePublicationStatuses => pubs[p].content # 0

Syncing(p) == p \in DOMAIN pubs /\ pubs[p].status = "syncing"

(***************************************************************************)
(* A publication stays syncing only if a sync of it failed (and its user   *)
(* was told so): overlapping syncs and edits do not leave it behind.       *)
(***************************************************************************)
SyncingEnds ==
    \A p \in Platforms :
        Syncing(p) ~> ~Syncing(p) \/ \E r \in Syncs : At(r, "failed") /\ p \in sync[r].platforms

(***************************************************************************)
(* "to avoid syncing stale content ... after user save": a sync clears the *)
(* stale mark of a save only with a draft of the content that was saved.   *)
(***************************************************************************)
SyncClearsOnlySeenSaves ==
    [][\A p \in DOMAIN pubs :
          /\ sync' # sync
          /\ pubs[p].draftStatus = "stale" /\ pubs'[p].draftStatus = "ready"
          => pubs'[p].content = version]_vars
=============================================================================
