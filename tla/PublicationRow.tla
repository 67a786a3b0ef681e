--------------------------- MODULE PublicationRow ---------------------------
(***************************************************************************)
(* The row of project_platform_publications: one publication of a project  *)
(* on one platform.  Every writer of the row is an operator here, so that  *)
(* the modules that interleave the writers share one account of what each  *)
(* statement checks and what it assigns.                                   *)
(*                                                                         *)
(*   enabled, status     the columns of the same names                     *)
(*   draftStatus         draft_status                                      *)
(*   syncRequired        sync_required                                     *)
(*   content             adapted_content: 0 is the empty document "{}",    *)
(*                       n > 0 the draft compiled from (or edited at)      *)
(*                       version n of the project                          *)
(*   stale               last_attempt_at is set and older than             *)
(*                       publishStaleAfter                                 *)
(***************************************************************************)
EXTENDS Naturals

PublicationStatus ==
    {"draft", "syncing", "queued", "publishing", "succeeded", "failed", "cancelled"}

DraftStatus == {"unsynced", "syncing", "ready", "stale"}

Publication(Versions) ==
    [enabled : BOOLEAN, status : PublicationStatus, draftStatus : DraftStatus,
     syncRequired : BOOLEAN, content : Versions, stale : BOOLEAN]

PendingPublication ==
    [enabled |-> TRUE, status |-> "draft", draftStatus |-> "unsynced",
     syncRequired |-> TRUE, content |-> 0, stale |-> FALSE]

ActivePublicationStatuses == {"queued", "publishing"}

\* Mutant of PublicationHasSyncedDraft: the draft's status instead of the draft.
PublicationWasSynced(pub) == pub.draftStatus \in {"ready", "stale"}

PublicationHasSyncedDraft(pub) == pub.content # 0

PublicationDisabled(pub) == ~pub.enabled \/ pub.status = "cancelled"

PublicationPublishingStale(pub) ==
    pub.status \in ActivePublicationStatuses /\ pub.stale
-----------------------------------------------------------------------------
(* The checks of the publish service.                                      *)

PreparePublishJob(pub) ==
    /\ ~PublicationDisabled(pub)
    /\ pub.status \in ActivePublicationStatuses => PublicationPublishingStale(pub)
    /\ pub.status # "syncing"
    /\ PublicationHasSyncedDraft(pub) \/ pub.status = "publishing"

PublicationRetriableForJob(pub) ==
    ~PublicationDisabled(pub) /\ pub.status \in {"queued", "publishing", "failed"}

\* The check of PublishProjectInWorkspaceWithContext on the row it read.
PublicationRequiresSync(pub) ==
    \/ pub.status = "syncing"
    \/ ~PublicationHasSyncedDraft(pub) /\ pub.status \notin ActivePublicationStatuses
-----------------------------------------------------------------------------
(* The assignments of the publish service.                                 *)

MarkQueued(pub) == [pub EXCEPT !.status = "queued", !.stale = FALSE]

\* Mutant of MarkPublishing: the status of a schedule written to the row.
MarkPublishingAsRunning(pub) == [pub EXCEPT !.status = "running", !.stale = FALSE]

MarkPublishing(pub) == [pub EXCEPT !.status = "publishing", !.stale = FALSE]

MarkFailed(pub) == [pub EXCEPT !.status = "failed"]

CompletedPublication(pub, ok) ==
    [pub EXCEPT !.status = IF ok THEN "succeeded" ELSE "failed"]
-----------------------------------------------------------------------------
(* The assignments of the editing services.                                *)

DisablePublication(pub) == [pub EXCEPT !.enabled = FALSE, !.status = "cancelled"]

\* SaveProjectPlatforms resets a disabled row (ReconcileKeepActive); Update-
\* Project resets every row (ReconcileResetAll) and clears last_attempt_at.
ResetPublicationForDraft(pub, resetAll) ==
    [pub EXCEPT !.enabled = TRUE,
                !.status = "draft",
                !.syncRequired = TRUE,
                !.draftStatus = IF resetAll THEN "stale" ELSE "unsynced",
                !.stale = IF resetAll THEN FALSE ELSE @]

MarkDraftsStale(pub) ==
    IF pub.enabled /\ pub.status \notin ActivePublicationStatuses \cup {"succeeded"}
    THEN [pub EXCEPT !.draftStatus = "stale", !.syncRequired = TRUE]
    ELSE pub

\* ensurePrepublishPublications on an existing row.
EnsurePrepublishPublication(pub) ==
    IF PublicationDisabled(pub)
    THEN [pub EXCEPT !.enabled = TRUE, !.status = "draft",
                     !.draftStatus = "unsynced", !.syncRequired = TRUE]
    ELSE pub

MarkPrepublishSyncing(pub) ==
    [pub EXCEPT !.status = "syncing", !.draftStatus = "syncing"]

\* The draft saved by a finished sync (applyCompiledPrepublishDrafts) or by
\* the user (UpdateProjectPrepublishDraft); both clear last_attempt_at.
SavedDraft(version) ==
    [enabled |-> TRUE, status |-> "draft", draftStatus |-> "ready",
     syncRequired |-> FALSE, content |-> version, stale |-> FALSE]

\* markPrepublishCompileFailure: the compiler returned an error.
CompileFailed(pub) ==
    [pub EXCEPT !.status = "failed", !.draftStatus = "stale", !.syncRequired = TRUE]

\* The compiler answered without a draft for this platform.
DraftMissing(pub) == [pub EXCEPT !.status = "failed"]

\* extensionPublicationUpdatesForEvent; other event kinds change nothing.
ExtensionPublicationUpdate(pub, kind) ==
    CASE kind = "user_review" -> [pub EXCEPT !.status = "draft", !.draftStatus = "ready"]
      [] kind = "failed"      -> [pub EXCEPT !.status = "failed"]
=============================================================================
