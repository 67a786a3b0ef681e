----------------------------- MODULE MCRecords -----------------------------
(***************************************************************************)
(* Components that keep rows, side by side: part says which of them a      *)
(* behaviour is of, and the others stay as they are.                       *)
(*                                                                         *)
(* Publish outbox: two jobs, two dispatchers, three faults.                *)
(* Project lifecycle: three requests of every kind ("life"); or four       *)
(* without saves and updates, which write back a whole row ("calm").       *)
(* Workspace: an owner, a user, an invite, three requests.  Sharing: a     *)
(* user, a link, two requests.                                             *)
(* List cache: two readers, two instances, two changes.  Archive worker:   *)
(* two archivers, two rows, one of them in the older month, two runs.      *)
(* Extension handoff: three callbacks, two events.  Drafting: two runs of  *)
(* two turns, a quota of two queries, two faults.  Template cache: two     *)
(* readers, a template of the user and one of the workspace.               *)
(***************************************************************************)
EXTENDS
    PublishOutbox, WorkspaceMembers, ProjectSharing, ListCache, ContentSetupCache, ExtensionHandoff, ArchiveWorker,
    ProjectLifecycle, AIRun

CONSTANTS q1, q2, q3, q4, u1, owner1

VARIABLE part

keeperVars == <<listVars, archiveVars, handoffVars, aiVars, templateVars>>

peopleVars == <<memberVars, sharingVars>>

all == <<part, vars, lifeVars, peopleVars, keeperVars>>

\* What varies at the start varies only in its own part, and only as far as
\* no renaming of readers, callbacks and events makes two cases one.
AllInit ==
    /\ part \in {"outbox", "life", "calm", "members", "sharing", "lists", "archive", "handoffs", "ai",
                "options"}
    /\ Init /\ MemberInit /\ SharingInit
    /\ ArchiveInit /\ AIInit /\ TemplateInit
    /\ ListInit /\ reader[q1].at = q3
    /\ part = "lists" \/ reader[q2].at = q3
    /\ HandoffInit /\ Event(q1) = u1 /\ Event(q2) = u1
    /\ part = "handoffs" \/ (Event(q3) = u1 /\ \A e \in Reports : status[e] = "failed")
    /\ LifeInit
    /\ part \in {"life", "calm"} \/ versions = <<>>
    /\ part = "members" \/ (invite[q1].to = u1 /\ invite[q1].role = "viewer")
    /\ part = "sharing" \/ link[q1].role = "viewer"

OutboxStep == part = "outbox" /\ Next /\ UNCHANGED <<part, lifeVars, peopleVars, keeperVars>>

LifeStep ==
    /\ part \in {"life", "calm"} /\ LifeNext
    /\ IF part = "life" THEN UNCHANGED req[q4] ELSE NoRowWritten'
    /\ UNCHANGED <<part, vars, peopleVars, keeperVars>>

MembersStep ==
    /\ part = "members" /\ MemberNext
    /\ UNCHANGED <<part, vars, lifeVars, sharingVars, keeperVars>>

SharingStep ==
    /\ part = "sharing" /\ SharingNext
    /\ UNCHANGED <<part, vars, lifeVars, memberVars, keeperVars>>

ListsStep ==
    /\ part = "lists" /\ ListNext
    /\ UNCHANGED <<part, vars, lifeVars, peopleVars, archiveVars, handoffVars, aiVars, templateVars>>

ArchiveStep ==
    /\ part = "archive" /\ ArchiveNext
    /\ runs = 0 => lockedBy' # q2  \* the first to run is q1, by symmetry
    /\ UNCHANGED <<part, vars, lifeVars, peopleVars, listVars, handoffVars, aiVars, templateVars>>

HandoffsStep ==
    /\ part = "handoffs" /\ HandoffNext
    /\ UNCHANGED <<part, vars, lifeVars, peopleVars, listVars, archiveVars, aiVars, templateVars>>

AIStep ==
    /\ part = "ai" /\ AINext
    /\ UNCHANGED <<part, vars, lifeVars, peopleVars, listVars, archiveVars, handoffVars, templateVars>>

OptionsStep ==
    /\ part = "options" /\ TemplateNext
    /\ asker[q1].phase = "new" => asker'[q2].phase = "new"  \* q1 asks first, by symmetry
    /\ UNCHANGED <<part, vars, lifeVars, peopleVars, listVars, archiveVars, handoffVars, aiVars>>

AllNext ==
    \/ OutboxStep \/ LifeStep \/ MembersStep \/ SharingStep \/ ListsStep \/ ArchiveStep \/ HandoffsStep \/ AIStep
    \/ OptionsStep

\* A part that does not run has nothing to dispatch.
AllSpec == AllInit /\ [][AllNext]_all /\ Fairness

PartsTypeOK ==
    /\ TypeOK
    /\ LifeTypeOK /\ MemberTypeOK /\ SharingTypeOK
    /\ ListTypeOK /\ TemplateTypeOK
    /\ HandoffTypeOK /\ ArchiveTypeOK
    /\ AITypeOK
=============================================================================
