-------------------------- MODULE WorkspaceMembers --------------------------
(***************************************************************************)
(* The members and invites of one workspace                                *)
(* (backend/internal/services/workspace/management.go).                    *)
(*                                                                         *)
(* Statements of a READ COMMITTED transaction are steps unless the row is  *)
(* held.  Somebody who may manage members is always there: the owner, by   *)
(* owner_user_id, whatever his own row says.                               *)
(***************************************************************************)
EXTENDS Naturals

CONSTANTS
    Users,      \* users who may become members
    Owner,      \* owner_user_id
    Roles,      \* roles normalizeWorkspaceMemberRole accepts
    Invites,    \* rows of workspace_invites
    Requests    \* updates, acceptances and revocations in flight

VARIABLES
    roster,     \* role of each person in workspace_members
    invite,     \* rows of workspace_invites
    locked,     \* invites held FOR UPDATE
    task,       \* local state of each request
    removed     \* history: users removed and not admitted again

memberVars == <<roster, invite, locked, task, removed>>

People == Users \cup {Owner}

Invite == [status : {"absent", "pending", "accepted", "expired", "revoked"},
           to : People, role : Roles, late : BOOLEAN]

Task == [pc : {"idle"}] \cup [pc : {"update"}, user : Users, role : Roles]
        \cup [pc : {"accept", "revoke"}, invite : Invites]

MemberTypeOK ==
    /\ roster \in [People -> Roles \cup {"none", "owner"}]
    /\ invite \in [Invites -> Invite]
    /\ locked \subseteq Invites
    /\ task \in [Requests -> Task]
    /\ removed \subseteq Users

\* CreateWorkspace enters its owner.
MemberInit ==
    /\ roster = [p \in People |-> IF p = Owner THEN "owner" ELSE "none"]
    /\ invite \in [Invites -> {v \in Invite : v.status = "absent" /\ ~v.late}]
    /\ locked = {}
    /\ task = [r \in Requests |-> [pc |-> "idle"]]
    /\ removed = {}

BeginTask(r, t) == task[r].pc = "idle" /\ task' = [task EXCEPT ![r] = t]

EndTask(r) == task' = [task EXCEPT ![r] = [pc |-> "idle"]]

Admit(p, role) == roster' = [roster EXCEPT ![p] = role] /\ removed' = removed \ {p}

SetStatus(i, status) == invite' = [invite EXCEPT ![i].status = status]

-----------------------------------------------------------------------------
(* Members                                                                 *)

\* An upsert: what was read before only chooses the activity to record.
AddWorkspaceMember(u, role) ==
    /\ Admit(u, role)
    /\ UNCHANGED <<invite, locked, task>>

\* UpdateWorkspaceMember reads the row before its transaction ...
ReadMember(r, u, role) ==
    /\ roster[u] \notin {"none", role}
    /\ BeginTask(r, [pc |-> "update", user |-> u, role |-> role])
    /\ UNCHANGED <<roster, invite, locked, removed>>

\* Mutant of UpdateMember: the row is saved, and inserted if it is gone.
SaveMember(r) ==
    /\ task[r].pc = "update"
    /\ roster' = [roster EXCEPT ![task[r].user] = task[r].role]
    /\ EndTask(r)
    /\ UNCHANGED <<invite, locked, removed>>

\* ... and updates it where it still is.
UpdateMember(r) ==
    /\ task[r].pc = "update"
    /\ roster' = [roster EXCEPT ![task[r].user] = IF @ = "none" THEN @ ELSE task[r].role]
    /\ EndTask(r)
    /\ UNCHANGED <<invite, locked, removed>>

RemoveWorkspaceMember(u) ==
    /\ roster[u] # "none"
    /\ roster' = [roster EXCEPT ![u] = "none"]
    /\ removed' = removed \cup {u}
    /\ UNCHANGED <<invite, locked, task>>

-----------------------------------------------------------------------------
(* Invites                                                                 *)

\* Anybody's address may be invited, the owner's too.
CreateWorkspaceInvite(i) ==
    /\ invite[i].status = "absent"
    /\ SetStatus(i, "pending")
    /\ UNCHANGED <<roster, locked, task, removed>>

InviteAges(i) ==
    /\ invite[i].status # "absent"
    /\ invite' = [invite EXCEPT ![i].late = TRUE]
    /\ UNCHANGED <<roster, locked, task, removed>>

\* Mutant of LockInvite: the row is read without FOR UPDATE.
ReadInvite(r, i) ==
    /\ invite[i].status = "pending"
    /\ BeginTask(r, [pc |-> "accept", invite |-> i])
    /\ UNCHANGED <<roster, invite, locked, removed>>

\* AcceptWorkspaceInvite, by the addressee: the row is locked and checked ...
LockInvite(r, i) ==
    /\ i \notin locked
    /\ invite[i].status = "pending"
    /\ IF invite[i].late
       THEN SetStatus(i, "expired") /\ UNCHANGED <<locked, task>>
       ELSE /\ BeginTask(r, [pc |-> "accept", invite |-> i])
            /\ locked' = locked \cup {i}
            /\ UNCHANGED invite
    /\ UNCHANGED <<roster, removed>>

\* ... and the member and the outcome are written.
AcceptInvite(r) ==
    /\ task[r].pc = "accept"
    /\ LET i == task[r].invite IN
       /\ Admit(invite[i].to, invite[i].role)
       /\ SetStatus(i, "accepted")
       /\ locked' = locked \ {i}
    /\ EndTask(r)

\* RevokeWorkspaceInvite reads without a lock ...
CheckPending(r, i) ==
    /\ invite[i].status = "pending"
    /\ BeginTask(r, [pc |-> "revoke", invite |-> i])
    /\ UNCHANGED <<roster, invite, locked, removed>>

\* ... and its update waits for the row, but not for its status.
RevokeInvite(r) ==
    /\ task[r].pc = "revoke" /\ task[r].invite \notin locked
    /\ SetStatus(task[r].invite, "revoked")
    /\ EndTask(r)
    /\ UNCHANGED <<roster, locked, removed>>

\* expireWorkspaceInvites, when the invites are listed.
ExpireInvite(i) ==
    /\ i \notin locked
    /\ invite[i].status = "pending" /\ invite[i].late
    /\ SetStatus(i, "expired")
    /\ UNCHANGED <<roster, locked, task, removed>>

-----------------------------------------------------------------------------
MemberNext ==
    \/ \E u \in Users : RemoveWorkspaceMember(u) \/ \E role \in Roles : AddWorkspaceMember(u, role)
    \/ \E i \in Invites : CreateWorkspaceInvite(i) \/ InviteAges(i) \/ ExpireInvite(i)
    \/ \E r \in Requests :
          \/ \E u \in Users, role \in Roles : ReadMember(r, u, role)
          \/ UpdateMember(r) \/ AcceptInvite(r) \/ RevokeInvite(r)
          \/ \E i \in Invites : LockInvite(r, i) \/ CheckPending(r, i)

MemberSpec == MemberInit /\ [][MemberNext]_memberVars

(***************************************************************************)
(* An invite admits only while it is pending, so at most once and never    *)
(* after it was revoked or found expired: acceptance holds its row.        *)
(***************************************************************************)
AdmitsOnlyPending ==
    \A r \in Requests : AcceptInvite(r) => invite[task[r].invite].status = "pending"

AdmitsWhilePending == [][AdmitsOnlyPending]_memberVars

(***************************************************************************)
(* Whoever was removed is no member until somebody adds or invites him     *)
(* again: a change of role that was under way does not bring him back.     *)
(***************************************************************************)
RemovedStaysOut == \A u \in removed : roster[u] = "none"
=============================================================================
