--------------------------- MODULE ProjectSharing ---------------------------
(***************************************************************************)
(* Collaborators and share links of one project in a workspace             *)
(* (backend/internal/services/project/collaborators.go,                    *)
(* experience/share_links.go, services/accesspolicy/accesspolicy.go).      *)
(*                                                                         *)
(* Owner has the project; the roster is WorkspaceMembers' matter and       *)
(* changes at any time.                                                    *)
(***************************************************************************)
EXTENDS Naturals

CONSTANTS
    Guests,     \* users who may become collaborators
    Links,      \* rows of project_share_links
    Errands     \* updates of roles and acceptances of links in flight

VARIABLES
    shared,     \* role of each user in project_collaborators
    place,      \* role of each user in the workspace
    link,       \* rows of project_share_links
    errand,     \* local state of each request
    barred      \* history: users removed and not given access again

sharingVars == <<shared, place, link, errand, barred>>

ProjectRoles == {"viewer", "editor"}

WorkspaceRoles == {"viewer", "member", "admin"}

Link == [status : {"absent", "active", "revoked"}, role : ProjectRoles, late : BOOLEAN]

Errand == [pc : {"idle"}] \cup [pc : {"update", "join"}, user : Guests, role : ProjectRoles]

SharingTypeOK ==
    /\ shared \in [Guests -> ProjectRoles \cup {"none"}]
    /\ place \in [Guests -> WorkspaceRoles \cup {"none"}]
    /\ link \in [Links -> Link]
    /\ errand \in [Errands -> Errand]
    /\ barred \subseteq Guests

SharingInit ==
    /\ shared = [u \in Guests |-> "none"]
    /\ place = [u \in Guests |-> "none"]
    /\ link \in [Links -> {l \in Link : l.status = "absent" /\ ~l.late}]
    /\ errand = [r \in Errands |-> [pc |-> "idle"]]
    /\ barred = {}

BeginErrand(r, t) == errand[r].pc = "idle" /\ errand' = [errand EXCEPT ![r] = t]

EndErrand(r) == errand' = [errand EXCEPT ![r] = [pc |-> "idle"]]

Share(u, role) == shared' = [shared EXCEPT ![u] = role] /\ barred' = barred \ {u}

ProjectRoleForWorkspaceRole(role) ==
    CASE role \in {"admin", "member"} -> "editor" [] role = "viewer" -> "viewer" [] OTHER -> "none"

\* A direct share is looked up before the workspace.
ProjectAccessRole(u) ==
    IF shared[u] # "none" THEN shared[u] ELSE ProjectRoleForWorkspaceRole(place[u])

Rank(role) == CASE role = "none" -> 0 [] role = "viewer" -> 1 [] role = "editor" -> 2

-----------------------------------------------------------------------------
AddProjectCollaborator(u, role) ==
    /\ Share(u, role)
    /\ UNCHANGED <<place, link, errand>>

\* UpdateProjectCollaborator reads the row before its transaction ...
ReadCollaborator(r, u, role) ==
    /\ shared[u] # "none"
    /\ BeginErrand(r, [pc |-> "update", user |-> u, role |-> role])
    /\ UNCHANGED <<shared, place, link, barred>>

\* Mutant: it saves the row it has read, which may be gone.
SaveCollaborator(r) ==
    /\ errand[r].pc = "update"
    /\ shared' = [shared EXCEPT ![errand[r].user] = errand[r].role]
    /\ EndErrand(r)
    /\ UNCHANGED <<place, link, barred>>

\* ... and updates it where it still is.
UpdateCollaborator(r) ==
    /\ errand[r].pc = "update"
    /\ shared' = [shared EXCEPT ![errand[r].user] = IF @ = "none" THEN @ ELSE errand[r].role]
    /\ EndErrand(r)
    /\ UNCHANGED <<place, link, barred>>

RemoveProjectCollaborator(u) ==
    /\ shared[u] # "none"
    /\ shared' = [shared EXCEPT ![u] = "none"]
    /\ barred' = barred \cup {u}
    /\ UNCHANGED <<place, link, errand>>

-----------------------------------------------------------------------------
CreateProjectShareLink(l) ==
    /\ link[l].status = "absent"
    /\ link' = [link EXCEPT ![l].status = "active"]
    /\ UNCHANGED <<shared, place, errand, barred>>

\* AcceptProjectShareLink reads the link and the user's role ...
AcceptProjectShareLink(r, l, u) ==
    /\ link[l].status = "active" /\ ~link[l].late
    /\ Rank(ProjectAccessRole(u)) < Rank(link[l].role)
    /\ BeginErrand(r, [pc |-> "join", user |-> u, role |-> link[l].role])
    /\ UNCHANGED <<shared, place, link, barred>>

\* ... and enters him with the link's.
JoinByLink(r) ==
    /\ errand[r].pc = "join"
    /\ Share(errand[r].user, errand[r].role)
    /\ EndErrand(r)
    /\ UNCHANGED <<place, link>>

RevokeProjectShareLink(l) ==
    /\ link[l].status = "active"
    /\ link' = [link EXCEPT ![l].status = "revoked"]
    /\ UNCHANGED <<shared, place, errand, barred>>

LinkExpires(l) ==
    /\ link[l].status # "absent"
    /\ link' = [link EXCEPT ![l].late = TRUE]
    /\ UNCHANGED <<shared, place, errand, barred>>

RosterChanges(u, role) ==
    /\ place' = [place EXCEPT ![u] = role]
    /\ UNCHANGED <<shared, link, errand, barred>>

-----------------------------------------------------------------------------
SharingNext ==
    \/ \E u \in Guests :
          \/ RemoveProjectCollaborator(u)
          \/ \E role \in ProjectRoles : AddProjectCollaborator(u, role)
          \/ \E role \in WorkspaceRoles \cup {"none"} : RosterChanges(u, role)
    \/ \E l \in Links : CreateProjectShareLink(l) \/ RevokeProjectShareLink(l) \/ LinkExpires(l)
    \/ \E r \in Errands :
          \/ UpdateCollaborator(r) \/ JoinByLink(r)
          \/ \E u \in Guests, role \in ProjectRoles : ReadCollaborator(r, u, role)
          \/ \E l \in Links, u \in Guests : AcceptProjectShareLink(r, l, u)

SharingSpec == SharingInit /\ [][SharingNext]_sharingVars

(***************************************************************************)
(* A collaborator who was removed has at most what the workspace gives     *)
(* him, until he is added or follows a link again: a change of his role    *)
(* that was under way does not bring him back.                             *)
(***************************************************************************)
RemovedIsUnshared == \A u \in barred : shared[u] = "none"
=============================================================================
