-------------------------- MODULE ProjectLifecycle --------------------------
(***************************************************************************)
(* One project, its versions and its collaboration documents               *)
(* (backend/internal/services/project: lifecycle.go, delete.go,            *)
(* collaboration.go, experience/versions.go).                              *)
(*                                                                         *)
(* A request reads the row, may let collab-service write the text of its   *)
(* document into it, and then writes the row it read as a whole.  A text   *)
(* is named by the request that wrote it, a document by the session that   *)
(* made it; what is inside a document is CollabDocument's matter, and the  *)
(* publications are PrepublishSync's.  Access has been granted.            *)
(***************************************************************************)
EXTENDS Naturals, Sequences, FiniteSets

CONSTANTS
    LifeRequests, \* API requests and edits in a document
    Original,     \* the text the project was created with
    None          \* no document, no text

ASSUME LifeAssumption == Original \notin LifeRequests /\ None \notin LifeRequests /\ None # Original

VARIABLES
    project,    \* row of projects
    versions,   \* texts of its rows of project_versions, by number
    text,       \* text of each document; None until it is initialised
    sessions,   \* documents that clients have a session for
    req,        \* local state of each request
    old         \* history: texts that a restore replaced

lifeVars == <<project, versions, text, sessions, req, old>>

Docs == LifeRequests

Texts == LifeRequests \cup {Original}

Kinds == {"save", "update", "sync", "restore", "delete", "session", "edit"}

Row == [alive : BOOLEAN, content : Texts, doc : Docs \cup {None}]

\* row: the row it read; took: the text it had from the document; synced:
\* whether the document was written to the row for it.
Request == [kind : Kinds \cup {"none"},
            pc : {"idle", "load", "write back", "reread", "write", "initialise", "done"},
            row : Row, took : Texts \cup {None}, synced : BOOLEAN]

Created == [alive |-> TRUE, content |-> Original, doc |-> None]

LifeTypeOK ==
    /\ project \in Row
    /\ \A n \in DOMAIN versions : versions[n] \in Texts
    /\ text \in [Docs -> Texts \cup {None}]
    /\ sessions \subseteq Docs
    /\ req \in [LifeRequests -> Request]
    /\ old \subseteq Texts

\* CreateProject keeps no version; the first save does.
LifeInit ==
    /\ project = Created
    /\ versions \in {<<>>, <<Original>>}
    /\ text = [d \in Docs |-> None]
    /\ sessions = {}
    /\ req = [r \in LifeRequests |-> [kind |-> "none", pc |-> "idle", row |-> Created, took |-> None, synced |-> FALSE]]
    /\ old = {}

Comes(r) == req[r].pc = "idle"

Attached == project.doc # None

Materialized == Attached /\ text[project.doc] # None

Reads(r, kind, pc) ==
    req' = [req EXCEPT ![r] = [@ EXCEPT !.kind = kind, !.pc = pc, !.row = project]]

Goto(r, pc) == req' = [req EXCEPT ![r].pc = pc]

-----------------------------------------------------------------------------
(* SaveProjectContent, UpdateProject and SyncProjectCollabSourceContent    *)

BeginSave(r) ==
    /\ Comes(r) /\ project.alive
    /\ Reads(r, "save", IF Materialized THEN "load" ELSE "write")
    /\ UNCHANGED <<project, versions, text, sessions, old>>

BeginUpdate(r) ==
    /\ Comes(r) /\ project.alive
    /\ Reads(r, "update", IF Materialized THEN "load" ELSE "reread")
    /\ UNCHANGED <<project, versions, text, sessions, old>>

BeginSync(r) ==
    /\ Comes(r) /\ project.alive
    /\ Reads(r, "sync", IF Attached THEN "load" ELSE "done")
    /\ UNCHANGED <<project, versions, text, sessions, old>>

\* collab-service answers 404 when no project has the document.
DocumentOf(d) == project.alive /\ project.doc = d

Initialized(d) == IF text[d] = None THEN [text EXCEPT ![d] = project.content] ELSE text

\* Mutant of LoadDocument: a document that was never opened has no text yet.
LoadUninitialized(r) ==
    LET d == req[r].row.doc IN
    /\ req[r].pc = "load"
    /\ IF DocumentOf(d)
       THEN req' = [req EXCEPT ![r].pc = "write back", ![r].took = text[d]]
       ELSE Goto(r, "done")
    /\ UNCHANGED <<project, versions, text, sessions, old>>

\* collab-service takes the text of the document the request named ...
LoadDocument(r) ==
    LET d == req[r].row.doc IN
    /\ req[r].pc = "load"
    /\ IF DocumentOf(d)
       THEN /\ text' = Initialized(d)
            /\ req' = [req EXCEPT ![r].pc = "write back", ![r].took = text'[d]]
       ELSE UNCHANGED text /\ Goto(r, "done")
    /\ UNCHANGED <<project, versions, sessions, old>>

\* ... and writes it to the row that still has this document.
WriteBack(r) ==
    /\ req[r].pc = "write back"
    /\ project' = IF DocumentOf(req[r].row.doc) THEN [project EXCEPT !.content = req[r].took] ELSE project
    /\ req' = [req EXCEPT ![r].synced = TRUE, ![r].pc = IF req[r].kind = "sync" THEN "done" ELSE "reread"]
    /\ UNCHANGED <<versions, text, sessions, old>>

ReadAgain(r) ==
    /\ req[r].pc = "reread"
    /\ IF project.alive THEN Reads(r, req[r].kind, "write") ELSE Goto(r, "done")
    /\ UNCHANGED <<project, versions, text, sessions, old>>

Saved(r) ==
    LET row == req[r].row IN
    [row EXCEPT !.content = IF row.doc = None \/ ~req[r].synced THEN r ELSE @]

\* Mutant of WriteRow: the version has the content from before the save.
WriteRowLate(r) ==
    /\ req[r].pc = "write"
    /\ project' = Saved(r)
    /\ versions' = Append(versions, req[r].row.content)
    /\ Goto(r, "done")
    /\ UNCHANGED <<text, sessions, old>>

\* gorm's Save updates every column, and inserts the row if there is none;
\* the same transaction keeps a version.
WriteRow(r) ==
    /\ req[r].pc = "write"
    /\ project' = Saved(r)
    /\ versions' = Append(versions, project'.content)
    /\ Goto(r, "done")
    /\ UNCHANGED <<text, sessions, old>>

-----------------------------------------------------------------------------
(* RestoreProjectVersion and DeleteProject                                 *)

Written == {project.content} \cup ({text[d] : d \in Docs} \ {None})

RestoreProjectVersion(r, n) ==
    /\ Comes(r) /\ project.alive
    /\ project' = [project EXCEPT !.content = versions[n], !.doc = None]
    /\ versions' = Append(versions, versions[n])
    /\ Reads(r, "restore", "done")
    /\ old' = Written \ {versions[n]}
    /\ UNCHANGED <<text, sessions>>

\* With everything that belongs to it; documents stay.
DeleteProject(r) ==
    /\ Comes(r) /\ project.alive
    /\ project' = [project EXCEPT !.alive = FALSE]
    /\ versions' = <<>>
    /\ Reads(r, "delete", "done")
    /\ UNCHANGED <<text, sessions, old>>

-----------------------------------------------------------------------------
(* CreateProjectCollabSession, and edits                                   *)

EnsureProjectCollabDocument(r) ==
    /\ Comes(r) /\ project.alive
    /\ LET d == IF Attached THEN project.doc ELSE r IN
       /\ project' = [project EXCEPT !.doc = d]
       /\ req' = [req EXCEPT ![r] = [@ EXCEPT !.kind = "session", !.pc = "initialise", !.row = project']]
    /\ UNCHANGED <<versions, text, sessions, old>>

InitializeProjectDocument(r) ==
    LET d == req[r].row.doc IN
    /\ req[r].pc = "initialise"
    /\ IF DocumentOf(d) THEN text' = Initialized(d) /\ sessions' = sessions \cup {d}
       ELSE UNCHANGED <<text, sessions>>
    /\ Goto(r, "done")
    /\ UNCHANGED <<project, versions, old>>

\* A client edits: a session outlives the document's place in the project.
EditDocument(r, d) ==
    /\ Comes(r)
    /\ d \in sessions
    /\ text' = [text EXCEPT ![d] = r]
    /\ Reads(r, "edit", "done")
    /\ UNCHANGED <<project, versions, sessions, old>>

-----------------------------------------------------------------------------
RequestStep(r) ==
    \/ BeginSave(r) \/ BeginUpdate(r) \/ BeginSync(r)
    \/ LoadDocument(r) \/ WriteBack(r) \/ ReadAgain(r) \/ WriteRow(r)
    \/ \E n \in DOMAIN versions : RestoreProjectVersion(r, n)
    \/ DeleteProject(r)
    \/ EnsureProjectCollabDocument(r) \/ InitializeProjectDocument(r)
    \/ \E d \in Docs : EditDocument(r, d)

LifeNext == \E r \in LifeRequests : RequestStep(r)

LifeSpec == LifeInit /\ [][LifeNext]_lifeVars

-----------------------------------------------------------------------------
(***************************************************************************)
(* The newest version gives back what the project holds, unless a text of  *)
(* its document was written to the row: save, update and restore keep      *)
(* their version in the transaction that writes the row, whatever row they *)
(* read before.                                                            *)
(***************************************************************************)
VersionHoldsContent ==
    project.alive /\ versions # <<>> =>
        \/ project.content = versions[Len(versions)]
        \/ \E r \in LifeRequests : req[r].synced /\ req[r].took = project.content

(***************************************************************************)
(* What a restore replaced does not come back by itself: a sync that took  *)
(* the text of the detached document before does not write it.  A save or  *)
(* an update may: it writes the whole row that it read.                    *)
(***************************************************************************)
RestoreSticks == project.alive => project.content \notin old

NoRowWritten == \A r \in LifeRequests : req[r].kind \notin {"save", "update"}

(* In a version, and after a restore. *)
ContentKept == VersionHoldsContent /\ (NoRowWritten => RestoreSticks)
=============================================================================
