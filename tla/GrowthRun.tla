------------------------------ MODULE GrowthRun ------------------------------
(***************************************************************************)
(* One growth optimization run of the AI drafting service                  *)
(* (backend/internal/services/ai/growth_service.go): it reads the base     *)
(* versions of the project and of the drafts it is asked about, has a      *)
(* model stream proposals, reads the versions again and keeps the          *)
(* proposals only when nothing changed.  Every query and statement is a    *)
(* step; people and the sync change the project and the drafts meanwhile.  *)
(*                                                                         *)
(* What a draft or the source says is a number that every change raises; a *)
(* draft may also go.  A cancelled run counts as failed.                   *)
(***************************************************************************)
EXTENDS Naturals

CONSTANTS
    Platforms,      \* all platforms
    Targets,        \* those the run is asked about
    MaxEdits,       \* bound: changes
    MaxGrowthFaults \* bound: queries and statements that fail

ASSUME GrowthAssumption ==
    /\ MaxEdits \in Nat /\ MaxGrowthFaults \in Nat
    /\ Targets \subseteq Platforms
    /\ "source" \notin Platforms /\ "version" \notin Platforms

NoDraft == MaxEdits + 1

VARIABLES
    source,     \* title and source content
    version,    \* the newest project version
    draft,      \* [Platforms -> what its draft says, or NoDraft]
    edits,
    run,        \* step, status of its row, and whether the row is there
    base, current,  \* the versions read, each from three queries
    events,     \* the platforms the model proposed something for
    proposals,  \* the platforms of the proposals kept
    disturbed,  \* history: what changed after its base was read and before the check began
    growthFaults

growthVars == <<source, version, draft, edits, run, base, current, events, proposals, disturbed, growthFaults>>

Nothing == [source |-> 0, version |-> 0, drafts |-> [p \in Targets |-> NoDraft]]

GrowthInit ==
    /\ source = 0 /\ version = 0 /\ edits = 0
    /\ draft \in [Platforms -> {0, NoDraft}]
    /\ run = [step |-> "project", status |-> "none"]
    /\ base = Nothing /\ current = Nothing
    /\ events = {} /\ proposals = {} /\ disturbed = {} /\ growthFaults = 0

Edit == edits < MaxEdits /\ edits' = edits + 1

\* What a change concerns is disturbed while the run is between its two readings of it.
Disturb(what, since) ==
    disturbed' = IF run.step \in since \cup {"insert", "stream"} THEN disturbed \cup {what} ELSE disturbed

EditSource ==
    /\ Edit /\ source' = source + 1
    /\ Disturb("source", {"version", "drafts"})
    /\ UNCHANGED <<version, draft, run, base, current, events, proposals, growthFaults>>

CreateVersion ==
    /\ Edit /\ version' = version + 1
    /\ Disturb("version", {"drafts"})
    /\ UNCHANGED <<source, draft, run, base, current, events, proposals, growthFaults>>

\* A sync, an edit, a publication or a deselection: created, changed or removed.
ChangeDraft(p) ==
    /\ Edit
    /\ \/ draft' = [draft EXCEPT ![p] = edits']
       \/ draft[p] # NoDraft /\ draft' = [draft EXCEPT ![p] = NoDraft]
    /\ Disturb(p, {})
    /\ UNCHANGED <<source, version, run, base, current, events, proposals, growthFaults>>

RunGoes(from, to) == run.step = from /\ run' = [run EXCEPT !.step = to]

Untouched == UNCHANGED <<source, version, draft, edits, disturbed>>

(***************************************************************************)
(* growthProposalBaseVersions, for the base and for the check.             *)
(***************************************************************************)

ReadBaseProject ==
    /\ RunGoes("project", "version") /\ base' = [base EXCEPT !.source = source]
    /\ Untouched /\ UNCHANGED <<current, events, proposals, growthFaults>>

ReadBaseVersion ==
    /\ RunGoes("version", "drafts") /\ base' = [base EXCEPT !.version = version]
    /\ Untouched /\ UNCHANGED <<current, events, proposals, growthFaults>>

DraftsNow == [p \in Targets |-> draft[p]]

ReadBaseDrafts ==
    /\ RunGoes("drafts", "insert") /\ base' = [base EXCEPT !.drafts = DraftsNow]
    /\ Untouched /\ UNCHANGED <<current, events, proposals, growthFaults>>

ReadCurrentProject ==
    /\ RunGoes("check project", "check version") /\ current' = [current EXCEPT !.source = source]
    /\ Untouched /\ UNCHANGED <<base, events, proposals, growthFaults>>

ReadCurrentVersion ==
    /\ RunGoes("check version", "check drafts") /\ current' = [current EXCEPT !.version = version]
    /\ Untouched /\ UNCHANGED <<base, events, proposals, growthFaults>>

ReadCurrentDrafts ==
    /\ RunGoes("check drafts", "compare") /\ current' = [current EXCEPT !.drafts = DraftsNow]
    /\ Untouched /\ UNCHANGED <<base, events, proposals, growthFaults>>

(***************************************************************************)
(* CreateRun                                                               *)
(***************************************************************************)

InsertRun ==
    /\ run.step = "insert" /\ run' = [step |-> "stream", status |-> "running"]
    /\ Untouched /\ UNCHANGED <<base, current, events, proposals, growthFaults>>

\* Any platform may come back from the model, asked for or not.
readGrowthOptimizationEvents ==
    /\ RunGoes("stream", "check project") /\ events' \in SUBSET Platforms
    /\ Untouched /\ UNCHANGED <<base, current, proposals, growthFaults>>

\* Mutant of compareGrowthProposalBaseVersions: a draft that was not there before is not looked at.
compareKnownDrafts ==
    /\ base.source = current.source /\ base.version = current.version
    /\ \A p \in Targets : base.drafts[p] # NoDraft => base.drafts[p] = current.drafts[p]

compareGrowthProposalBaseVersions ==
    /\ base.source = current.source /\ base.version = current.version
    /\ \A p \in Targets : base.drafts[p] = current.drafts[p]

Compare ==
    /\ RunGoes("compare", IF compareGrowthProposalBaseVersions THEN "compile" ELSE "fail")
    /\ Untouched /\ UNCHANGED <<base, current, events, proposals, growthFaults>>

\* Proposals for other platforms, and those that do not compile, are left out.
CompileCandidates ==
    /\ run.step = "compile"
    /\ \E kept \in SUBSET (events \cap Targets) :
          /\ events' = kept
          /\ run' = [run EXCEPT !.step = IF kept = {} THEN "fail" ELSE "save"]
    /\ Untouched /\ UNCHANGED <<base, current, proposals, growthFaults>>

SaveRunAndProposals ==
    /\ run.step = "save" /\ run' = [step |-> "done", status |-> "ready"]
    /\ proposals' = events
    /\ Untouched /\ UNCHANGED <<base, current, events, growthFaults>>

finishRunWithError ==
    /\ run.step = "fail" /\ run' = [step |-> "done", status |-> "failed"]
    /\ Untouched /\ UNCHANGED <<base, current, events, proposals, growthFaults>>

\* Before the row is there, in its transaction, and in the update that would mark it failed,
\* an error ends the request and leaves the row as it is; elsewhere the run is marked.
RunStepFails ==
    /\ growthFaults < MaxGrowthFaults /\ growthFaults' = growthFaults + 1
    /\ run.step \notin {"compare", "done"}
    /\ run' = [run EXCEPT !.step = IF @ \in {"project", "version", "drafts", "insert", "save", "fail"}
                                     THEN "done" ELSE "fail"]
    /\ Untouched /\ UNCHANGED <<base, current, events, proposals>>

GrowthNext ==
    \/ EditSource \/ CreateVersion \/ \E p \in Platforms : ChangeDraft(p)
    \/ ReadBaseProject \/ ReadBaseVersion \/ ReadBaseDrafts
    \/ InsertRun \/ readGrowthOptimizationEvents
    \/ ReadCurrentProject \/ ReadCurrentVersion \/ ReadCurrentDrafts
    \/ Compare \/ CompileCandidates \/ SaveRunAndProposals \/ finishRunWithError \/ RunStepFails

GrowthSpec == GrowthInit /\ [][GrowthNext]_growthVars

Base == [source : 0 .. MaxEdits, version : 0 .. MaxEdits, drafts : [Targets -> 0 .. NoDraft]]

(* The variables keep their types. *)
GrowthTypeOK ==
    /\ source \in 0 .. MaxEdits /\ version \in 0 .. MaxEdits /\ edits \in 0 .. MaxEdits
    /\ draft \in [Platforms -> 0 .. NoDraft]
    /\ run \in [step : {"project", "version", "drafts", "insert", "stream", "check project", "check version",
                        "check drafts", "compare", "compile", "save", "fail", "done"},
                status : {"none", "running", "ready", "failed"}]
    /\ base \in Base /\ current \in Base
    /\ events \subseteq Platforms /\ proposals \subseteq Platforms
    /\ disturbed \subseteq {"source", "version"} \cup Platforms /\ growthFaults \in 0 .. MaxGrowthFaults

(* Proposals are kept only with a run that is ready, for platforms it was asked about, and only *)
(* when the source, the versions and those drafts stayed as they were from the reading of the   *)
(* base until the check, except for a draft that came and went.                                 *)
ProposalsOnBase ==
    /\ run.status = "ready" <=> proposals # {}
    /\ proposals \subseteq Targets
    /\ proposals # {} => disturbed \cap ({"source", "version"} \cup Targets) \subseteq
          {p \in Targets : base.drafts[p] = NoDraft /\ current.drafts[p] = NoDraft}
=============================================================================
