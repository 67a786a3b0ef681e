---------------------------- MODULE ProjectListing ----------------------------
(***************************************************************************)
(* The administrator's list of all projects, page after page               *)
(* (backend/internal/services/project/list.go, listing/cursor.go), read    *)
(* from the summaries when there are as many as projects and from the      *)
(* projects otherwise; and what keeps the summaries                        *)
(* (backend/internal/services/readmodel/service.go): a refresh after every *)
(* change, and a rebuild of all.  Queries are separate statements.         *)
(*                                                                         *)
(* The cache in front of the list is ListCache; one database, no replica.  *)
(***************************************************************************)
EXTENDS Naturals, FiniteSetsExt, SequencesExt

CONSTANTS
    Projects,          \* ids; 0 is none of them
    CreatedAt,         \* some are equal
    Start,             \* the projects there at the start, with their summaries
    PageSize,          \* projects on a page (the limit, 1 or more)
    BatchSize,         \* rebuildProjectBatchSize
    MaxProjectChanges  \* bound: projects created and deleted

ASSUME ListingAssumption ==
    /\ IsFiniteSet(Projects) /\ Projects \subseteq Nat \ {0}
    /\ CreatedAt \in [Projects -> Nat] /\ Start \subseteq Projects
    /\ PageSize \in Nat \ {0} /\ BatchSize \in Nat \ {0} /\ MaxProjectChanges \in Nat

VARIABLES
    rows, summaries,  \* the ids in projects and in project_list_summaries
    created,          \* ids are used once
    changes,
    refresh,          \* [Projects -> the refresh of that project]
    rebuild,          \* phase, projects read, the last id of the batches so far
    walk,             \* phase, cursor, the count of summaries, items so far
    stayed            \* history: the projects whose rows (and for the walk, summaries) have
                      \* been there since the walk and the rebuild began

listingVars == <<rows, summaries, created, changes, refresh, rebuild, walk, stayed>>

ListingInit ==
    /\ rows = Start /\ summaries = Start /\ created = Start /\ changes = 0
    /\ refresh = [p \in Projects |-> "none"]
    /\ rebuild = [phase |-> "idle", batch |-> {}, last |-> 0]
    /\ walk = [phase |-> "idle", cursor |-> 0, counted |-> 0, items |-> <<>>]
    /\ stayed = [walk |-> {}, rebuild |-> {}]

\* Whoever reads loses a project from stayed when a row or a summary goes.
Keep(r, s) ==
    /\ rows' = r /\ summaries' = s
    /\ stayed' = [walk |-> stayed.walk \cap r \cap s, rebuild |-> stayed.rebuild \cap r]

Change == changes < MaxProjectChanges /\ changes' = changes + 1

CreateProject(p) ==
    /\ p \notin created /\ Change
    /\ created' = created \cup {p}
    /\ Keep(rows \cup {p}, summaries)
    /\ refresh' = [refresh EXCEPT ![p] = "read"]
    /\ UNCHANGED <<rebuild, walk>>

\* A project that changed is refreshed; so is one whose refresh did not come through.
UpdateProject(p) ==
    /\ p \in rows /\ refresh[p] = "none" /\ Change
    /\ refresh' = [refresh EXCEPT ![p] = "read"]
    /\ UNCHANGED <<rows, summaries, created, rebuild, walk, stayed>>

\* The deleting transaction takes the summary along.
DeleteProject(p) ==
    /\ p \in rows /\ Change
    /\ Keep(rows \ {p}, summaries \ {p})
    /\ UNCHANGED <<created, refresh, rebuild, walk>>

(***************************************************************************)
(* RefreshProject, in the background.                                      *)
(***************************************************************************)

refreshProjectSummary(p) ==
    /\ refresh[p] = "read"
    /\ refresh' = [refresh EXCEPT ![p] = IF p \in rows THEN "upsert" ELSE "delete"]
    /\ UNCHANGED <<rows, summaries, created, changes, rebuild, walk, stayed>>

upsertProjectSummaries(p) ==
    /\ refresh[p] = "upsert"
    /\ Keep(rows, summaries \cup {p})
    /\ refresh' = [refresh EXCEPT ![p] = "none"]
    /\ UNCHANGED <<created, changes, rebuild, walk>>

DeleteSummary(p) ==
    /\ refresh[p] = "delete"
    /\ Keep(rows, summaries \ {p})
    /\ refresh' = [refresh EXCEPT ![p] = "none"]
    /\ UNCHANGED <<created, changes, rebuild, walk>>

\* The error is logged.
RefreshFails(p) ==
    /\ refresh[p] # "none"
    /\ refresh' = [refresh EXCEPT ![p] = "none"]
    /\ UNCHANGED <<rows, summaries, created, changes, rebuild, walk, stayed>>

(***************************************************************************)
(* RebuildDashboard: orphans go, then all projects in batches by id.       *)
(***************************************************************************)

StartRebuild ==
    /\ rebuild.phase = "idle"
    /\ summaries' = summaries \cap rows
    /\ stayed' = [walk |-> stayed.walk \cap summaries', rebuild |-> rows]
    /\ rebuild' = [rebuild EXCEPT !.phase = "find"]
    /\ UNCHANGED <<rows, created, changes, refresh, walk>>

FindInBatches ==
    LET later == {p \in rows : p > rebuild.last}
        batch == {p \in later : Cardinality({q \in later : q < p}) < BatchSize} IN
    /\ rebuild.phase = "find"
    /\ rebuild' = [rebuild EXCEPT !.phase = IF batch = {} THEN "done" ELSE "upsert", !.batch = batch]
    /\ UNCHANGED <<rows, summaries, created, changes, refresh, walk, stayed>>

\* A batch that is not full is the last one.
UpsertBatch ==
    /\ rebuild.phase = "upsert"
    /\ Keep(rows, summaries \cup rebuild.batch)
    /\ rebuild' = [phase |-> IF Cardinality(rebuild.batch) < BatchSize THEN "done" ELSE "find",
                   batch |-> {}, last |-> Max(rebuild.batch)]
    /\ UNCHANGED <<created, changes, refresh, walk>>

(***************************************************************************)
(* The walk: each page counts twice and then reads.                        *)
(***************************************************************************)

\* created_at DESC, id ASC.
Before(p, q) == CreatedAt[p] > CreatedAt[q] \/ (CreatedAt[p] = CreatedAt[q] /\ p < q)

CountSummaries ==
    /\ walk.phase \in {"idle", "next"}
    /\ walk' = [walk EXCEPT !.phase = IF summaries = {} THEN "facts" ELSE "counted",
                            !.counted = Cardinality(summaries)]
    /\ stayed' = [stayed EXCEPT !.walk = IF walk.phase = "idle" THEN rows \cap summaries ELSE @]
    /\ UNCHANGED <<rows, summaries, created, changes, refresh, rebuild>>

CountFacts ==
    /\ walk.phase = "counted"
    /\ walk' = [walk EXCEPT !.phase = IF walk.counted = Cardinality(rows) THEN "summaries" ELSE "facts"]
    /\ UNCHANGED <<rows, summaries, created, changes, refresh, rebuild, stayed>>

\* Mutant of ApplyCursorColumns: the id does not break a tie.
ApplyCreatedAtOnly(from) ==
    IF walk.cursor = 0 THEN from ELSE {p \in from : CreatedAt[p] < CreatedAt[walk.cursor]}

ApplyCursorColumns(from) ==
    IF walk.cursor = 0 THEN from ELSE {p \in from : Before(walk.cursor, p)}

\* ORDER BY: the i-th has i - 1 before it.
InOrder(page) ==
    [i \in 1 .. Cardinality(page) |-> CHOOSE p \in page : Cardinality({q \in page : Before(q, p)}) = i - 1]

\* One row more than the page holds tells whether there are more.
Page(from) ==
    LET after == ApplyCursorColumns(from)
        page == {p \in after : Cardinality({q \in after : Before(q, p)}) < PageSize}
        hasMore == page # after
    IN  walk' = [phase |-> IF hasMore THEN "next" ELSE "done",
                 cursor |-> IF hasMore THEN CHOOSE p \in page : \A q \in page \ {p} : Before(q, p) ELSE 0,
                 counted |-> 0,
                 items |-> walk.items \o InOrder(page)]

ListProjectSummaryPage ==
    /\ walk.phase = "summaries" /\ Page(summaries)
    /\ UNCHANGED <<rows, summaries, created, changes, refresh, rebuild, stayed>>

ListProjectPage ==
    /\ walk.phase = "facts" /\ Page(rows)
    /\ UNCHANGED <<rows, summaries, created, changes, refresh, rebuild, stayed>>

ListingNext ==
    \/ \E p \in Projects :
          \/ CreateProject(p) \/ UpdateProject(p) \/ DeleteProject(p)
          \/ refreshProjectSummary(p) \/ upsertProjectSummaries(p) \/ DeleteSummary(p) \/ RefreshFails(p)
    \/ StartRebuild \/ FindInBatches \/ UpsertBatch
    \/ CountSummaries \/ CountFacts \/ ListProjectSummaryPage \/ ListProjectPage

ListingSpec == ListingInit /\ [][ListingNext]_listingVars

(* The variables keep their types. *)
ListingTypeOK ==
    /\ rows \subseteq created /\ summaries \subseteq created /\ created \subseteq Projects
    /\ changes \in 0 .. MaxProjectChanges
    /\ refresh \in [Projects -> {"none", "read", "upsert", "delete"}]
    /\ rebuild \in [phase : {"idle", "find", "upsert", "done"}, batch : SUBSET Projects,
                    last : Projects \cup {0}]
    /\ walk \in [phase : {"idle", "next", "counted", "summaries", "facts", "done"},
                 cursor : Projects \cup {0}, counted : Nat, items : Seq(Projects)]
    /\ stayed \in [walk : SUBSET Projects, rebuild : SUBSET Projects]

(* A walk shows no project twice, and every project that was there throughout, although its    *)
(* pages come from different tables, from counts taken before, and while projects come and go. *)
WalkIsComplete ==
    /\ \A i, j \in DOMAIN walk.items : walk.items[i] = walk.items[j] => i = j
    /\ walk.phase = "done" => stayed.walk \subseteq Range(walk.items)

(* After a rebuild every project that was there throughout has a summary, although refreshes *)
(* that read a project before it was created or deleted write in between.                    *)
RebuildIsComplete == rebuild.phase = "done" => stayed.rebuild \subseteq summaries

(* Neither the administrator's walk (list.go) nor a rebuild (readmodel/service.go) misses a *)
(* project that was there throughout.                                                        *)
ListIsComplete == WalkIsComplete /\ RebuildIsComplete
=============================================================================
