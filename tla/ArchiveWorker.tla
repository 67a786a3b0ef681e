----------------------------- MODULE ArchiveWorker -----------------------------
(***************************************************************************)
(* The archive worker of one table                                         *)
(* (backend/internal/services/archive/worker.go, partitions.go).           *)
(*                                                                         *)
(* Every backend runs one; a run holds an advisory lock, copies what is    *)
(* older than the retention to object storage and removes it: first the    *)
(* monthly partition that is cold as a whole, then single rows in batches. *)
(* Rows come, close and go with their projects meanwhile.                  *)
(***************************************************************************)
EXTENDS Naturals, FiniteSets

CONSTANTS
    Archivers,
    Rows,
    Early,     \* the rows of the older month, in a partition of their own
    BatchSize,
    MaxRuns,   \* bound: runs that take the lock
    NoArchiver

ASSUME ArchiveAssumption == IsFiniteSet(Rows) /\ MaxRuns \in Nat

VARIABLES
    table,     \* rows in the table
    born,      \* history: rows ever inserted
    closed,    \* rows that can not change any more (terminal sessions, events)
    claims,    \* rows with a row in extension_execution_event_claims
    cold,      \* rows older than the retention
    monthCold, \* the older month ended before the cutoff
    attached,  \* the partition of the older month exists
    objects,   \* rows in each object of the storage
    forsaken,  \* history: rows deleted with their project
    runs,
    lockedBy,  \* archiver whose connection holds the advisory lock
    archiver

archiveVars == <<table, born, closed, claims, cold, monthCold, attached, objects, forsaken, runs,
                 lockedBy, archiver>>

\* A key is the time of a run, and the batch or the partition (0).
ObjectKeys == (0..MaxRuns) \X (0..Cardinality(Rows))

\* cut: what was cold when the run began; conn: its connection lives.
Archiver == [pc : {"idle", "check", "encode", "putPartition", "drop", "query", "put", "delete", "unlock"},
             run : 0..MaxRuns, cut : SUBSET Rows,
             batch : 1..(Cardinality(Rows) + 1), records : SUBSET Rows, conn : BOOLEAN]

ArchiveTypeOK ==
    /\ table \in SUBSET Rows /\ born \in SUBSET Rows /\ closed \in SUBSET born
    /\ claims \in SUBSET Rows /\ cold \in SUBSET born /\ forsaken \in SUBSET born
    /\ monthCold \in BOOLEAN /\ attached \in BOOLEAN
    /\ objects \in [ObjectKeys -> SUBSET Rows]
    /\ runs \in 0..MaxRuns
    /\ lockedBy \in Archivers \cup {NoArchiver}
    /\ archiver \in [Archivers -> Archiver]

IdleArchiver == [pc |-> "idle", run |-> 0, cut |-> {}, batch |-> 1, records |-> {},
         conn |-> TRUE]

ArchiveInit ==
    /\ table = {} /\ born = {} /\ closed = {} /\ claims = {} /\ cold = {} /\ forsaken = {}
    /\ monthCold = FALSE /\ attached = TRUE
    /\ objects = [k \in ObjectKeys |-> {}]
    /\ runs = 0
    /\ lockedBy = NoArchiver
    /\ archiver = [a \in Archivers |-> IdleArchiver]

-----------------------------------------------------------------------------
(* The table's other users                                                 *)

\* A row of an extension event is inserted with its claim; an event is closed.
Insert(r) ==
    /\ r \notin born
    /\ r \in Early => ~monthCold
    /\ table' = table \cup {r}
    /\ born' = born \cup {r}
    /\ claims' = claims \cup {r}
    /\ \/ closed' = closed \cup {r}
       \/ UNCHANGED closed
    /\ UNCHANGED <<cold, monthCold, attached, objects, forsaken, runs, lockedBy, archiver>>

Close(r) ==
    /\ r \in table \ closed
    /\ closed' = closed \cup {r}
    /\ UNCHANGED <<table, born, claims, cold, monthCold, attached, objects, forsaken, runs, lockedBy, archiver>>

\* Project deletion removes the claims of the events it found, and then the
\* events: one that commits in between leaves its claim behind.
RowDeletedElsewhere(r) ==
    /\ r \in table
    /\ table' = table \ {r}
    /\ claims' = claims \ {r} \/ UNCHANGED claims
    /\ forsaken' = forsaken \cup {r}
    /\ UNCHANGED <<born, closed, cold, monthCold, attached, objects, runs, lockedBy, archiver>>

Age(r) ==
    /\ r \in born \ cold
    /\ cold' = cold \cup {r}
    /\ UNCHANGED <<table, born, closed, claims, monthCold, attached, objects, forsaken, runs, lockedBy, archiver>>

MonthAges ==
    /\ ~monthCold
    /\ monthCold' = TRUE
    /\ cold' = cold \cup (Early \cap born)
    /\ UNCHANGED <<table, born, closed, claims, attached, objects, forsaken, runs, lockedBy, archiver>>

-----------------------------------------------------------------------------
(* A run                                                                   *)

Goes(a, to) == archiver' = [archiver EXCEPT ![a].pc = to]

Queries(a) == archiver[a].conn

StartRun(a) ==
    /\ archiver[a].pc = "idle"
    /\ lockedBy = NoArchiver
    /\ runs < MaxRuns
    /\ runs' = runs + 1
    /\ lockedBy' = a
    /\ archiver' = [archiver EXCEPT ![a] =
           [IdleArchiver EXCEPT !.pc = IF monthCold /\ attached THEN "check" ELSE "query",
                        !.run = runs + 1, !.cut = cold]]
    /\ UNCHANGED <<table, born, closed, claims, cold, monthCold, attached, objects, forsaken>>

CanDropPartition(a) ==
    /\ archiver[a].pc = "check" /\ Queries(a)
    /\ Goes(a, IF Early \cap table \subseteq closed THEN "encode" ELSE "query")
    /\ UNCHANGED <<table, born, closed, claims, cold, monthCold, attached, objects, forsaken, runs, lockedBy>>

EncodePartition(a) ==
    /\ archiver[a].pc = "encode" /\ Queries(a)
    /\ archiver' = [archiver EXCEPT ![a].records = Early \cap table,
                                    ![a].pc = IF Early \cap table = {} THEN "drop" ELSE "putPartition"]
    /\ UNCHANGED <<table, born, closed, claims, cold, monthCold, attached, objects, forsaken, runs, lockedBy>>

\* Mutant of ObjectKey: the key leaves the time of the run out.
KeyOfBatchAlone(a, number) == <<0, number>>

ObjectKey(a, number) == <<archiver[a].run, number>>

PutObject(a, number) == objects' = [objects EXCEPT ![ObjectKey(a, number)] = archiver[a].records]

PutPartition(a) ==
    /\ archiver[a].pc = "putPartition"
    /\ PutObject(a, 0)
    /\ Goes(a, "drop")
    /\ UNCHANGED <<table, born, closed, claims, cold, monthCold, attached, forsaken, runs, lockedBy>>

\* One transaction: the claims of its rows, the partition, the rows.
DropPartition(a) ==
    /\ archiver[a].pc = "drop" /\ Queries(a)
    /\ table' = table \ Early
    /\ claims' = claims \ (Early \cap table)
    /\ attached' = FALSE
    /\ Goes(a, "query")
    /\ UNCHANGED <<born, closed, cold, monthCold, objects, forsaken, runs, lockedBy>>

\* The oldest rows come first; which they are is left open.
QueryBatch(a) ==
    LET found == table \cap closed \cap archiver[a].cut IN
    /\ archiver[a].pc = "query" /\ Queries(a)
    /\ \E records \in SUBSET found :
          /\ Cardinality(records) <= BatchSize
          /\ Cardinality(records) < BatchSize => records = found
          /\ archiver' = [archiver EXCEPT ![a].records = records,
                                          ![a].pc = IF records = {} THEN "unlock" ELSE "put"]
    /\ UNCHANGED <<table, born, closed, claims, cold, monthCold, attached, objects, forsaken, runs, lockedBy>>

PutBatch(a) ==
    /\ archiver[a].pc = "put"
    /\ PutObject(a, archiver[a].batch)
    /\ Goes(a, "delete")
    /\ UNCHANGED <<table, born, closed, claims, cold, monthCold, attached, forsaken, runs, lockedBy>>

\* A row that is gone fails the count, and the transaction with it.
DeleteBatch(a) ==
    LET records == archiver[a].records IN
    /\ archiver[a].pc = "delete" /\ Queries(a)
    /\ IF records \subseteq table
       THEN /\ claims' = claims \ records
            /\ table' = table \ records
            /\ archiver' = [archiver EXCEPT ![a].pc = "query", ![a].batch = @ + 1, ![a].records = {}]
       ELSE Goes(a, "unlock") /\ UNCHANGED <<table, claims>>
    /\ UNCHANGED <<born, closed, cold, monthCold, attached, objects, forsaken, runs, lockedBy>>

Unlock(a) ==
    /\ archiver[a].pc = "unlock" /\ Queries(a)
    /\ lockedBy' = NoArchiver
    /\ archiver' = [archiver EXCEPT ![a] = IdleArchiver]
    /\ UNCHANGED <<table, born, closed, claims, cold, monthCold, attached, objects, forsaken, runs>>

-----------------------------------------------------------------------------
(* Faults                                                                  *)

\* A statement or an upload fails before it takes effect.
StepFails(a) ==
    /\ archiver[a].pc \notin {"idle", "unlock"}
    /\ Goes(a, "unlock")
    /\ UNCHANGED <<table, born, closed, claims, cold, monthCold, attached, objects, forsaken, runs, lockedBy>>

\* The database frees the lock; the worker learns it at its next statement.
ConnectionLost(a) ==
    /\ lockedBy = a
    /\ lockedBy' = NoArchiver
    /\ archiver' = [archiver EXCEPT ![a].conn = FALSE]
    /\ UNCHANGED <<table, born, closed, claims, cold, monthCold, attached, objects, forsaken, runs>>

GivesUp(a) ==
    /\ ~archiver[a].conn
    /\ archiver' = [archiver EXCEPT ![a] = IdleArchiver]
    /\ UNCHANGED <<table, born, closed, claims, cold, monthCold, attached, objects, forsaken, runs, lockedBy>>

ArchiveNext ==
    \/ \E r \in Rows : Insert(r) \/ Close(r) \/ RowDeletedElsewhere(r) \/ Age(r)
    \/ MonthAges
    \/ \E a \in Archivers :
          \/ StartRun(a) \/ CanDropPartition(a) \/ EncodePartition(a) \/ PutPartition(a)
          \/ DropPartition(a) \/ QueryBatch(a) \/ PutBatch(a) \/ DeleteBatch(a) \/ Unlock(a)
          \/ StepFails(a) \/ ConnectionLost(a) \/ GivesUp(a)

ArchiveSpec == ArchiveInit /\ [][ArchiveNext]_archiveVars

-----------------------------------------------------------------------------
Archived == UNION {objects[k] : k \in ObjectKeys}

Departed == born \ (table \cup forsaken)

(***************************************************************************)
(* What has left the table is in the storage: a later run, or one that     *)
(* still uploads after it lost its connection, overwrites no earlier       *)
(* object, and a partition is dropped with exactly the rows copied.        *)
(***************************************************************************)
DepartedIsArchived == Departed \subseteq Archived

(***************************************************************************)
(* Only rows that are old and final leave: a session that is still open    *)
(* keeps its whole partition in place.                                     *)
(***************************************************************************)
OpenRowsStay == Departed \subseteq cold \cap closed

(***************************************************************************)
(* An event in the table keeps its claim, so that a repeated callback is   *)
(* recognised, and goes into the archive with it, also when a batch fails. *)
(***************************************************************************)
ClaimsFollowRows == table \subseteq claims /\ claims \cap Departed = {}

(* All three: the archive takes old and final rows, with their claims, and keeps them. *)
NothingLost == DepartedIsArchived /\ OpenRowsStay /\ ClaimsFollowRows
=============================================================================
