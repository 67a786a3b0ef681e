--------------------------- MODULE CollabDocument ---------------------------
(***************************************************************************)
(* The collaboration document of one project, as the instances of          *)
(* collab-service share it (persistence/document-persistence.ts,           *)
(* collab/hocuspocus.ts, collab/redis-pubsub.ts).                          *)
(*                                                                         *)
(* A Yjs document is a join-semilattice: its text is the set of updates in *)
(* it, and applying or merging is union.  Each conversion of the project's *)
(* content into Yjs makes updates of its own, its seed; two seeds in one   *)
(* text show the content twice.                                            *)
(*                                                                         *)
(* An instance runs one database task at a time (its tasks share a pool,   *)
(* and BEGIN and COMMIT only meet on one connection while they do not      *)
(* overlap); edits and messages arrive between any two steps of it.  The   *)
(* statements of a transaction after its row lock are one step.            *)
(***************************************************************************)
EXTENDS Naturals, FiniteSets

CONSTANTS
    Instances,  \* instances of collab-service
    Edits,      \* updates that clients send
    Initializers, \* requests of the backend to initialise the document
    Nobody,     \* no instance
    Faulty,     \* kinds of fault: "crash", "database", "connection"
    MaxDocFaults, \* bound on faults
    MaxSyncs    \* bound on syncs of the project's content

ASSUME DocAssumption ==
    /\ Nobody \notin Instances /\ Initializers \cap Edits = {} /\ IsFiniteSet(Edits)
    /\ MaxDocFaults \in Nat /\ MaxSyncs \in Nat

VARIABLES
    seq,        \* collab_documents.current_seq
    lock,       \* instance whose transaction holds that row
    batches,    \* collab_document_update_batches
    state,      \* collab_document_states
    source,     \* text in projects.source_content, as last synced
    inst,       \* each instance: its document, pending updates and task
    inbox,      \* messages on their way to each instance
    call,       \* local state of each initialisation
    docFaults,  \* faults so far
    syncs,      \* syncs so far
    made,       \* history: edits that an instance accepted
    users,      \* history: instances that have worked on the document
    disturbed   \* history: one of them has crashed or lost its connection

docVars == <<seq, lock, batches, state, source, inst, inbox, call, docFaults, syncs, made, users, disturbed>>

history == <<users, disturbed>>

\* The seed of an initialisation is named by its call.
Seeds == Initializers

Texts == SUBSET (Seeds \cup Edits)

Batch == [from : Nat, to : Nat, text : SUBSET Edits]

\* kind: what the task is for; pc: its next statement; batch: the updates
\* it took from pending; text: what it read or encoded; at: the sequence
\* number it read; seen: history, what was accepted when it began.
Task == [kind : {"none", "load", "flush", "store", "sync"},
         pc : {"none", "lock batch", "write batch", "encode", "lock state", "write state",
               "read state", "read batches", "write source"},
         batch : SUBSET Edits, text : Texts, at : Nat, seen : SUBSET Edits]

NoTask == [kind |-> "none", pc |-> "none", batch |-> {}, text |-> {}, at |-> 0, seen |-> {}]

ClosedDoc == [doc |-> "closed", text |-> {}, pending |-> {}, dirty |-> FALSE, task |-> NoTask]

Copy == [doc : {"closed", "loading", "open"}, text : Texts, pending : SUBSET Edits, dirty : BOOLEAN, task : Task]

DocTypeOK ==
    /\ seq \in Nat
    /\ lock \in Instances \cup {Nobody}
    /\ \A b \in batches : b \in Batch
    /\ state \in [made : BOOLEAN, text : Texts, until : Nat]
    /\ source \in Texts
    /\ inst \in [Instances -> Copy]
    /\ inbox \in [Instances -> SUBSET Edits]
    /\ call \in [Initializers -> {"idle", "insert", "done"}]
    /\ docFaults \in 0..MaxDocFaults /\ syncs \in 0..MaxSyncs
    /\ made \subseteq Edits /\ users \subseteq Instances /\ disturbed \in BOOLEAN

DocInit ==
    /\ seq = 0 /\ lock = Nobody /\ batches = {}
    /\ state = [made |-> FALSE, text |-> {}, until |-> 0]
    /\ source = {}
    /\ inst = [i \in Instances |-> ClosedDoc]
    /\ inbox = [i \in Instances |-> {}]
    /\ call = [c \in Initializers |-> "idle"]
    /\ docFaults = 0 /\ syncs = 0
    /\ made = {} /\ users = {} /\ disturbed = FALSE

-----------------------------------------------------------------------------
(* initializeProjectDocument                                               *)

\* The row exists: a document is always created with its project.
ReadInitialized(c) ==
    /\ call[c] = "idle"
    /\ call' = [call EXCEPT ![c] = IF state.made \/ batches # {} THEN "done" ELSE "insert"]
    /\ UNCHANGED <<seq, lock, batches, state, source, inst, inbox, docFaults, syncs, made, history>>

InsertInitialState(c) ==
    /\ call[c] = "insert"
    /\ state' = IF state.made THEN state ELSE [made |-> TRUE, text |-> {c}, until |-> 0]
    /\ call' = [call EXCEPT ![c] = "done"]
    /\ UNCHANGED <<seq, lock, batches, source, inst, inbox, docFaults, syncs, made, history>>

-----------------------------------------------------------------------------
(* The tasks of an instance                                                *)

Task_(i) == inst[i].task

Turn(i, task) == inst' = [inst EXCEPT ![i].task = task]

\* What follows the flush that a task begins with.
AfterFlush(task) ==
    CASE task.kind = "flush" -> NoTask
      [] task.kind = "store" -> [task EXCEPT !.pc = "encode", !.batch = {}]
      [] task.kind = "sync"  -> [task EXCEPT !.pc = "read state", !.batch = {}]

\* flushDocument: the pending updates become the task's batch.
WithFlush(i, task) ==
    IF inst[i].pending = {} THEN AfterFlush(task)
    ELSE [task EXCEPT !.pc = "lock batch", !.batch = inst[i].pending]

Works(i) == users' = users \cup {i} /\ UNCHANGED disturbed

\* A task that begins with a flush; a store answers for the edits so far.
BeginTask(i, kind) ==
    /\ Task_(i) = NoTask
    /\ inst' = [inst EXCEPT
         ![i].pending = {},
         ![i].dirty = IF kind = "store" THEN FALSE ELSE @,
         ![i].task = WithFlush(i, [NoTask EXCEPT !.kind = kind, !.seen = made])]
    /\ Works(i)
    /\ UNCHANGED <<seq, lock, batches, state, source, inbox, call, docFaults, made>>

\* The flush timer, and a batch that is full.
FlushTimer(i) == inst[i].pending # {} /\ BeginTask(i, "flush") /\ UNCHANGED syncs

\* onStoreDocument, debounced after a change.
OnStoreDocument(i) == inst[i].doc = "open" /\ inst[i].dirty /\ BeginTask(i, "store") /\ UNCHANGED syncs

BeginSync == (\E c \in Initializers : call[c] = "done") /\ syncs < MaxSyncs /\ syncs' = syncs + 1

\* syncProjectSourceContent, once the document is initialised.
SyncProjectSourceContent(i) == BeginSync /\ BeginTask(i, "sync")

\* onLoadDocument: a client with a session connects, which it has once the
\* document is initialised.
OnLoadDocument(i) ==
    /\ inst[i].doc = "closed" /\ Task_(i) = NoTask
    /\ \E c \in Initializers : call[c] = "done"
    /\ inst' = [inst EXCEPT ![i].doc = "loading",
                            ![i].task = [NoTask EXCEPT !.kind = "load", !.pc = "read state"]]
    /\ Works(i)
    /\ UNCHANGED <<seq, lock, batches, state, source, inbox, call, docFaults, syncs, made>>

LockDocumentAndReadSeq(i) ==
    /\ Task_(i).pc \in {"lock batch", "lock state"}
    /\ lock = Nobody
    /\ lock' = i
    /\ Turn(i, [Task_(i) EXCEPT !.at = seq, !.pc = IF @ = "lock batch" THEN "write batch" ELSE "write state"])
    /\ UNCHANGED <<seq, batches, state, source, inbox, call, docFaults, syncs, made, history>>

Unlocked(i) == IF lock = i THEN Nobody ELSE lock

\* flushDocumentOnce: one batch, and the number of its last update.
WriteBatch(i) ==
    LET task == Task_(i)  last == task.at + Cardinality(task.batch) IN
    /\ task.pc = "write batch"
    /\ batches' = batches \cup {[from |-> task.at + 1, to |-> last, text |-> task.batch]}
    /\ seq' = last
    /\ lock' = Unlocked(i)
    /\ Turn(i, AfterFlush(task))
    /\ UNCHANGED <<state, source, inbox, call, docFaults, syncs, made, history>>

EncodeState(i) ==
    /\ Task_(i).pc = "encode"
    /\ Turn(i, [Task_(i) EXCEPT !.pc = "lock state", !.text = inst[i].text])
    /\ UNCHANGED <<seq, lock, batches, state, source, inbox, call, docFaults, syncs, made, history>>

\* store: the whole state, and pruneCompactedBatches, whose batches are 30
\* days old, too old for a load that is between its two reads.
WriteState(i) ==
    LET task == Task_(i) IN
    /\ task.pc = "write state"
    /\ state' = [made |-> TRUE, text |-> task.text, until |-> task.at]
    /\ \/ UNCHANGED batches
       \/ /\ \A j \in Instances : Task_(j).pc # "read batches"
          /\ batches' = {b \in batches : b.to > task.at}
    /\ lock' = Unlocked(i)
    /\ Turn(i, NoTask)
    /\ UNCHANGED <<seq, source, inbox, call, docFaults, syncs, made, history>>

\* load reads the state, and then the batches after it.
ReadState(i) ==
    /\ Task_(i).pc = "read state"
    /\ Turn(i, [Task_(i) EXCEPT !.pc = "read batches", !.text = state.text, !.at = state.until])
    /\ UNCHANGED <<seq, lock, batches, state, source, inbox, call, docFaults, syncs, made, history>>

ReadBatches(i) ==
    LET task == Task_(i)
        read == task.text \cup UNION {b.text : b \in {x \in batches : x.to > task.at}} IN
    /\ task.pc = "read batches"
    /\ IF task.kind = "load"
       THEN inst' = [inst EXCEPT ![i].doc = "open", ![i].text = @ \cup read, ![i].task = NoTask]
       ELSE Turn(i, [task EXCEPT !.pc = "write source", !.text = read])
    /\ UNCHANGED <<seq, lock, batches, state, source, inbox, call, docFaults, syncs, made, history>>

WriteSource(i) ==
    /\ Task_(i).pc = "write source"
    /\ source' = Task_(i).text
    /\ Turn(i, NoTask)
    /\ UNCHANGED <<seq, lock, batches, state, inbox, call, docFaults, syncs, made, history>>

-----------------------------------------------------------------------------
(* Clients and messages                                                    *)

\* onChange of a client's update: appendUpdate and publishUpdate.
OnChange(i, e) ==
    /\ inst[i].doc = "open"
    /\ e \notin made
    /\ made' = made \cup {e}
    /\ inst' = [inst EXCEPT ![i].text = @ \cup {e}, ![i].pending = @ \cup {e}, ![i].dirty = TRUE]
    /\ inbox' = [j \in Instances |-> IF j = i THEN inbox[j] ELSE inbox[j] \cup {e}]
    /\ UNCHANGED <<seq, lock, batches, state, source, call, docFaults, syncs, history>>

\* handleMessage: applied to a document that is there, open or loading;
\* isRemoteUpdate keeps onChange from appending it again.  Whether
\* hocuspocus stores the document for it is its own affair.
HandleMessage(i, e) ==
    /\ e \in inbox[i]
    /\ inbox' = [inbox EXCEPT ![i] = @ \ {e}]
    /\ IF inst[i].doc = "closed" THEN UNCHANGED inst
       ELSE \E changed \in {FALSE, inst[i].doc = "open"} :
              inst' = [inst EXCEPT ![i].text = @ \cup {e}, ![i].dirty = @ \/ changed]
    /\ UNCHANGED <<seq, lock, batches, state, source, call, docFaults, syncs, made, history>>

\* hocuspocus unloads a document without clients once it is stored.
Unload(i) ==
    /\ inst[i].doc = "open" /\ ~inst[i].dirty /\ Task_(i) = NoTask
    /\ inst' = [inst EXCEPT ![i].doc = "closed", ![i].text = {}]
    /\ UNCHANGED <<seq, lock, batches, state, source, inbox, call, docFaults, syncs, made, history>>

-----------------------------------------------------------------------------
(* Faults                                                                  *)

DocFault(kind) == kind \in Faulty /\ docFaults < MaxDocFaults /\ docFaults' = docFaults + 1

\* The task gives up: a failed load closes the document, a failed store
\* leaves it to be stored.
TaskEnds(i, kept) ==
    LET task == Task_(i) IN
    /\ task # NoTask
    /\ inst' = [inst EXCEPT
         ![i].task = NoTask,
         ![i].pending = @ \cup kept,
         ![i].doc = IF task.kind = "load" THEN "closed" ELSE @,
         ![i].text = IF task.kind = "load" THEN {} ELSE @,
         ![i].dirty = @ \/ task.kind = "store"]
    /\ lock' = Unlocked(i)
    /\ UNCHANGED <<seq, batches, state, source, inbox, call, syncs, made, users>>

\* A failed statement whose batch is not put back.
StatementDropsBatch(i) == DocFault("database") /\ TaskEnds(i, {}) /\ UNCHANGED disturbed

\* A statement of a transaction fails: the batch goes back to pending.
StatementFails(i) == DocFault("database") /\ TaskEnds(i, Task_(i).batch) /\ UNCHANGED disturbed

\* BEGIN or ROLLBACK fails, outside the try: the batch is gone.
ConnectionFails(i) == DocFault("connection") /\ TaskEnds(i, {}) /\ disturbed' = TRUE

CrashInstance(i) ==
    /\ DocFault("crash")
    /\ inst' = [inst EXCEPT ![i] = ClosedDoc]
    /\ inbox' = [inbox EXCEPT ![i] = {}]
    /\ lock' = Unlocked(i)
    /\ disturbed' = TRUE
    /\ UNCHANGED <<seq, batches, state, source, call, syncs, made, users>>

-----------------------------------------------------------------------------
Initialize(c) == ReadInitialized(c) \/ InsertInitialState(c)

TaskStep(i) ==
    \/ LockDocumentAndReadSeq(i) \/ WriteBatch(i)
    \/ EncodeState(i) \/ WriteState(i)
    \/ ReadState(i) \/ ReadBatches(i) \/ WriteSource(i)

InstanceStep(i) ==
    \/ FlushTimer(i) \/ OnStoreDocument(i) \/ SyncProjectSourceContent(i) \/ OnLoadDocument(i)
    \/ TaskStep(i)
    \/ \E e \in Edits : OnChange(i, e) \/ HandleMessage(i, e)
    \/ Unload(i)
    \/ StatementFails(i) \/ ConnectionFails(i) \/ CrashInstance(i)

DocNext ==
    \/ \E c \in Initializers : Initialize(c)
    \/ \E i \in Instances : InstanceStep(i)

DocSpec == DocInit /\ [][DocNext]_docVars

-----------------------------------------------------------------------------
\* What a load would give.
Stored == state.text \cup UNION {b.text : b \in {x \in batches : x.to > state.until}}

\* initializeProjectDocument may run in several requests beside each other
\* and beside stores of open documents, with crashes: the content is turned
\* into Yjs once for all of them, and no store ever leaves it out.
SeededOnce ==
    /\ Cardinality(Seeds \cap (state.text \cup UNION {inst[i].text : i \in Instances})) <= 1
    /\ state.made => state.text \cap Seeds # {}
    /\ \A i \in Instances : inst[i].doc = "open" => inst[i].text \cap Seeds # {}

\* flushDocumentOnce numbers the updates under the document's row lock: with
\* several instances flushing and storing, every number up to current_seq
\* that is not compacted belongs to exactly one batch.
LogTiled ==
    /\ state.until <= seq
    /\ \A n \in (state.until + 1)..seq : Cardinality({b \in batches : b.from <= n /\ n <= b.to}) = 1
    /\ \A b \in batches : b.to <= seq /\ b.to - b.from + 1 = Cardinality(b.text)

\* One instance at most has worked on the document, and it lives on.
Undisturbed == ~disturbed /\ \A i, j \in users : i = j

\* An accepted edit is pending, on its way to the log, or stored, whatever
\* statements fail: flushDocumentOnce puts its batch back.
NothingDropped ==
    \A e \in made :
        e \in Stored \/ \E i \in Instances : e \in inst[i].pending \cup inst[i].task.batch

\* When no instance has the document any more and nothing is pending, every
\* edit a client made is in what the next load gives, if nothing failed.
NoEditLost ==
    docFaults = 0 /\ (\A i \in Instances : inst[i] = ClosedDoc) => made \subseteq Stored

\* A sync that ends well has put into the project every edit that the
\* service had accepted when the sync began.
SyncEndsComplete ==
    \A i \in Instances :
        inst[i].task.pc = "write source" /\ inst'[i].task.pc # "write source" /\ docFaults' = docFaults
            => inst[i].task.seen \subseteq source'

(***************************************************************************)
(* The log is well-formed and the content in it once, for any instances    *)
(* and faults; and one instance that lives drops no edit, nor does a sync  *)
(* of it that ends well.                                                   *)
(***************************************************************************)
UpdatesKept ==
    /\ [](DocTypeOK /\ SeededOnce /\ LogTiled /\ (Undisturbed => NothingDropped))
    /\ [][Undisturbed' => SyncEndsComplete]_docVars
=============================================================================
