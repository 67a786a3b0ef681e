--------------------------- MODULE PublishOutbox ---------------------------
(***************************************************************************)
(* The transactional outbox between the publish service and the Asynq      *)
(* publish queue (backend/internal/services/publish/outbox.go).            *)
(*                                                                         *)
(* EnqueuePublishProject commits one outbox row per job together with the  *)
(* publication's new status.  The API process tries to dispatch the row at *)
(* once; every worker process also flushes due rows every five seconds.    *)
(* Each of these is a dispatcher here.  A dispatcher claims a row with one *)
(* guarded UPDATE, reads the row back with a second statement, enqueues    *)
(* the job, and records the outcome with an UPDATE fenced by the attempts  *)
(* counter it read.                                                        *)
(*                                                                         *)
(* Wall-clock conditions are booleans of the row that time may turn TRUE:  *)
(* due ("next_attempt_at IS NULL OR next_attempt_at <= now") and old       *)
(* ("updated_at <= now - publishOutboxClaimTimeout").                      *)
(***************************************************************************)
EXTENDS Naturals

CONSTANTS
    Jobs,           \* publish jobs; the outbox row of a job is keyed by it
    Dispatchers,    \* goroutines that may run dispatchOutboxEvent
    NoJob,          \* stands for "no row claimed"
    MaxFaults       \* bound on crashes, failed enqueues and aged claims

ASSUME OutboxAssumption ==
    /\ NoJob \notin Jobs
    /\ MaxFaults \in Nat

VARIABLES
    outbox,     \* outbox_events: one row per job
    tasks,      \* Asynq: job IDs the publish queue holds or has held
    disp,       \* local state of each dispatcher
    faults      \* faults so far

vars == <<outbox, tasks, disp, faults>>

OutboxStatus == {"absent", "pending", "processing", "failed", "dispatched"}

OutboxEvent == [status : OutboxStatus, attempts : Nat, due : BOOLEAN, old : BOOLEAN]

DispatcherPC == {"idle", "claimed", "read", "enqueued", "failed"}

Dispatcher == [pc : DispatcherPC, job : Jobs \cup {NoJob}, attempts : Nat]

Idle == [pc |-> "idle", job |-> NoJob, attempts |-> 0]

TypeOK ==
    /\ outbox \in [Jobs -> OutboxEvent]
    /\ tasks \in SUBSET Jobs
    /\ disp \in [Dispatchers -> Dispatcher]
    /\ faults \in 0..MaxFaults

Init ==
    /\ outbox = [j \in Jobs |-> [status |-> "absent", attempts |-> 0, due |-> TRUE, old |-> FALSE]]
    /\ tasks = {}
    /\ disp = [d \in Dispatchers |-> Idle]
    /\ faults = 0

\* Mutant of RecordPublishJobOutbox: the job is enqueued before the commit.
EnqueueInsideTransaction(j) ==
    /\ outbox[j].status = "absent"
    /\ outbox' \in {outbox, [outbox EXCEPT ![j].status = "pending"]}
    /\ tasks' = tasks \cup {j}
    /\ UNCHANGED <<disp, faults>>

(***************************************************************************)
(* The last statement of EnqueuePublishProject's transaction.              *)
(***************************************************************************)
RecordPublishJobOutbox(j) ==
    /\ outbox[j].status = "absent"
    /\ outbox' = [outbox EXCEPT ![j].status = "pending"]
    /\ UNCHANGED <<tasks, disp, faults>>

\* Mutant of Claimable: stale claims are never taken over.
ClaimableWithoutTimeout(e) ==
    e.status \in {"pending", "failed"} /\ e.due

(***************************************************************************)
(* The WHERE clause shared by FlushPublishOutbox and claimOutboxEvent.     *)
(***************************************************************************)
Claimable(e) ==
    \/ e.status \in {"pending", "failed"} /\ e.due
    \/ e.status = "processing" /\ e.old

(***************************************************************************)
(* claimOutboxEvent, first statement: the guarded UPDATE.  GORM refreshes  *)
(* updated_at with it.                                                     *)
(***************************************************************************)
ClaimOutboxEvent(d, j) ==
    /\ disp[d].pc = "idle"
    /\ Claimable(outbox[j])
    /\ outbox' = [outbox EXCEPT ![j].status = "processing",
                                ![j].attempts = @ + 1,
                                ![j].old = FALSE]
    /\ disp' = [disp EXCEPT ![d] = [pc |-> "claimed", job |-> j, attempts |-> 0]]
    /\ UNCHANGED <<tasks, faults>>

(***************************************************************************)
(* claimOutboxEvent, second statement: the row is read back outside any    *)
(* transaction; its attempts value is the dispatcher's fence from here on. *)
(***************************************************************************)
ReadClaimedEvent(d) ==
    /\ disp[d].pc = "claimed"
    /\ disp' = [disp EXCEPT ![d].pc = "read",
                            ![d].attempts = outbox[disp[d].job].attempts]
    /\ UNCHANGED <<outbox, tasks, faults>>

(***************************************************************************)
(* dispatchClaimedOutboxEvent.  Asynq refuses a second task with the same  *)
(* task ID and Enqueue reports that conflict as success, so enqueuing is   *)
(* set insertion.                                                          *)
(***************************************************************************)
EnqueueJob(d) ==
    /\ disp[d].pc = "read"
    /\ tasks' = tasks \cup {disp[d].job}
    /\ disp' = [disp EXCEPT ![d].pc = "enqueued"]
    /\ UNCHANGED <<outbox, faults>>

\* Mutant of EnqueueJobFails: the error is swallowed.
EnqueueErrorSwallowed(d) ==
    /\ disp[d].pc = "read"
    /\ faults < MaxFaults
    /\ faults' = faults + 1
    /\ tasks' \in {tasks, tasks \cup {disp[d].job}}
    /\ disp' = [disp EXCEPT ![d].pc = "enqueued"]
    /\ UNCHANGED outbox

(***************************************************************************)
(* The enqueue call returns an error; Redis may or may not have stored the *)
(* task before the error reached the dispatcher.                           *)
(***************************************************************************)
EnqueueJobFails(d) ==
    /\ disp[d].pc = "read"
    /\ faults < MaxFaults
    /\ faults' = faults + 1
    /\ tasks' \in {tasks, tasks \cup {disp[d].job}}
    /\ disp' = [disp EXCEPT ![d].pc = "failed"]
    /\ UNCHANGED outbox

\* "id = ? AND status = 'processing' AND attempts = ?"
HoldsClaim(d) ==
    LET e == outbox[disp[d].job]
    IN  e.status = "processing" /\ e.attempts = disp[d].attempts

MarkOutboxEventDispatched(d) ==
    /\ disp[d].pc = "enqueued"
    /\ outbox' = IF HoldsClaim(d)
                 THEN [outbox EXCEPT ![disp[d].job].status = "dispatched",
                                     ![disp[d].job].due = TRUE]
                 ELSE outbox
    /\ disp' = [disp EXCEPT ![d] = Idle]
    /\ UNCHANGED <<tasks, faults>>

\* Deferred by outboxRetryBackoff.
MarkOutboxEventFailed(d) ==
    /\ disp[d].pc = "failed"
    /\ outbox' = IF HoldsClaim(d)
                 THEN [outbox EXCEPT ![disp[d].job].status = "failed",
                                     ![disp[d].job].due = FALSE]
                 ELSE outbox
    /\ disp' = [disp EXCEPT ![d] = Idle]
    /\ UNCHANGED <<tasks, faults>>

(***************************************************************************)
(* The process dies, or a database statement after the claim errors: the   *)
(* dispatcher's progress is forgotten and the row stays "processing".      *)
(***************************************************************************)
AbandonDispatch(d) ==
    /\ disp[d].pc # "idle"
    /\ faults < MaxFaults
    /\ faults' = faults + 1
    /\ disp' = [disp EXCEPT ![d] = Idle]
    /\ UNCHANGED <<outbox, tasks>>

\* outboxRetryBackoff(attempts) seconds have passed since the failure.
BackoffElapses(j) ==
    /\ outbox[j].status = "failed"
    /\ ~outbox[j].due
    /\ outbox' = [outbox EXCEPT ![j].due = TRUE]
    /\ UNCHANGED <<tasks, disp, faults>>

(***************************************************************************)
(* publishOutboxClaimTimeout has passed since the claim.  When nobody is   *)
(* working on the row this is bound to happen; while a dispatcher is still *)
(* at work it means a stall of two minutes and is counted as a fault.      *)
(***************************************************************************)
ClaimAges(j) ==
    /\ outbox[j].status = "processing"
    /\ ~outbox[j].old
    /\ IF \E d \in Dispatchers : disp[d].job = j
       THEN faults < MaxFaults /\ faults' = faults + 1
       ELSE faults' = faults
    /\ outbox' = [outbox EXCEPT ![j].old = TRUE]
    /\ UNCHANGED <<tasks, disp>>

Dispatch(d) ==
    \/ \E j \in Jobs : ClaimOutboxEvent(d, j)
    \/ ReadClaimedEvent(d)
    \/ EnqueueJob(d)
    \/ MarkOutboxEventDispatched(d)
    \/ MarkOutboxEventFailed(d)

Next ==
    \/ \E j \in Jobs : RecordPublishJobOutbox(j) \/ BackoffElapses(j) \/ ClaimAges(j)
    \/ \E d \in Dispatchers : Dispatch(d) \/ EnqueueJobFails(d) \/ AbandonDispatch(d)

Spec == Init /\ [][Next]_vars

(***************************************************************************)
(* Fairness: StartPublishOutboxDispatcher flushes on a five second ticker  *)
(* for as long as the process lives, Kubernetes restarts a dead process,   *)
(* and time passes.  Recording a job and every fault are not fair.         *)
(***************************************************************************)
Fairness ==
    /\ \A d \in Dispatchers : WF_vars(Dispatch(d))
    /\ \A j \in Jobs : WF_vars(BackoffElapses(j)) /\ WF_vars(ClaimAges(j))

FairSpec == Spec /\ Fairness
-----------------------------------------------------------------------------
(***************************************************************************)
(* No job is lost: a row is only recorded as dispatched once Asynq has the *)
(* job, whichever dispatchers raced for it and whichever of them died.     *)
(* Behind it: Enqueue precedes markOutboxEventDispatched, and a dispatcher *)
(* that lost its claim cannot vouch for another one.                       *)
(***************************************************************************)
DispatchedMeansQueued ==
    \A j \in Jobs : outbox[j].status = "dispatched" => j \in tasks

(***************************************************************************)
(* Dispatched is final: neither a late failure of a superseded dispatcher  *)
(* nor another flush ever reopens a row markOutboxEventDispatched closed.  *)
(***************************************************************************)
DispatchedIsFinal ==
    [][\A j \in Jobs : outbox[j].status = "dispatched" => outbox'[j].status = "dispatched"]_vars

(***************************************************************************)
(* Every committed request reaches the queue and its row is closed, in     *)
(* spite of crashes, failed enqueues and abandoned claims (FlushPublish-   *)
(* Outbox picks up failed rows after their backoff and stale claims).      *)
(***************************************************************************)
RecordedJobIsDispatched ==
    \A j \in Jobs :
        outbox[j].status = "pending" ~> (j \in tasks /\ outbox[j].status = "dispatched")

\* How far a job has come, in the terms of JobHandoff.
Stage ==
    [j \in Jobs |-> IF j \in tasks THEN "queued"
                   ELSE IF outbox[j].status = "absent" THEN "none" ELSE "recorded"]

Handoff == INSTANCE JobHandoff WITH stage <- Stage

(***************************************************************************)
(* The outbox implements JobHandoff: through all races, crashes and        *)
(* repeated enqueues, a job comes to the queue at most once, only after    *)
(* its request committed, and in the end.                                  *)
(***************************************************************************)
ImplementsHandoff == Handoff!HandoffSpec /\ Handoff!AllDelivered
=============================================================================
