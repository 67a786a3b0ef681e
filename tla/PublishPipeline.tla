-------------------------- MODULE PublishPipeline --------------------------
(***************************************************************************)
(* Publishing one publication: the API calls that ask for it, the Redis    *)
(* lock of its (project, platform), the Asynq task of each queued job, the *)
(* schedule rows, and the goroutines that carry a publish out              *)
(* (backend/internal/services/publish: queue.go, service.go, lifecycle.go, *)
(* schedule.go).                                                           *)
(*                                                                         *)
(* Every SQL transaction or statement, every Redis command and the call to *)
(* the platform is one step, so any other process may run between two of   *)
(* them.  Three kinds of process run the code:                             *)
(*   ApiCalls     one request each: publish, schedule, cancel or retry     *)
(*   Workers      Asynq worker goroutines                                  *)
(*   Dispatchers  the scheduled-publication tickers of the worker pods     *)
(* How a committed job reaches Asynq is PublishOutbox; here it is one step *)
(* (OutboxDelivers).                                                       *)
(*                                                                         *)
(* At most MaxFaults faults happen, of the kinds in Faulty:                *)
(*   crash       a process dies between two steps                          *)
(*   database    a statement returns an error                              *)
(*   redis       a lock command returns an error                           *)
(*   timeout     a context ends: task timeout, shutdown, client gone       *)
(*   lapse       the lock expires, or the row turns stale, while a process *)
(*               that relies on it is still at work                        *)
(*   redelivery  Asynq hands out a task whose worker is still running it   *)
(*   edit        a user or the browser extension changes the row           *)
(***************************************************************************)
EXTENDS PublicationRow

CONSTANTS
    ApiCalls, Workers, Dispatchers,
    Requests,       \* the kinds of request the API calls may make
    Jobs,           \* job UUIDs
    Schedules,      \* rows of scheduled_publications
    Keys,           \* idempotency keys
    NoJob, NoSchedule, NoKey, NoWorker,
    HasQueue,       \* FALSE: no Redis, requests publish in the API process
    MaxRetry,       \* publishTaskMaxRetry
    Faulty,         \* the kinds of fault that may happen
    MaxFaults       \* how many may happen in all

Procs == ApiCalls \cup Workers \cup Dispatchers

FaultKinds ==
    {"crash", "database", "redis", "timeout", "lapse", "redelivery", "edit"}

ASSUME PipelineAssumption ==
    /\ NoJob \notin Jobs /\ NoSchedule \notin Schedules /\ NoKey \notin Keys
    /\ NoWorker \notin Procs
    /\ ApiCalls \cap Workers = {} /\ ApiCalls \cap Dispatchers = {}
    /\ Workers \cap Dispatchers = {}
    /\ Requests \subseteq {"publish", "schedule", "cancel", "retry"}
    /\ HasQueue \in BOOLEAN
    /\ MaxRetry \in Nat
    /\ Faulty \subseteq FaultKinds
    /\ MaxFaults \in Nat

VARIABLES
    pub,        \* the publication row
    lock,       \* value of the Redis key publishLockKey(project, platform)
    task,       \* per job: its Asynq task, its schedule and its key
    sched,      \* scheduled_publications
    posts,      \* how often the platform accepted a post of each schedule
    proc,       \* local state of each process
    faults      \* the kinds of fault so far, and how many may still come

vars == <<pub, lock, task, sched, posts, proc, faults>>

TaskState == {"free", "recorded", "pending", "active", "done", "archived"}

Task == [state : TaskState, worker : Procs \cup {NoWorker}, retried : Nat,
         sched : Schedules \cup {NoSchedule}, key : Keys \cup {NoKey}]

ScheduleStatus == {"absent", "scheduled", "running", "published", "failed", "cancelled"}

ScheduledPublication ==
    [status : ScheduleStatus, due : BOOLEAN, key : Keys \cup {NoKey}]

\* Holding an attempt: between StartPublishAttempt and FinishPublishAttempt.
AttemptPCs == {"started", "publishing", "posted", "rejected", "completed", "declined", "failing"}

\* Inside PublishProjectInWorkspaceWithContext or the clean-up that follows.
PublishPCs == {"owned", "read", "succeeded", "unsuccessful", "erring", "marked"} \cup AttemptPCs

PC == {"idle", "returned", "requested", "prepared", "locked", "aborting", "scheduling",
       "cancelling", "due", "check", "unlocked", "retriable"} \cup PublishPCs

Process ==
    [pc : PC, job : Jobs \cup {NoJob}, sched : Schedules \cup {NoSchedule},
     key : Keys \cup {NoKey}, seen : PublicationStatus \cup {"none", "unsynced"},
     ctx : {"live", "lost", "timeout"}]

TypeOK ==
    /\ pub \in Publication({0, 1})
    /\ lock \in Jobs \cup {NoJob}
    /\ task \in [Jobs -> Task]
    /\ sched \in [Schedules -> ScheduledPublication]
    /\ posts \in [Schedules -> Nat]
    /\ proc \in [Procs -> Process]
    /\ faults \in [kinds : SUBSET FaultKinds, left : Nat]

AtRest(pc) ==
    [pc |-> pc, job |-> NoJob, sched |-> NoSchedule, key |-> NoKey,
     seen |-> "none", ctx |-> "live"]

\* A request ends; a worker or a dispatcher waits for more.
Rest(p) == AtRest(IF p \in ApiCalls THEN "returned" ELSE "idle")

Init ==
    /\ pub = SavedDraft(1)
    /\ lock = NoJob
    /\ task = [j \in Jobs |-> [state |-> "free", worker |-> NoWorker, retried |-> 0,
                               sched |-> NoSchedule, key |-> NoKey]]
    /\ sched = [s \in Schedules |-> [status |-> "absent", due |-> FALSE, key |-> NoKey]]
    /\ posts = [s \in Schedules |-> 0]
    /\ proc = [p \in Procs |-> AtRest("idle")]
    /\ faults = [kinds |-> {}, left |-> MaxFaults]
-----------------------------------------------------------------------------
(* Helpers.                                                                *)

At(p, pc) == proc[p].pc = pc

Become(p, local) == proc' = [proc EXCEPT ![p] = local]

Goto(p, pc) == Become(p, [proc[p] EXCEPT !.pc = pc])

Return(p) == Become(p, Rest(p))

Fault(k) ==
    /\ k \in Faulty
    /\ faults.left > 0
    /\ faults' = [kinds |-> faults.kinds \cup {k}, left |-> faults.left - 1]

\* uuid.New() returns an ID that nothing refers to.
Fresh(j) ==
    /\ task[j].state = "free"
    /\ lock # j
    /\ \A p \in Procs : proc[p].job # j

\* Mutant of ReleaseLock: a plain DEL.
DeleteLock(j) == lock' = NoJob

\* The compare-and-delete script of ReleaseLock.
ReleaseLock(j) == lock' = IF lock = j THEN NoJob ELSE lock

InsertSchedule(s, due, key) ==
    sched' = [sched EXCEPT ![s] = [status |-> "scheduled", due |-> due, key |-> key]]

UpdateSchedule(s, status) == sched' = [sched EXCEPT ![s].status = status]

\* What Asynq does when the handler of a task returns.
TaskReturns(j, failed) ==
    LET retried == task[j].retried
        again   == failed /\ retried < MaxRetry
    IN  [task EXCEPT ![j] = [@ EXCEPT
            !.worker  = NoWorker,
            !.state   = IF again THEN "pending" ELSE IF failed THEN "archived" ELSE "done",
            !.retried = IF again THEN retried + 1 ELSE retried]]

\* processPublishJob returns.  A dispatcher ran the job inline; the result of
\* a worker whose task was handed out again is ignored.
JobReturns(p, failed) ==
    /\ Return(p)
    /\ task' = IF \E j \in Jobs : j = proc[p].job /\ task[j].worker = p
               THEN TaskReturns(proc[p].job, failed)
               ELSE task
-----------------------------------------------------------------------------
(* EnqueuePublishProject.                                                  *)

\* The lookup of a "queued" event with the same key; a hit replays it.
RequestPublish(a, k) ==
    /\ At(a, "idle") /\ "publish" \in Requests
    /\ k # NoKey => \A j \in Jobs : task[j].key # k
    /\ Become(a, [proc[a] EXCEPT !.pc = "requested", !.key = k])
    /\ UNCHANGED <<pub, lock, task, sched, posts, faults>>

\* preparePublishJobForProject reads the row.
PrepareRequest(a) ==
    /\ At(a, "requested")
    /\ \/ /\ PreparePublishJob(pub)
          /\ Become(a, [proc[a] EXCEPT !.pc = "prepared", !.seen = pub.status])
       \/ /\ ~PreparePublishJob(pub)
          /\ Return(a)
    /\ UNCHANGED <<pub, lock, task, sched, posts, faults>>

\* A held lock ends the request: it replays the queued event or is refused.
AcquireRequestLock(a, j) ==
    /\ At(a, "prepared") /\ HasQueue
    /\ Fresh(j)
    /\ \/ /\ lock = NoJob
          /\ lock' = j
          /\ Become(a, [proc[a] EXCEPT !.pc = "locked", !.job = j])
       \/ /\ lock # NoJob
          /\ Return(a)
          /\ UNCHANGED lock
    /\ UNCHANGED <<pub, task, sched, posts, faults>>

\* The enqueue transaction: schedule row, events, MarkQueued, outbox row.
CommitRequest(a, s) ==
    /\ At(a, "locked")
    /\ sched[s].status = "absent"
    /\ \/ /\ pub.status = proc[a].seen
          /\ pub' = MarkQueued(pub)
          /\ InsertSchedule(s, TRUE, proc[a].key)
          /\ task' = [task EXCEPT ![proc[a].job] =
                         [@ EXCEPT !.state = "recorded", !.sched = s, !.key = proc[a].key]]
          /\ Return(a)
       \/ /\ pub.status # proc[a].seen
          /\ Goto(a, "aborting")
          /\ UNCHANGED <<pub, sched, task>>
    /\ UNCHANGED <<lock, posts, faults>>

\* The transaction rolls back on a database error or an ended request context.
CommitRequestFails(a) ==
    /\ At(a, "locked")
    /\ Fault("database")
    /\ Goto(a, "aborting")
    /\ UNCHANGED <<pub, lock, task, sched, posts>>

AbortRequest(a) ==
    /\ At(a, "aborting")
    /\ \/ ReleaseLock(proc[a].job) /\ UNCHANGED faults
       \/ Fault("redis") /\ UNCHANGED lock
    /\ Return(a)
    /\ UNCHANGED <<pub, task, sched, posts>>

\* Without a queue the request creates the schedule and publishes itself.
PublishDirectly(a, s) ==
    /\ At(a, "prepared") /\ ~HasQueue
    /\ sched[s].status = "absent"
    /\ InsertSchedule(s, TRUE, proc[a].key)
    /\ Become(a, [proc[a] EXCEPT !.pc = "owned", !.sched = s, !.seen = "none"])
    /\ UNCHANGED <<pub, lock, task, posts, faults>>
-----------------------------------------------------------------------------
(* The calendar requests: schedule, cancel, retry.                         *)

\* ScheduleProjectPublication: preparePublishJob, then the key lookup.
RequestSchedule(a, k) ==
    /\ At(a, "idle") /\ "schedule" \in Requests
    /\ PreparePublishJob(pub)
    /\ k # NoKey => \A s \in Schedules : sched[s].key # k
    /\ Become(a, [proc[a] EXCEPT !.pc = "scheduling", !.key = k])
    /\ UNCHANGED <<pub, lock, task, sched, posts, faults>>

CreateScheduledPublication(a, s) ==
    /\ At(a, "scheduling")
    /\ sched[s].status = "absent"
    /\ InsertSchedule(s, FALSE, proc[a].key)
    /\ Return(a)
    /\ UNCHANGED <<pub, lock, task, posts, faults>>

\* CancelScheduledPublication reads the row and refuses a running one...
RequestCancel(a, s) ==
    /\ At(a, "idle") /\ "cancel" \in Requests
    /\ sched[s].status \notin {"absent", "running", "published"}
    /\ Become(a, [proc[a] EXCEPT !.pc = "cancelling", !.sched = s])
    /\ UNCHANGED <<pub, lock, task, sched, posts, faults>>

\* ... and then updates it by ID, whatever its status is by now.
CancelScheduledPublication(a) ==
    /\ At(a, "cancelling")
    /\ UpdateSchedule(proc[a].sched, "cancelled")
    /\ Return(a)
    /\ UNCHANGED <<pub, lock, task, posts, faults>>

\* RetryScheduledPublication publishes in the API process, without the lock.
RetryScheduledPublication(a, s) ==
    /\ At(a, "idle") /\ "retry" \in Requests
    /\ sched[s].status = "failed"
    /\ Become(a, [proc[a] EXCEPT !.pc = "owned", !.sched = s])
    /\ UNCHANGED <<pub, lock, task, sched, posts, faults>>
-----------------------------------------------------------------------------
(* Jobs reach a process: through the outbox and Asynq, or from the ticker. *)

OutboxDelivers(j) ==
    /\ task[j].state = "recorded"
    /\ task' = [task EXCEPT ![j].state = "pending"]
    /\ UNCHANGED <<pub, lock, sched, posts, proc, faults>>

TakeTask(w, j) ==
    /\ At(w, "idle")
    /\ task[j].state = "pending"
    /\ task' = [task EXCEPT ![j] = [@ EXCEPT !.state = "active", !.worker = w]]
    /\ Become(w, [proc[w] EXCEPT !.pc = "check", !.job = j, !.sched = task[j].sched])
    /\ UNCHANGED <<pub, lock, sched, posts, faults>>

\* Asynq takes a task back when its lease or its deadline ends.
RecoverTask(j) ==
    /\ task[j].state = "active"
    /\ \/ proc[task[j].worker].job = j /\ Fault("redelivery")
       \/ proc[task[j].worker].job # j /\ UNCHANGED faults
    /\ task' = TaskReturns(j, TRUE)
    /\ UNCHANGED <<pub, lock, sched, posts, proc>>

\* FlushScheduledPublications selects a due row.
SelectDueSchedule(d, s) ==
    /\ At(d, "idle") /\ HasQueue
    /\ sched[s].status = "scheduled" /\ sched[s].due
    /\ Become(d, [proc[d] EXCEPT !.pc = "due", !.sched = s])
    /\ UNCHANGED <<pub, lock, task, sched, posts, faults>>

\* dispatchScheduledPublication takes the lock under a new job ID, or gives up.
DispatchScheduledPublication(d, j) ==
    /\ At(d, "due")
    /\ Fresh(j)
    /\ \/ /\ lock = NoJob
          /\ lock' = j
          /\ Become(d, [proc[d] EXCEPT !.pc = "check", !.job = j])
       \/ /\ lock # NoJob
          /\ Return(d)
          /\ UNCHANGED lock
    /\ UNCHANGED <<pub, task, sched, posts, faults>>
-----------------------------------------------------------------------------
(* processPublishJob: ensurePublishJobLock.                                *)

CheckLockValue(p) ==
    /\ At(p, "check")
    /\ \/ lock = proc[p].job /\ Goto(p, "owned") /\ UNCHANGED task
       \/ lock = NoJob /\ Goto(p, "unlocked") /\ UNCHANGED task
       \/ lock \notin {proc[p].job, NoJob} /\ JobReturns(p, FALSE)
    /\ UNCHANGED <<pub, lock, sched, posts, faults>>

CheckRetriable(p) ==
    /\ At(p, "unlocked")
    /\ \/ PublicationRetriableForJob(pub) /\ Goto(p, "retriable") /\ UNCHANGED task
       \/ ~PublicationRetriableForJob(pub) /\ JobReturns(p, FALSE)
    /\ UNCHANGED <<pub, lock, sched, posts, faults>>

\* Mutant of ReacquireLock: SET instead of SET NX.
OverwriteLock(p) ==
    /\ At(p, "retriable")
    /\ lock' = proc[p].job
    /\ Goto(p, "owned")
    /\ UNCHANGED <<pub, task, sched, posts, faults>>

ReacquireLock(p) ==
    /\ At(p, "retriable")
    /\ \/ lock = NoJob /\ lock' = proc[p].job /\ Goto(p, "owned") /\ UNCHANGED task
       \/ lock # NoJob /\ JobReturns(p, FALSE) /\ UNCHANGED lock
    /\ UNCHANGED <<pub, sched, posts, faults>>

\* A Redis or database error before the lock is owned fails the task.
LockCheckFails(p) ==
    /\ proc[p].pc \in {"check", "unlocked", "retriable"}
    /\ Fault("redis")
    /\ JobReturns(p, TRUE)
    /\ UNCHANGED <<pub, lock, sched, posts>>

\* startPublishLockRefresh sees another value and cancels the publish context.
RefreshLosesOwnership(p) ==
    /\ proc[p].pc \in PublishPCs /\ proc[p].job # NoJob
    /\ lock # proc[p].job
    /\ proc[p].ctx = "live"
    /\ Become(p, [proc[p] EXCEPT !.ctx = "lost"])
    /\ UNCHANGED <<pub, lock, task, sched, posts, faults>>

ContextEnds(p) ==
    /\ proc[p].pc \in PublishPCs
    /\ proc[p].ctx = "live"
    /\ Fault("timeout")
    /\ Become(p, [proc[p] EXCEPT !.ctx = "timeout"])
    /\ UNCHANGED <<pub, lock, task, sched, posts>>
-----------------------------------------------------------------------------
(* PublishProjectInWorkspaceWithContext.                                   *)

ReadPublication(p) ==
    /\ At(p, "owned") /\ proc[p].ctx = "live"
    /\ \/ PublicationDisabled(pub) /\ Goto(p, "erring")
       \/ /\ ~PublicationDisabled(pub)
          /\ Become(p, [proc[p] EXCEPT
                !.pc = "read",
                !.seen = IF PublicationRequiresSync(pub) THEN "unsynced" ELSE pub.status])
    /\ UNCHANGED <<pub, lock, task, sched, posts, faults>>

\* Mutant of Startable: an attempt that seems to hang may be started again.
StartableWhenRunning == {"scheduled", "failed", "running"}

Startable == {"scheduled", "failed"}

StartPublishAttempt(p) ==
    /\ At(p, "read") /\ proc[p].ctx = "live"
    /\ \/ /\ sched[proc[p].sched].status \in Startable
          /\ UpdateSchedule(proc[p].sched, "running")
          /\ Goto(p, "started")
       \/ /\ sched[proc[p].sched].status \notin Startable
          /\ Goto(p, "erring")
          /\ UNCHANGED sched
    /\ UNCHANGED <<pub, lock, task, posts, faults>>

\* A draft that is not synced, missing or unhealthy credentials, media or
\* cookies that cannot be loaded: failAttempt.
PrecheckFails(p) ==
    /\ At(p, "started") /\ proc[p].ctx = "live"
    /\ Goto(p, "failing")
    /\ UNCHANGED <<pub, lock, task, sched, posts, faults>>

\* MarkPublishing compares the status with the one read; a mismatch fails.
BeginPublishing(p) ==
    /\ At(p, "started") /\ proc[p].ctx = "live"
    /\ proc[p].seen # "unsynced"
    /\ \/ pub.status = proc[p].seen /\ pub' = MarkPublishing(pub) /\ Goto(p, "publishing")
       \/ pub.status # proc[p].seen /\ Goto(p, "failing") /\ UNCHANGED pub
    /\ UNCHANGED <<lock, task, sched, posts, faults>>

\* The one call to the platform; a cancelled context may or may not stop it.
PublisherAccepts(p) ==
    /\ At(p, "publishing")
    /\ posts' = [posts EXCEPT ![proc[p].sched] = @ + 1]
    /\ Goto(p, "posted")
    /\ UNCHANGED <<pub, lock, task, sched, faults>>

PublisherRejects(p) ==
    /\ At(p, "publishing")
    /\ Goto(p, "rejected")
    /\ UNCHANGED <<pub, lock, task, sched, posts, faults>>

\* Mutant of CompletePublication: the platform's refusal is not looked at.
CompleteWhateverTheAnswer(p) ==
    /\ proc[p].pc \in {"posted", "rejected"} /\ proc[p].ctx = "live"
    /\ pub' = CompletedPublication(pub, TRUE)
    /\ Goto(p, "completed")
    /\ UNCHANGED <<lock, task, sched, posts, faults>>

\* CompletePublication writes by ID, whatever the status is by now.
CompletePublication(p) ==
    /\ proc[p].pc \in {"posted", "rejected"} /\ proc[p].ctx = "live"
    /\ pub' = CompletedPublication(pub, At(p, "posted"))
    /\ Goto(p, IF At(p, "posted") THEN "completed" ELSE "declined")
    /\ UNCHANGED <<lock, task, sched, posts, faults>>

\* Mutant of FinishPublishAttempt: the schedule is put back for another try.
FinishAsFailed(p) ==
    /\ proc[p].pc \in {"completed", "declined"} /\ proc[p].ctx = "live"
    /\ UpdateSchedule(proc[p].sched, "failed")
    /\ Goto(p, IF At(p, "completed") THEN "succeeded" ELSE "unsuccessful")
    /\ UNCHANGED <<pub, lock, task, posts, faults>>

FinishPublishAttempt(p) ==
    /\ proc[p].pc \in {"completed", "declined"} /\ proc[p].ctx = "live"
    /\ UpdateSchedule(proc[p].sched, IF At(p, "completed") THEN "published" ELSE "failed")
    /\ Goto(p, IF At(p, "completed") THEN "succeeded" ELSE "unsuccessful")
    /\ UNCHANGED <<pub, lock, task, posts, faults>>

\* Mutant of FailAttempt: the error is returned without closing the attempt.
LeaveAttemptOpen(p) ==
    /\ At(p, "failing") /\ proc[p].ctx = "live"
    /\ Goto(p, "erring")
    /\ UNCHANGED <<pub, lock, task, sched, posts, faults>>

FailAttempt(p) ==
    /\ At(p, "failing") /\ proc[p].ctx = "live"
    /\ UpdateSchedule(proc[p].sched, "failed")
    /\ Goto(p, "erring")
    /\ UNCHANGED <<pub, lock, task, posts, faults>>

\* Where a failed statement leaves the code.  The error of failAttempt's own
\* transaction is dropped; loading the account row fails without failAttempt.
OnError(pc) ==
    CASE pc \in {"owned", "read", "completed", "declined", "failing"} -> {"erring"}
      [] pc = "started"                 -> {"failing", "erring"}
      [] pc \in {"posted", "rejected"}  -> {"failing"}
      [] OTHER                          -> {}

\* A database error, or any statement once the publish context has ended.
StatementFails(p) ==
    /\ \/ proc[p].ctx = "live" /\ Fault("database")
       \/ proc[p].ctx # "live" /\ UNCHANGED faults
    /\ \E pc \in OnError(proc[p].pc) : Goto(p, pc)
    /\ UNCHANGED <<pub, lock, task, sched, posts>>
-----------------------------------------------------------------------------
(* processPublishJob: what follows the publish.                            *)

\* A direct publish or a manual retry has no clean-up.
RequestReturns(p) ==
    /\ proc[p].job = NoJob
    /\ proc[p].pc \in {"succeeded", "unsuccessful", "erring"}
    /\ Return(p)
    /\ UNCHANGED <<pub, lock, task, sched, posts, faults>>

JobStopsAfterLostLock(p) ==
    /\ At(p, "erring") /\ proc[p].job # NoJob
    /\ proc[p].ctx = "lost"
    /\ JobReturns(p, FALSE)
    /\ UNCHANGED <<pub, lock, sched, posts, faults>>

\* MarkFailedForWorkspace, under a context of its own; its error is logged.
MarkJobFailed(p) ==
    /\ At(p, "erring") /\ proc[p].job # NoJob
    /\ proc[p].ctx # "lost"
    /\ \/ pub' = MarkFailed(pub) /\ UNCHANGED faults
       \/ Fault("database") /\ UNCHANGED pub
    /\ Goto(p, "marked")
    /\ UNCHANGED <<lock, task, sched, posts>>

\* The last event and ReleaseLock, whose error is only logged.  After a
\* success the lock is released under the task's own context.
JobReleasesLock(p) ==
    /\ proc[p].pc \in {"succeeded", "unsuccessful", "marked"} /\ proc[p].job # NoJob
    /\ \/ ~(At(p, "succeeded") /\ proc[p].ctx = "timeout")
          /\ ReleaseLock(proc[p].job) /\ UNCHANGED faults
       \/ At(p, "succeeded") /\ proc[p].ctx = "timeout" /\ UNCHANGED <<lock, faults>>
       \/ Fault("redis") /\ UNCHANGED lock
    /\ JobReturns(p, ~At(p, "succeeded"))
    /\ UNCHANGED <<pub, sched, posts>>
-----------------------------------------------------------------------------
(* Time, crashes and edits.                                                *)

Crash(p) ==
    /\ proc[p].pc \notin {"idle", "returned"}
    /\ Fault("crash")
    /\ Return(p)
    /\ UNCHANGED <<pub, lock, task, sched, posts>>

\* A process relies on the lock of its job until it returns.
InUse(j) == \E p \in Procs : proc[p].job = j

\* publishLockTTL ends: certain when nobody refreshes the lock any more.
LockLapses ==
    /\ lock # NoJob
    /\ \/ InUse(lock) /\ Fault("lapse")
       \/ ~InUse(lock) /\ UNCHANGED faults
    /\ lock' = NoJob
    /\ UNCHANGED <<pub, task, sched, posts, proc>>

\* publishStaleAfter ends, twice the lock's TTL.
PublicationTurnsStale ==
    /\ pub.status \in ActivePublicationStatuses /\ ~pub.stale
    /\ lock = NoJob \/ InUse(lock)
    /\ \/ (\E p \in Procs : proc[p].pc \in PublishPCs) /\ Fault("lapse")
       \/ (\A p \in Procs : proc[p].pc \notin PublishPCs) /\ UNCHANGED faults
    /\ pub' = [pub EXCEPT !.stale = TRUE]
    /\ UNCHANGED <<lock, task, sched, posts, proc>>

ScheduleComesDue(s) ==
    /\ sched[s].status = "scheduled" /\ ~sched[s].due
    /\ sched' = [sched EXCEPT ![s].due = TRUE]
    /\ UNCHANGED <<pub, lock, task, posts, proc, faults>>

\* The transactions of the editing services, each one statement on this row; what
\* was disabled may be selected again.
EditPublication ==
    /\ \/ /\ Fault("edit")
          /\ \/ pub' = DisablePublication(pub)
             \/ pub' = ResetPublicationForDraft(pub, TRUE)
             \/ pub' = SavedDraft(1)
             \/ pub.status \notin ActivePublicationStatuses /\ pub' = MarkPrepublishSyncing(pub)
             \/ \E kind \in {"user_review", "failed"} : pub' = ExtensionPublicationUpdate(pub, kind)
       \/ PublicationDisabled(pub) /\ pub' = ResetPublicationForDraft(pub, FALSE) /\ UNCHANGED faults
    /\ UNCHANGED <<lock, task, sched, posts, proc>>

\* A sync that marked the row ends: it saves a draft or records its failure.
FinishSync ==
    /\ pub.status = "syncing"
    /\ pub' \in {SavedDraft(1), CompileFailed(pub), DraftMissing(pub)}
    /\ UNCHANGED <<lock, task, sched, posts, proc, faults>>
-----------------------------------------------------------------------------
Request(a) ==
    \/ \E k \in Keys \cup {NoKey} : RequestPublish(a, k) \/ RequestSchedule(a, k)
    \/ \E s \in Schedules : RequestCancel(a, s) \/ RetryScheduledPublication(a, s)

Enqueue(a) ==
    \/ PrepareRequest(a)
    \/ \E j \in Jobs : AcquireRequestLock(a, j)
    \/ \E s \in Schedules : CommitRequest(a, s) \/ PublishDirectly(a, s)
                            \/ CreateScheduledPublication(a, s)
    \/ AbortRequest(a)
    \/ CancelScheduledPublication(a)

ProcessPublishJob(p) ==
    \/ CheckLockValue(p) \/ CheckRetriable(p) \/ ReacquireLock(p)
    \/ JobStopsAfterLostLock(p) \/ MarkJobFailed(p) \/ JobReleasesLock(p)

PublishProject(p) ==
    \/ ReadPublication(p) \/ StartPublishAttempt(p)
    \/ PrecheckFails(p) \/ BeginPublishing(p)
    \/ PublisherAccepts(p) \/ PublisherRejects(p)
    \/ CompletePublication(p) \/ FinishPublishAttempt(p) \/ FailAttempt(p)
    \/ StatementFails(p) \/ RequestReturns(p)

Next ==
    \/ \E a \in ApiCalls : Request(a) \/ Enqueue(a) \/ CommitRequestFails(a)
    \/ \E w \in Workers, j \in Jobs : TakeTask(w, j)
    \/ \E d \in Dispatchers, s \in Schedules : SelectDueSchedule(d, s)
    \/ \E d \in Dispatchers, j \in Jobs : DispatchScheduledPublication(d, j)
    \/ \E p \in Procs : ProcessPublishJob(p) \/ PublishProject(p) \/ LockCheckFails(p)
                        \/ RefreshLosesOwnership(p) \/ ContextEnds(p) \/ Crash(p)
    \/ \E j \in Jobs : OutboxDelivers(j) \/ RecoverTask(j)
    \/ \E s \in Schedules : ScheduleComesDue(s)
    \/ LockLapses \/ PublicationTurnsStale \/ EditPublication \/ FinishSync

Spec == Init /\ [][Next]_vars

(***************************************************************************)
(* Fairness.  A request, a job and a ticker run on while their process     *)
(* lives.  The outbox delivers (RecordedJobIsDispatched of PublishOutbox), *)
(* an idle worker takes pending tasks, Asynq's recoverer takes back those  *)
(* of dead workers, and time passes.  Every flush of the ticker goes       *)
(* through all due rows, hence the strong fairness per row.                *)
(***************************************************************************)
Fairness ==
    /\ \A a \in ApiCalls : WF_vars(Enqueue(a))
    /\ \A p \in Procs : WF_vars(ProcessPublishJob(p) \/ PublishProject(p))
    /\ \A j \in Jobs : /\ WF_vars(OutboxDelivers(j))
                       /\ WF_vars(RecoverTask(j))
                       /\ SF_vars(\E w \in Workers : TakeTask(w, j))
    /\ \A d \in Dispatchers : /\ \A s \in Schedules : SF_vars(SelectDueSchedule(d, s))
                              /\ WF_vars(\E j \in Jobs : DispatchScheduledPublication(d, j))
    /\ \A s \in Schedules : WF_vars(ScheduleComesDue(s))
    /\ WF_vars(LockLapses)

FairSpec == Spec /\ Fairness
-----------------------------------------------------------------------------
(* Safety.                                                                 *)

(***************************************************************************)
(* A schedule has at most one attempt under way, whatever crashes, lapses, *)
(* redeliveries, retries and cancellations happen: StartPublishAttempt     *)
(* claims the row with one guarded UPDATE, and only the process that       *)
(* claimed it makes it startable again.                                    *)
(***************************************************************************)
OneAttemptPerSchedule ==
    \A p, q \in Procs :
        /\ proc[p].pc \in AttemptPCs /\ proc[q].pc \in AttemptPCs
        /\ proc[p].sched = proc[q].sched
        => p = q

\* Every process that publishes under the lock owns it.
HoldsLock(p) == proc[p].pc \in PublishPCs /\ proc[p].job # NoJob

(***************************************************************************)
(* The publish lock excludes: while no lock has lapsed under a running     *)
(* process and Asynq has not handed out a running task again, two jobs     *)
(* are never published at the same time, whichever of them came from the   *)
(* queue, from the ticker or from a retry after a failure.                 *)
(***************************************************************************)
LockExcludes ==
    {"lapse", "redelivery"} \cap faults.kinds = {} =>
        \A p, q \in Procs : HoldsLock(p) /\ HoldsLock(q) => p = q

(***************************************************************************)
(* A stale worker cannot release a newer owner's lock: outside expiry, a   *)
(* lock is only given up by a process that runs the job it names, and a    *)
(* held lock is never taken over directly.                                 *)
(***************************************************************************)
ReleasedByOwnerOnly ==
    [][lock # NoJob /\ lock' # lock =>
         /\ lock' = NoJob
         /\ \/ UNCHANGED proc
            \/ \E p \in Procs : proc[p].job = lock /\ proc'[p] = Rest(p)]_vars

(***************************************************************************)
(* No duplicate post: the platform accepts at most one post per schedule,  *)
(* through crashes, timeouts, lost locks, redeliveries and task retries,   *)
(* unless the database rejects the statement that records a success.       *)
(***************************************************************************)
OnePostPerSchedule ==
    "database" \notin faults.kinds => \A s \in Schedules : posts[s] <= 1

(***************************************************************************)
(* What the calendar shows as published has been posted.                   *)
(***************************************************************************)
PublishedMeansPosted ==
    \A s \in Schedules : sched[s].status = "published" => posts[s] > 0
-----------------------------------------------------------------------------
(* Liveness.                                                               *)

\* The faults that cut an attempt short between its start and its finish.
Interrupting == {"crash", "database", "timeout", "lapse"}

(***************************************************************************)
(* A due schedule is attempted and settled: whatever crashes, times out,   *)
(* lapses, is delivered twice or is rejected by the database or by Redis,  *)
(* the task's retries, the lock's TTL and the ticker between them bring it *)
(* to an attempt that publishes it, fails it or finds it cancelled; only   *)
(* an interrupted attempt may stay open.                                   *)
(***************************************************************************)
DueScheduleServed ==
    \A s \in Schedules :
        sched[s].status = "scheduled" /\ sched[s].due
            ~> \/ sched[s].status \in {"published", "failed", "cancelled"}
               \/ sched[s].status = "running" /\ Interrupting \cap faults.kinds # {}
-----------------------------------------------------------------------------
(* What the documents say and the code does not keep.                      *)

(***************************************************************************)
(* "Avoid concurrent publishing of the same publication": no two processes *)
(* are in the platform call at once.                                       *)
(***************************************************************************)
NoConcurrentPublish ==
    \A p, q \in Procs : At(p, "publishing") /\ At(q, "publishing") => p = q

(***************************************************************************)
(* "Prevent ... duplicate publishing": one schedule is posted once.        *)
(***************************************************************************)
NoDuplicatePost == \A s \in Schedules : posts[s] <= 1

(***************************************************************************)
(* "Duplicate requests replay durable publish events by idempotency key    *)
(* instead of creating another owner silently": two queued jobs never      *)
(* carry the same key.                                                     *)
(***************************************************************************)
KeyOwnedOnce ==
    \A i, j \in Jobs : task[i].key = task[j].key /\ task[i].key # NoKey => i = j

(***************************************************************************)
(* "Publish jobs have ack/retry/worker crash recovery": a due schedule is  *)
(* settled in the end.                                                     *)
(***************************************************************************)
DueScheduleSettles ==
    \A s \in Schedules :
        sched[s].status = "scheduled" /\ sched[s].due
            ~> sched[s].status \in {"published", "failed", "cancelled"}
=============================================================================
