----------------------- MODULE PublishPipelineProofs -----------------------
(***************************************************************************)
(* Safety of the publish pipeline for any number of calls, workers,        *)
(* dispatchers, jobs, schedules, retries and faults: types, one attempt per*)
(* schedule, exclusion by the publish lock, release by its owner only, one *)
(* post per schedule, and no schedule shown as published without a post.   *)
(***************************************************************************)
EXTENDS PublishPipeline, TLAPS

-----------------------------------------------------------------------------
(* Types, and what the helpers do that the other proofs use                *)

\* The values of faults.
FaultState == [kinds : SUBSET FaultKinds, left : Nat]

\* Calls, workers and dispatchers are processes.
LEMMA ProcKinds ==
  /\ ApiCalls \subseteq Procs
  /\ Workers \subseteq Procs
  /\ Dispatchers \subseteq Procs
  BY DEF Procs

\* The program counters, by name.
LEMMA PCs ==
  /\ PublishPCs \subseteq PC
  /\ AttemptPCs \subseteq PublishPCs
  /\ {"idle", "returned", "requested", "prepared", "locked", "aborting", "scheduling",
      "cancelling", "due", "check", "unlocked", "retriable"} \subseteq PC
  /\ {"owned", "read", "succeeded", "unsuccessful", "erring", "marked",
      "started", "publishing", "posted", "rejected", "completed", "declined", "failing"} \subseteq PC
  BY DEF PC, PublishPCs, AttemptPCs

\* The steps of one process keep the type of proc.
LEMMA BecomeType ==
  ASSUME proc \in [Procs -> Process], NEW p \in Procs, NEW local \in Process, Become(p, local)
  PROVE  proc' \in [Procs -> Process]
  BY DEF Become

\* So does a jump ...
LEMMA GotoType ==
  ASSUME proc \in [Procs -> Process], NEW p \in Procs, NEW pc \in PC, Goto(p, pc)
  PROVE  proc' \in [Procs -> Process]
  <1>1. [proc[p] EXCEPT !.pc = pc] \in Process
    BY DEF Process
  <1> QED
    BY <1>1, BecomeType DEF Goto

\* ... and a return.
LEMMA ReturnType ==
  ASSUME proc \in [Procs -> Process], NEW p \in Procs, Return(p)
  PROVE  proc' \in [Procs -> Process]
  <1>1. Rest(p) \in Process
    BY PCs DEF Rest, AtRest, Process
  <1> QED
    BY <1>1, BecomeType DEF Return

\* A fault keeps the type of the fault counter.
LEMMA FaultType ==
  ASSUME faults \in FaultState, NEW k \in FaultKinds, Fault(k)
  PROVE  faults' \in FaultState
  BY DEF Fault, FaultState

\* Asynq's bookkeeping after a handler returns keeps the type of task.
LEMMA TaskReturnsType ==
  ASSUME task \in [Jobs -> Task], NEW j \in Jobs, NEW failed \in BOOLEAN
  PROVE  TaskReturns(j, failed) \in [Jobs -> Task]
  <1> DEFINE again == failed /\ task[j].retried < MaxRetry
             state == IF again THEN "pending" ELSE IF failed THEN "archived" ELSE "done"
             retried == IF again THEN task[j].retried + 1 ELSE task[j].retried
             row == [task[j] EXCEPT !.worker = NoWorker, !.state = state, !.retried = retried]
  <1>1. task[j] \in Task /\ task[j].retried \in Nat
    BY DEF Task
  <1>2. state \in TaskState /\ retried \in Nat
    BY <1>1 DEF TaskState
  <1> HIDE DEF state, retried
  <1>3. row \in Task
    BY <1>1, <1>2 DEF Task
  <1>4. TaskReturns(j, failed) = [task EXCEPT ![j] = row]
    BY <1>1 DEF TaskReturns, state, retried, Task
  <1> QED
    BY <1>3, <1>4

\* The end of processPublishJob keeps the types of proc and task.
LEMMA JobReturnsType ==
  ASSUME task \in [Jobs -> Task], proc \in [Procs -> Process], NEW p \in Procs,
         NEW failed \in BOOLEAN, JobReturns(p, failed)
  PROVE  /\ proc' \in [Procs -> Process]
         /\ task' \in [Jobs -> Task]
  BY ReturnType, TaskReturnsType DEF JobReturns

\* Every writer of the publication row writes a publication row.
LEMMA RowType ==
  ASSUME NEW row \in Publication({0, 1})
  PROVE  /\ MarkQueued(row) \in Publication({0, 1})
         /\ MarkPublishing(row) \in Publication({0, 1})
         /\ MarkFailed(row) \in Publication({0, 1})
         /\ \A ok \in BOOLEAN : CompletedPublication(row, ok) \in Publication({0, 1})
         /\ DisablePublication(row) \in Publication({0, 1})
         /\ \A all \in BOOLEAN : ResetPublicationForDraft(row, all) \in Publication({0, 1})
         /\ MarkPrepublishSyncing(row) \in Publication({0, 1})
         /\ SavedDraft(1) \in Publication({0, 1})
         /\ CompileFailed(row) \in Publication({0, 1})
         /\ DraftMissing(row) \in Publication({0, 1})
         /\ \A kind \in {"user_review", "failed"} :
               ExtensionPublicationUpdate(row, kind) \in Publication({0, 1})
  BY DEF Publication, PublicationStatus, DraftStatus, MarkQueued, MarkPublishing,
         MarkFailed, CompletedPublication, DisablePublication, ResetPublicationForDraft,
         MarkPrepublishSyncing, SavedDraft, CompileFailed, DraftMissing,
         ExtensionPublicationUpdate

\* The compare-and-delete script leaves a job ID or nothing in the lock.
LEMMA ReleaseType ==
  ASSUME lock \in Jobs \cup {NoJob}, NEW j \in Jobs \cup {NoJob}, ReleaseLock(j)
  PROVE  lock' \in Jobs \cup {NoJob}
  BY DEF ReleaseLock

\* A new schedule row is a schedule row.
LEMMA InsertType ==
  ASSUME sched \in [Schedules -> ScheduledPublication], NEW s \in Schedules,
         NEW due \in BOOLEAN, NEW key \in Keys \cup {NoKey}, InsertSchedule(s, due, key)
  PROVE  sched' \in [Schedules -> ScheduledPublication]
  <1>1. [status |-> "scheduled", due |-> due, key |-> key] \in ScheduledPublication
    BY DEF ScheduledPublication, ScheduleStatus
  <1> QED
    BY <1>1 DEF InsertSchedule

\* A status update keeps the other columns.
LEMMA UpdateType ==
  ASSUME sched \in [Schedules -> ScheduledPublication],
         NEW s, NEW status \in ScheduleStatus, UpdateSchedule(s, status)
  PROVE  sched' \in [Schedules -> ScheduledPublication]
  BY DEF UpdateSchedule, ScheduledPublication

\* Every step keeps the types.
LEMMA NextTypeOK == TypeOK /\ [Next]_vars => TypeOK'
  <1> SUFFICES ASSUME TypeOK, [Next]_vars PROVE TypeOK'
    OBVIOUS
  <1> USE ProcKinds, PCs
  <1>0. /\ pub \in Publication({0, 1}) /\ pub.status \in PublicationStatus
        /\ proc \in [Procs -> Process]
        /\ \A p \in Procs : /\ proc[p] \in Process
                            /\ proc[p].job \in Jobs \cup {NoJob}
                            /\ proc[p].key \in Keys \cup {NoKey}
        /\ \A j \in Jobs : task[j] \in Task /\ task[j].sched \in Schedules \cup {NoSchedule}
        /\ faults \in FaultState
        /\ FaultKinds = {"crash", "database", "redis", "timeout", "lapse", "redelivery", "edit"}
        /\ {"scheduled", "running", "published", "failed", "cancelled"} \subseteq ScheduleStatus
    BY DEF TypeOK, Publication, Process, Task, FaultState, FaultKinds, ScheduleStatus
  <1>1. ASSUME NEW a \in ApiCalls, NEW k \in Keys \cup {NoKey}, RequestPublish(a, k) PROVE TypeOK'
    <2>0. proc[a] \in Process /\ "requested" \in PC
      BY <1>0
    <2>1. [proc[a] EXCEPT !.pc = "requested", !.key = k] \in Process
      BY <2>0, ZenonT(60) DEF Process
    <2> QED
      BY <1>0, <1>1, <2>1, BecomeType DEF RequestPublish, TypeOK
  <1>2. ASSUME NEW a \in ApiCalls, NEW k \in Keys \cup {NoKey}, RequestSchedule(a, k) PROVE TypeOK'
    <2>0. proc[a] \in Process /\ "scheduling" \in PC
      BY <1>0
    <2>1. [proc[a] EXCEPT !.pc = "scheduling", !.key = k] \in Process
      BY <2>0, ZenonT(60) DEF Process
    <2> QED
      BY <1>0, <1>2, <2>1, BecomeType DEF RequestSchedule, TypeOK
  <1>3. ASSUME NEW a \in ApiCalls, NEW s \in Schedules, RequestCancel(a, s) PROVE TypeOK'
    <2>0. proc[a] \in Process /\ "cancelling" \in PC
      BY <1>0
    <2>1. [proc[a] EXCEPT !.pc = "cancelling", !.sched = s] \in Process
      BY <2>0, ZenonT(60) DEF Process
    <2> QED
      BY <1>0, <1>3, <2>1, BecomeType DEF RequestCancel, TypeOK
  <1>4. ASSUME NEW a \in ApiCalls, NEW s \in Schedules, RetryScheduledPublication(a, s) PROVE TypeOK'
    <2>0. proc[a] \in Process /\ "owned" \in PC
      BY <1>0
    <2>1. [proc[a] EXCEPT !.pc = "owned", !.sched = s] \in Process
      BY <2>0, ZenonT(60) DEF Process
    <2> QED
      BY <1>0, <1>4, <2>1, BecomeType DEF RetryScheduledPublication, TypeOK
  <1>5. ASSUME NEW a \in ApiCalls, PrepareRequest(a) PROVE TypeOK'
    <2>0. proc[a] \in Process /\ "prepared" \in PC /\ pub.status \in PublicationStatus
      BY <1>0
    <2>1. [proc[a] EXCEPT !.pc = "prepared", !.seen = pub.status] \in Process
      BY <2>0, ZenonT(60) DEF Process
    <2> QED
      BY <1>0, <1>5, <2>1, BecomeType, ReturnType DEF PrepareRequest, TypeOK
  <1>6. ASSUME NEW a \in ApiCalls, NEW j \in Jobs, AcquireRequestLock(a, j) PROVE TypeOK'
    <2>0. proc[a] \in Process /\ "locked" \in PC
      BY <1>0
    <2>1. [proc[a] EXCEPT !.pc = "locked", !.job = j] \in Process
      BY <2>0, ZenonT(60) DEF Process
    <2> QED
      BY <1>0, <1>6, <2>1, BecomeType, ReturnType DEF AcquireRequestLock, TypeOK
  <1>7. ASSUME NEW a \in ApiCalls, NEW s \in Schedules, CommitRequest(a, s) PROVE TypeOK'
    <2> DEFINE row == [task[proc[a].job] EXCEPT !.state = "recorded", !.sched = s,
                                                !.key = proc[a].key]
    <2>1. proc[a].job \in Jobs => row \in Task
      <3>1. ASSUME proc[a].job \in Jobs
            PROVE  /\ task[proc[a].job] \in Task
                   /\ proc[a].key \in Keys \cup {NoKey}
                   /\ "recorded" \in TaskState
        BY <1>0, <3>1 DEF TaskState
      <3> QED
        BY <3>1, ZenonT(60) DEF Task
    <2>2. CASE InsertSchedule(s, TRUE, proc[a].key) /\ pub' = MarkQueued(pub) /\ Return(a)
               /\ task' = [task EXCEPT ![proc[a].job] = row]
      <3>1. task' \in [Jobs -> Task]
        BY <2>1, <2>2 DEF TypeOK
      <3> QED
        BY <1>0, <1>7, <2>2, <3>1, ReturnType, InsertType, RowType DEF CommitRequest, TypeOK
    <2>3. CASE Goto(a, "aborting") /\ UNCHANGED <<pub, sched, task>>
      BY <1>0, <1>7, <2>3, GotoType DEF CommitRequest, TypeOK
    <2> QED
      BY <1>7, <2>2, <2>3 DEF CommitRequest
  <1>8. ASSUME NEW a \in ApiCalls, NEW s \in Schedules, PublishDirectly(a, s) PROVE TypeOK'
    <2>1. proc[a] \in Process
      BY <1>0
    <2>2. [proc[a] EXCEPT !.pc = "owned", !.sched = s, !.seen = "none"] \in Process
      BY <2>1, ZenonT(60) DEF Process
    <2> QED
      BY <1>0, <1>8, <2>2, BecomeType, InsertType DEF PublishDirectly, TypeOK
  <1>9. ASSUME NEW a \in ApiCalls, NEW s \in Schedules, CreateScheduledPublication(a, s) PROVE TypeOK'
    BY <1>0, <1>9, ReturnType, InsertType DEF CreateScheduledPublication, TypeOK
  <1>10. ASSUME NEW a \in ApiCalls, AbortRequest(a) PROVE TypeOK'
    BY <1>0, <1>10, ReturnType, ReleaseType, FaultType DEF AbortRequest, TypeOK, FaultState
  <1>11. ASSUME NEW a \in ApiCalls, CancelScheduledPublication(a) PROVE TypeOK'
    BY <1>0, <1>11, ReturnType, UpdateType DEF CancelScheduledPublication, TypeOK
  <1>12. ASSUME NEW a \in ApiCalls, CommitRequestFails(a) PROVE TypeOK'
    BY <1>0, <1>12, GotoType, FaultType DEF CommitRequestFails, TypeOK, FaultState
  <1>13. ASSUME NEW w \in Workers, NEW j \in Jobs, TakeTask(w, j) PROVE TypeOK'
    <2>1. proc[w] \in Process /\ task[j].sched \in Schedules \cup {NoSchedule}
      BY <1>0
    <2>2. [proc[w] EXCEPT !.pc = "check", !.job = j, !.sched = task[j].sched] \in Process
      BY <2>1, ZenonT(60) DEF Process
    <2>3. task[j] \in Task /\ "active" \in TaskState
      BY <1>0 DEF TaskState
    <2>4. [task[j] EXCEPT !.state = "active", !.worker = w] \in Task
      BY <2>3, ZenonT(60) DEF Task
    <2> QED
      BY <1>0, <1>13, <2>2, <2>4, BecomeType DEF TakeTask, TypeOK
  <1>14. ASSUME NEW d \in Dispatchers, NEW s \in Schedules, SelectDueSchedule(d, s) PROVE TypeOK'
    <2>0. proc[d] \in Process /\ "due" \in PC
      BY <1>0
    <2>1. [proc[d] EXCEPT !.pc = "due", !.sched = s] \in Process
      BY <2>0, ZenonT(60) DEF Process
    <2> QED
      BY <1>0, <1>14, <2>1, BecomeType DEF SelectDueSchedule, TypeOK
  <1>15. ASSUME NEW d \in Dispatchers, NEW j \in Jobs, DispatchScheduledPublication(d, j) PROVE TypeOK'
    <2>0. proc[d] \in Process /\ "check" \in PC
      BY <1>0
    <2>1. [proc[d] EXCEPT !.pc = "check", !.job = j] \in Process
      BY <2>0, ZenonT(60) DEF Process
    <2> QED
      BY <1>0, <1>15, <2>1, BecomeType, ReturnType DEF DispatchScheduledPublication, TypeOK
  <1>16. ASSUME NEW p \in Procs, CheckLockValue(p) PROVE TypeOK'
    BY <1>0, <1>16, GotoType, JobReturnsType DEF CheckLockValue, TypeOK
  <1>17. ASSUME NEW p \in Procs, CheckRetriable(p) PROVE TypeOK'
    BY <1>0, <1>17, GotoType, JobReturnsType DEF CheckRetriable, TypeOK
  <1>18. ASSUME NEW p \in Procs, ReacquireLock(p) PROVE TypeOK'
    BY <1>0, <1>18, GotoType, JobReturnsType DEF ReacquireLock, TypeOK
  <1>19. ASSUME NEW p \in Procs, JobStopsAfterLostLock(p) PROVE TypeOK'
    BY <1>0, <1>19, JobReturnsType DEF JobStopsAfterLostLock, TypeOK
  <1>20. ASSUME NEW p \in Procs, MarkJobFailed(p) PROVE TypeOK'
    BY <1>0, <1>20, GotoType, FaultType, RowType DEF MarkJobFailed, TypeOK, FaultState
  <1>21. ASSUME NEW p \in Procs, JobReleasesLock(p) PROVE TypeOK'
    BY <1>0, <1>21, JobReturnsType, ReleaseType, FaultType DEF JobReleasesLock, TypeOK, FaultState
  <1>22. ASSUME NEW p \in Procs, ReadPublication(p) PROVE TypeOK'
    <2> DEFINE seen == IF PublicationRequiresSync(pub) THEN "unsynced" ELSE pub.status
    <2>1. seen \in PublicationStatus \cup {"none", "unsynced"}
      BY <1>0
    <2> HIDE DEF seen
    <2>2. proc[p] \in Process /\ "read" \in PC
      BY <1>0
    <2>3. [proc[p] EXCEPT !.pc = "read", !.seen = seen] \in Process
      BY <2>1, <2>2, ZenonT(60) DEF Process
    <2> QED
      BY <1>0, <1>22, <2>3, BecomeType, GotoType DEF ReadPublication, TypeOK, seen
  <1>23. ASSUME NEW p \in Procs, StartPublishAttempt(p) PROVE TypeOK'
    BY <1>0, <1>23, GotoType, UpdateType DEF StartPublishAttempt, TypeOK
  <1>24. ASSUME NEW p \in Procs, PrecheckFails(p) PROVE TypeOK'
    BY <1>0, <1>24, GotoType DEF PrecheckFails, TypeOK
  <1>25. ASSUME NEW p \in Procs, BeginPublishing(p) PROVE TypeOK'
    BY <1>0, <1>25, GotoType, RowType DEF BeginPublishing, TypeOK
  <1>26. ASSUME NEW p \in Procs, PublisherAccepts(p) PROVE TypeOK'
    <2>1. posts' \in [Schedules -> Nat]
      <3>1. CASE proc[p].sched \in Schedules
        <4>1. posts[proc[p].sched] + 1 \in Nat
          BY <3>1 DEF TypeOK
        <4> QED
          BY <1>26, <4>1 DEF PublisherAccepts, TypeOK
      <3>2. CASE proc[p].sched \notin Schedules
        BY <1>26, <3>2 DEF PublisherAccepts, TypeOK
      <3> QED
        BY <3>1, <3>2
    <2> QED
      BY <1>0, <1>26, <2>1, GotoType DEF PublisherAccepts, TypeOK
  <1>27. ASSUME NEW p \in Procs, PublisherRejects(p) PROVE TypeOK'
    BY <1>0, <1>27, GotoType DEF PublisherRejects, TypeOK
  <1>28. ASSUME NEW p \in Procs, CompletePublication(p) PROVE TypeOK'
    <2>1. pub' \in Publication({0, 1})
      BY <1>0, <1>28 DEF CompletePublication, CompletedPublication, Publication, PublicationStatus
    <2> QED
      BY <1>0, <1>28, <2>1, GotoType DEF CompletePublication, TypeOK
  <1>29. ASSUME NEW p \in Procs, FinishPublishAttempt(p) PROVE TypeOK'
    BY <1>0, <1>29, GotoType, UpdateType DEF FinishPublishAttempt, TypeOK
  <1>30. ASSUME NEW p \in Procs, FailAttempt(p) PROVE TypeOK'
    BY <1>0, <1>30, GotoType, UpdateType DEF FailAttempt, TypeOK
  <1>31. ASSUME NEW p \in Procs, StatementFails(p) PROVE TypeOK'
    <2>1. faults' \in FaultState
      BY <1>0, <1>31, FaultType DEF StatementFails
    <2>2. PICK pc \in OnError(proc[p].pc) : Goto(p, pc)
      BY <1>31 DEF StatementFails
    <2>3. pc \in PC
      BY <2>2 DEF OnError
    <2> QED
      BY <1>0, <1>31, <2>1, <2>2, <2>3, GotoType DEF StatementFails, TypeOK, FaultState
  <1>32. ASSUME NEW p \in Procs, RequestReturns(p) PROVE TypeOK'
    BY <1>0, <1>32, ReturnType DEF RequestReturns, TypeOK
  <1>33. ASSUME NEW p \in Procs, LockCheckFails(p) PROVE TypeOK'
    BY <1>0, <1>33, JobReturnsType, FaultType DEF LockCheckFails, TypeOK, FaultState
  <1>34. ASSUME NEW p \in Procs, RefreshLosesOwnership(p) PROVE TypeOK'
    <2>1. [proc[p] EXCEPT !.ctx = "lost"] \in Process
      BY <1>0 DEF Process
    <2> QED
      BY <1>0, <1>34, <2>1, BecomeType DEF RefreshLosesOwnership, TypeOK
  <1>35. ASSUME NEW p \in Procs, ContextEnds(p) PROVE TypeOK'
    <2>1. [proc[p] EXCEPT !.ctx = "timeout"] \in Process
      BY <1>0 DEF Process
    <2> QED
      BY <1>0, <1>35, <2>1, BecomeType, FaultType DEF ContextEnds, TypeOK, FaultState
  <1>36. ASSUME NEW p \in Procs, Crash(p) PROVE TypeOK'
    BY <1>0, <1>36, ReturnType, FaultType DEF Crash, TypeOK, FaultState
  <1>37. ASSUME NEW j \in Jobs, OutboxDelivers(j) PROVE TypeOK'
    <2>1. [task[j] EXCEPT !.state = "pending"] \in Task
      BY <1>0 DEF Task, TaskState
    <2> QED
      BY <1>37, <2>1 DEF OutboxDelivers, TypeOK
  <1>38. ASSUME NEW j \in Jobs, RecoverTask(j) PROVE TypeOK'
    BY <1>0, <1>38, TaskReturnsType, FaultType DEF RecoverTask, TypeOK, FaultState
  <1>39. ASSUME NEW s \in Schedules, ScheduleComesDue(s) PROVE TypeOK'
    <2>1. [sched[s] EXCEPT !.due = TRUE] \in ScheduledPublication
      BY DEF TypeOK, ScheduledPublication
    <2> QED
      BY <1>39, <2>1 DEF ScheduleComesDue, TypeOK
  <1>40. CASE LockLapses
    BY <1>0, <1>40, FaultType DEF LockLapses, TypeOK, FaultState
  <1>41. CASE PublicationTurnsStale
    <2>1. [pub EXCEPT !.stale = TRUE] \in Publication({0, 1})
      BY <1>0 DEF Publication
    <2> QED
      BY <1>0, <1>41, <2>1, FaultType DEF PublicationTurnsStale, TypeOK, FaultState
  <1>42. CASE EditPublication
    BY <1>0, <1>42, FaultType, RowType DEF EditPublication, TypeOK, FaultState
  <1>43. CASE FinishSync
    BY <1>0, <1>43, RowType DEF FinishSync, TypeOK
  <1>44. CASE UNCHANGED vars
    BY <1>44 DEF vars, TypeOK
  <1> QED
    BY <1>1, <1>2, <1>3, <1>4, <1>5, <1>6, <1>7, <1>8, <1>9, <1>10, <1>11, <1>12, <1>13,
       <1>14, <1>15, <1>16, <1>17, <1>18, <1>19, <1>20, <1>21, <1>22, <1>23, <1>24, <1>25,
       <1>26, <1>27, <1>28, <1>29, <1>30, <1>31, <1>32, <1>33, <1>34, <1>35, <1>36, <1>37,
       <1>38, <1>39, <1>40, <1>41, <1>42, <1>43, <1>44
    DEF Next, Request, Enqueue, ProcessPublishJob, PublishProject

\* The initial states have the types.
LEMMA InitTypeOK == Init => TypeOK
  <1> SUFFICES ASSUME Init PROVE TypeOK
    OBVIOUS
  <1>1. AtRest("idle") \in Process
    BY PCs DEF AtRest, Process
  <1>2. SavedDraft(1) \in Publication({0, 1})
    BY DEF SavedDraft, Publication, PublicationStatus, DraftStatus
  <1>3. task \in [Jobs -> Task]
    BY DEF Init, Task, TaskState
  <1>4. sched \in [Schedules -> ScheduledPublication]
    BY DEF Init, ScheduledPublication, ScheduleStatus
  <1>5. faults \in FaultState
    BY PipelineAssumption DEF Init, FaultState
  <1> QED
    BY <1>1, <1>2, <1>3, <1>4, <1>5 DEF Init, TypeOK, FaultState

(***************************************************************************)
(* Every statement, command and crash of the publish service keeps the     *)
(* publication row, the lock, the tasks, the schedules and the processes   *)
(* within their types; in particular no status outside the enumerations of *)
(* models.go is ever written to a row.                                     *)
(***************************************************************************)
THEOREM PipelineTypeCorrect == Spec => []TypeOK
  BY InitTypeOK, NextTypeOK, PTL DEF Spec

-----------------------------------------------------------------------------
(***************************************************************************)
(* Who may refer to a job.  A request or a dispatcher makes its job up, so *)
(* Asynq does not know the job and nobody else refers to it.  A worker     *)
(* runs a job Asynq handed out and, unless Asynq has handed out a running  *)
(* task again, it is the worker that Asynq thinks runs it.                 *)
(***************************************************************************)
JobOwnership ==
    /\ \A j \in Jobs : task[j].worker # NoWorker => task[j].state = "active"
    /\ \A j \in Jobs : task[j].state = "active" => task[j].worker \in Workers
    /\ \A p \in Procs :
          proc[p].pc \in {"idle", "returned", "requested", "prepared"} => proc[p].job = NoJob
    /\ \A p \in ApiCalls \cup Dispatchers :
          proc[p].job # NoJob => task[proc[p].job].state = "free"
    /\ \A p, q \in ApiCalls \cup Dispatchers :
          proc[p].job = proc[q].job /\ proc[p].job # NoJob => p = q
    /\ \A w \in Workers : proc[w].job # NoJob => task[proc[w].job].state # "free"
    /\ "redelivery" \notin faults.kinds =>
          \A w \in Workers :
             proc[w].job # NoJob => /\ task[proc[w].job].state = "active"
                                    /\ task[proc[w].job].worker = w

(***************************************************************************)
(* Every process that works on a schedule has one, and so has every task   *)
(* that a request committed.                                               *)
(***************************************************************************)
ScheduleKnown ==
    /\ \A j \in Jobs : task[j].state # "free" => task[j].sched \in Schedules
    /\ \A p \in Procs :
          proc[p].pc \in PublishPCs \cup {"cancelling", "due", "check", "unlocked", "retriable"}
              => proc[p].sched \in Schedules

(***************************************************************************)
(* An attempt keeps its schedule claimed: the row is "running", or a late  *)
(* CancelScheduledPublication has overwritten that; neither is startable.  *)
(***************************************************************************)
AttemptClaimed ==
    \A p \in Procs :
        proc[p].pc \in AttemptPCs => sched[proc[p].sched].status \in {"running", "cancelled"}

(***************************************************************************)
(* A process that publishes under the lock has its job in it.              *)
(***************************************************************************)
LockHeld ==
    {"lapse", "redelivery"} \cap faults.kinds = {} =>
        \A p \in Procs : HoldsLock(p) => lock = proc[p].job

(***************************************************************************)
(* A schedule the platform has accepted a post of cannot be started again, *)
(* and the attempt that posted it can only go on to record the success, or *)
(* has lost its context and cannot write at all.                           *)
(***************************************************************************)
PostedIsClosed ==
    /\ \A p \in Procs : proc[p].pc \in {"posted", "completed"} => posts[proc[p].sched] > 0
    /\ "database" \notin faults.kinds =>
          \A s \in Schedules : posts[s] > 0 =>
             /\ posts[s] = 1
             /\ sched[s].status \in {"running", "published", "cancelled"}
             /\ \A p \in Procs : proc[p].sched = s /\ proc[p].pc \in AttemptPCs =>
                   \/ proc[p].pc \in {"posted", "completed"}
                   \/ proc[p].pc = "failing" /\ proc[p].ctx # "live"

AttemptInv == AttemptClaimed /\ OneAttemptPerSchedule

PostInv == PublishedMeansPosted /\ PostedIsClosed

IInv == TypeOK /\ JobOwnership /\ ScheduleKnown /\ AttemptInv /\ LockHeld /\ PostInv
-----------------------------------------------------------------------------
\* Jobs are made up, handed out and returned as JobOwnership says.
LEMMA NextJobOwnership ==
  TypeOK /\ JobOwnership /\ [Next]_vars => JobOwnership'
  <1> SUFFICES ASSUME TypeOK, JobOwnership, [Next]_vars PROVE JobOwnership'
    OBVIOUS
  <1> USE ProcKinds, PipelineAssumption DEF JobOwnership, At, Goto, Return, Rest, AtRest,
          Become, Process, JobReturns, TaskReturns, Task, Fault, Fresh
  <1>0. /\ proc \in [Procs -> Process]
        /\ task \in [Jobs -> Task]
        /\ faults.kinds \in SUBSET FaultKinds
    BY DEF TypeOK
  <1>1. ASSUME NEW a \in ApiCalls, NEW k \in Keys \cup {NoKey}, RequestPublish(a, k) PROVE JobOwnership'
    BY <1>1, <1>0 DEF RequestPublish
  <1>2. ASSUME NEW a \in ApiCalls, NEW k \in Keys \cup {NoKey}, RequestSchedule(a, k) PROVE JobOwnership'
    BY <1>2, <1>0 DEF RequestSchedule
  <1>3. ASSUME NEW a \in ApiCalls, NEW s \in Schedules, RequestCancel(a, s) PROVE JobOwnership'
    BY <1>3, <1>0 DEF RequestCancel
  <1>4. ASSUME NEW a \in ApiCalls, NEW s \in Schedules, RetryScheduledPublication(a, s) PROVE JobOwnership'
    BY <1>4, <1>0 DEF RetryScheduledPublication
  <1>5. ASSUME NEW a \in ApiCalls, PrepareRequest(a) PROVE JobOwnership'
    <2>0. At(a, "requested") /\ UNCHANGED <<lock, task, sched, posts, faults>>
      BY <1>5 DEF PrepareRequest
    <2>1. CASE Become(a, [proc[a] EXCEPT !.pc = "prepared", !.seen = pub.status])
      BY <2>0, <2>1, <1>0
    <2>2. CASE Return(a)
      BY <2>0, <2>2, <1>0
    <2> QED
      BY <1>5, <2>1, <2>2 DEF PrepareRequest
  <1>6. ASSUME NEW a \in ApiCalls, NEW j \in Jobs, AcquireRequestLock(a, j) PROVE JobOwnership'
    <2>0. At(a, "prepared") /\ Fresh(j) /\ UNCHANGED <<task, sched, posts, faults>>
      BY <1>6 DEF AcquireRequestLock
    <2>1. CASE lock = NoJob /\ Become(a, [proc[a] EXCEPT !.pc = "locked", !.job = j])
      BY <2>0, <2>1, <1>0
    <2>2. CASE Return(a) /\ UNCHANGED lock
      BY <2>0, <2>2, <1>0
    <2> QED
      BY <1>6, <2>1, <2>2 DEF AcquireRequestLock
  <1>7. ASSUME NEW a \in ApiCalls, NEW s \in Schedules, CommitRequest(a, s) PROVE JobOwnership'
    <2>0. At(a, "locked") /\ sched[s].status = "absent" /\ UNCHANGED <<lock, posts, faults>>
      BY <1>7 DEF CommitRequest
    <2>1. CASE Return(a) /\ InsertSchedule(s, TRUE, proc[a].key)
               /\ task' = [task EXCEPT ![proc[a].job] =
                     [@ EXCEPT !.state = "recorded", !.sched = s, !.key = proc[a].key]]
      BY <2>0, <2>1, <1>0
    <2>2. CASE Goto(a, "aborting") /\ UNCHANGED <<sched, task>>
      BY <2>0, <2>2, <1>0
    <2> QED
      BY <1>7, <2>1, <2>2 DEF CommitRequest
  <1>8. ASSUME NEW a \in ApiCalls, NEW s \in Schedules, PublishDirectly(a, s) PROVE JobOwnership'
    BY <1>8, <1>0 DEF PublishDirectly
  <1>9. ASSUME NEW a \in ApiCalls, NEW s \in Schedules, CreateScheduledPublication(a, s) PROVE JobOwnership'
    BY <1>9, <1>0 DEF CreateScheduledPublication
  <1>10. ASSUME NEW a \in ApiCalls, AbortRequest(a) PROVE JobOwnership'
    BY <1>10, <1>0 DEF AbortRequest
  <1>11. ASSUME NEW a \in ApiCalls, CancelScheduledPublication(a) PROVE JobOwnership'
    BY <1>11, <1>0 DEF CancelScheduledPublication
  <1>12. ASSUME NEW a \in ApiCalls, CommitRequestFails(a) PROVE JobOwnership'
    BY <1>12, <1>0 DEF CommitRequestFails
  <1>13. ASSUME NEW w \in Workers, NEW j \in Jobs, TakeTask(w, j) PROVE JobOwnership'
    BY <1>13, <1>0 DEF TakeTask
  <1>14. ASSUME NEW d \in Dispatchers, NEW s \in Schedules, SelectDueSchedule(d, s) PROVE JobOwnership'
    BY <1>14, <1>0 DEF SelectDueSchedule
  <1>15. ASSUME NEW d \in Dispatchers, NEW j \in Jobs, DispatchScheduledPublication(d, j) PROVE JobOwnership'
    <2>0. At(d, "due") /\ Fresh(j) /\ UNCHANGED <<task, sched, posts, faults>>
      BY <1>15 DEF DispatchScheduledPublication
    <2>1. CASE lock = NoJob /\ Become(d, [proc[d] EXCEPT !.pc = "check", !.job = j])
      BY <2>0, <2>1, <1>0
    <2>2. CASE Return(d) /\ UNCHANGED lock
      BY <2>0, <2>2, <1>0
    <2> QED
      BY <1>15, <2>1, <2>2 DEF DispatchScheduledPublication
  <1>16. ASSUME NEW p \in Procs, CheckLockValue(p) PROVE JobOwnership'
    <2>0. At(p, "check") /\ UNCHANGED <<lock, sched, posts, faults>>
      BY <1>16 DEF CheckLockValue
    <2>1. CASE lock = proc[p].job /\ Goto(p, "owned") /\ UNCHANGED task
      BY <2>0, <2>1, <1>0
    <2>2. CASE Goto(p, "unlocked") /\ UNCHANGED task
      BY <2>0, <2>2, <1>0
    <2>3. CASE JobReturns(p, FALSE)
      BY <2>0, <2>3, <1>0
    <2> QED
      BY <1>16, <2>1, <2>2, <2>3 DEF CheckLockValue
  <1>17. ASSUME NEW p \in Procs, CheckRetriable(p) PROVE JobOwnership'
    <2>0. At(p, "unlocked") /\ UNCHANGED <<lock, sched, posts, faults>>
      BY <1>17 DEF CheckRetriable
    <2>1. CASE Goto(p, "retriable") /\ UNCHANGED task
      BY <2>0, <2>1, <1>0
    <2>2. CASE JobReturns(p, FALSE)
      BY <2>0, <2>2, <1>0
    <2> QED
      BY <1>17, <2>1, <2>2 DEF CheckRetriable
  <1>18. ASSUME NEW p \in Procs, ReacquireLock(p) PROVE JobOwnership'
    <2>0. At(p, "retriable") /\ UNCHANGED <<sched, posts, faults>>
      BY <1>18 DEF ReacquireLock
    <2>1. CASE lock = NoJob /\ lock' = proc[p].job /\ Goto(p, "owned") /\ UNCHANGED task
      BY <2>0, <2>1, <1>0
    <2>2. CASE JobReturns(p, FALSE) /\ UNCHANGED lock
      BY <2>0, <2>2, <1>0
    <2> QED
      BY <1>18, <2>1, <2>2 DEF ReacquireLock
  <1>19. ASSUME NEW p \in Procs, JobStopsAfterLostLock(p) PROVE JobOwnership'
    BY <1>19, <1>0 DEF JobStopsAfterLostLock
  <1>20. ASSUME NEW p \in Procs, MarkJobFailed(p) PROVE JobOwnership'
    BY <1>20, <1>0 DEF MarkJobFailed
  <1>21. ASSUME NEW p \in Procs, JobReleasesLock(p) PROVE JobOwnership'
    <2>1. proc[p].job # NoJob /\ faults.kinds \subseteq faults'.kinds
      BY <1>21 DEF JobReleasesLock
    <2>2. CASE JobReturns(p, FALSE)
      BY <1>0, <2>1, <2>2
    <2>3. CASE JobReturns(p, TRUE)
      BY <1>0, <2>1, <2>3, SMTT(30)
    <2> HIDE DEF JobReturns
    <2>4. JobReturns(p, FALSE) \/ JobReturns(p, TRUE)
      <3>1. CASE At(p, "succeeded")
        BY <1>21, <3>1 DEF JobReleasesLock
      <3>2. CASE ~At(p, "succeeded")
        BY <1>21, <3>2 DEF JobReleasesLock
      <3> QED
        BY <3>1, <3>2
    <2> QED
      BY <2>2, <2>3, <2>4
  <1>22. ASSUME NEW p \in Procs, ReadPublication(p) PROVE JobOwnership'
    <2>0. At(p, "owned") /\ UNCHANGED <<lock, task, sched, posts, faults>>
      BY <1>22 DEF ReadPublication
    <2>1. CASE Goto(p, "erring")
      BY <2>0, <2>1, <1>0
    <2>2. CASE \E seen : Become(p, [proc[p] EXCEPT !.pc = "read", !.seen = seen])
      BY <2>0, <2>2, <1>0
    <2> QED
      BY <1>22, <2>1, <2>2 DEF ReadPublication
  <1>23. ASSUME NEW p \in Procs, StartPublishAttempt(p) PROVE JobOwnership'
    <2>0. At(p, "read") /\ UNCHANGED <<lock, task, posts, faults>>
      BY <1>23 DEF StartPublishAttempt
    <2>1. CASE sched[proc[p].sched].status \in Startable /\ Goto(p, "started")
               /\ UpdateSchedule(proc[p].sched, "running")
      BY <2>0, <2>1, <1>0
    <2>2. CASE Goto(p, "erring") /\ UNCHANGED sched
      BY <2>0, <2>2, <1>0
    <2> QED
      BY <1>23, <2>1, <2>2 DEF StartPublishAttempt
  <1>24. ASSUME NEW p \in Procs, PrecheckFails(p) PROVE JobOwnership'
    BY <1>24, <1>0 DEF PrecheckFails
  <1>25. ASSUME NEW p \in Procs, BeginPublishing(p) PROVE JobOwnership'
    <2>0. At(p, "started") /\ UNCHANGED <<lock, task, sched, posts, faults>>
      BY <1>25 DEF BeginPublishing
    <2>1. CASE Goto(p, "publishing")
      BY <2>0, <2>1, <1>0
    <2>2. CASE Goto(p, "failing")
      BY <2>0, <2>2, <1>0
    <2> QED
      BY <1>25, <2>1, <2>2 DEF BeginPublishing
  <1>26. ASSUME NEW p \in Procs, PublisherAccepts(p) PROVE JobOwnership'
    BY <1>26, <1>0 DEF PublisherAccepts
  <1>27. ASSUME NEW p \in Procs, PublisherRejects(p) PROVE JobOwnership'
    BY <1>27, <1>0 DEF PublisherRejects
  <1>28. ASSUME NEW p \in Procs, CompletePublication(p) PROVE JobOwnership'
    BY <1>28, <1>0 DEF CompletePublication
  <1>29. ASSUME NEW p \in Procs, FinishPublishAttempt(p) PROVE JobOwnership'
    BY <1>29, <1>0 DEF FinishPublishAttempt
  <1>30. ASSUME NEW p \in Procs, FailAttempt(p) PROVE JobOwnership'
    BY <1>30, <1>0 DEF FailAttempt
  <1>31. ASSUME NEW p \in Procs, StatementFails(p) PROVE JobOwnership'
    <2>1. PICK pc \in OnError(proc[p].pc) : Goto(p, pc)
      BY <1>31 DEF StatementFails
    <2>2. pc \in {"erring", "failing"}
      BY <2>1 DEF OnError
    <2>3. task' = task /\ faults.kinds \subseteq faults'.kinds
      BY <1>31 DEF StatementFails
    <2> QED
      BY <1>0, <2>1, <2>2, <2>3, SMTT(30)
  <1>32. ASSUME NEW p \in Procs, RequestReturns(p) PROVE JobOwnership'
    BY <1>32, <1>0 DEF RequestReturns
  <1>33. ASSUME NEW p \in Procs, LockCheckFails(p) PROVE JobOwnership'
    BY <1>33, <1>0 DEF LockCheckFails
  <1>34. ASSUME NEW p \in Procs, RefreshLosesOwnership(p) PROVE JobOwnership'
    BY <1>34, <1>0 DEF RefreshLosesOwnership
  <1>35. ASSUME NEW p \in Procs, ContextEnds(p) PROVE JobOwnership'
    BY <1>35, <1>0 DEF ContextEnds
  <1>36. ASSUME NEW p \in Procs, Crash(p) PROVE JobOwnership'
    BY <1>36, <1>0 DEF Crash
  <1>37. ASSUME NEW j \in Jobs, OutboxDelivers(j) PROVE JobOwnership'
    BY <1>37, <1>0 DEF OutboxDelivers
  <1>38. ASSUME NEW j \in Jobs, RecoverTask(j) PROVE JobOwnership'
    BY <1>38, <1>0 DEF RecoverTask
  <1>39. ASSUME NEW s \in Schedules, ScheduleComesDue(s) PROVE JobOwnership'
    BY <1>39, <1>0 DEF ScheduleComesDue
  <1>40. CASE LockLapses
    <2>0. UNCHANGED <<task, sched, posts, proc>> /\ lock' = NoJob
      BY <1>40 DEF LockLapses
    <2>1. CASE Fault("lapse")
      BY <2>0, <2>1, <1>0
    <2>2. CASE ~InUse(lock) /\ UNCHANGED faults
      BY <2>0, <2>2, <1>0
    <2> QED
      BY <1>40, <2>1, <2>2 DEF LockLapses
  <1>41. CASE PublicationTurnsStale
    BY <1>41, <1>0 DEF PublicationTurnsStale
  <1>42. CASE EditPublication
    <2>0. UNCHANGED <<lock, task, sched, posts, proc>>
      BY <1>42 DEF EditPublication
    <2>1. CASE Fault("edit")
      BY <2>0, <2>1, <1>0
    <2>2. CASE UNCHANGED faults
      BY <2>0, <2>2, <1>0
    <2> QED
      BY <1>42, <2>1, <2>2 DEF EditPublication
  <1>43. CASE FinishSync
    BY <1>43, <1>0 DEF FinishSync
  <1>44. CASE UNCHANGED vars
    BY <1>44 DEF vars
  <1> QED
    BY <1>1, <1>2, <1>3, <1>4, <1>5, <1>6, <1>7, <1>8, <1>9, <1>10, <1>11, <1>12, <1>13,
       <1>14, <1>15, <1>16, <1>17, <1>18, <1>19, <1>20, <1>21, <1>22, <1>23, <1>24, <1>25,
       <1>26, <1>27, <1>28, <1>29, <1>30, <1>31, <1>32, <1>33, <1>34, <1>35, <1>36, <1>37,
       <1>38, <1>39, <1>40, <1>41, <1>42, <1>43, <1>44
    DEF Next, Request, Enqueue, ProcessPublishJob, PublishProject

\* A schedule, once known to a process or a task, stays known to it.
LEMMA NextScheduleKnown ==
  TypeOK /\ JobOwnership /\ ScheduleKnown /\ [Next]_vars => ScheduleKnown'
  <1> SUFFICES ASSUME TypeOK, JobOwnership, ScheduleKnown, [Next]_vars PROVE ScheduleKnown'
    OBVIOUS
  <1> USE ProcKinds, PipelineAssumption DEF ScheduleKnown, JobOwnership, At, Goto, Return,
          Rest, AtRest, Become, Process, JobReturns, TaskReturns, Task, OnError, PublishPCs,
          AttemptPCs
  <1>0. /\ proc \in [Procs -> Process]
        /\ task \in [Jobs -> Task]
    BY DEF TypeOK
  <1>1. ASSUME NEW a \in ApiCalls, NEW k \in Keys \cup {NoKey}, RequestPublish(a, k) PROVE ScheduleKnown'
    BY <1>1, <1>0 DEF RequestPublish
  <1>2. ASSUME NEW a \in ApiCalls, NEW k \in Keys \cup {NoKey}, RequestSchedule(a, k) PROVE ScheduleKnown'
    BY <1>2, <1>0 DEF RequestSchedule
  <1>3. ASSUME NEW a \in ApiCalls, NEW s \in Schedules, RequestCancel(a, s) PROVE ScheduleKnown'
    BY <1>3, <1>0 DEF RequestCancel
  <1>4. ASSUME NEW a \in ApiCalls, NEW s \in Schedules, RetryScheduledPublication(a, s) PROVE ScheduleKnown'
    BY <1>4, <1>0 DEF RetryScheduledPublication
  <1>5. ASSUME NEW a \in ApiCalls, PrepareRequest(a) PROVE ScheduleKnown'
    <2>0. At(a, "requested") /\ UNCHANGED <<lock, task, sched, posts, faults>>
      BY <1>5 DEF PrepareRequest
    <2>1. CASE Become(a, [proc[a] EXCEPT !.pc = "prepared", !.seen = pub.status])
      BY <2>0, <2>1, <1>0
    <2>2. CASE Return(a)
      BY <2>0, <2>2, <1>0
    <2> QED
      BY <1>5, <2>1, <2>2 DEF PrepareRequest
  <1>6. ASSUME NEW a \in ApiCalls, NEW j \in Jobs, AcquireRequestLock(a, j) PROVE ScheduleKnown'
    <2>0. At(a, "prepared") /\ Fresh(j) /\ UNCHANGED <<task, sched, posts, faults>>
      BY <1>6 DEF AcquireRequestLock
    <2>1. CASE lock = NoJob /\ Become(a, [proc[a] EXCEPT !.pc = "locked", !.job = j])
      BY <2>0, <2>1, <1>0
    <2>2. CASE Return(a) /\ UNCHANGED lock
      BY <2>0, <2>2, <1>0
    <2> QED
      BY <1>6, <2>1, <2>2 DEF AcquireRequestLock
  <1>7. ASSUME NEW a \in ApiCalls, NEW s \in Schedules, CommitRequest(a, s) PROVE ScheduleKnown'
    <2>0. At(a, "locked") /\ sched[s].status = "absent" /\ UNCHANGED <<lock, posts, faults>>
      BY <1>7 DEF CommitRequest
    <2>1. CASE Return(a) /\ InsertSchedule(s, TRUE, proc[a].key)
               /\ task' = [task EXCEPT ![proc[a].job] =
                     [@ EXCEPT !.state = "recorded", !.sched = s, !.key = proc[a].key]]
      BY <2>0, <2>1, <1>0
    <2>2. CASE Goto(a, "aborting") /\ UNCHANGED <<sched, task>>
      BY <2>0, <2>2, <1>0
    <2> QED
      BY <1>7, <2>1, <2>2 DEF CommitRequest
  <1>8. ASSUME NEW a \in ApiCalls, NEW s \in Schedules, PublishDirectly(a, s) PROVE ScheduleKnown'
    BY <1>8, <1>0 DEF PublishDirectly
  <1>9. ASSUME NEW a \in ApiCalls, NEW s \in Schedules, CreateScheduledPublication(a, s) PROVE ScheduleKnown'
    BY <1>9, <1>0 DEF CreateScheduledPublication
  <1>10. ASSUME NEW a \in ApiCalls, AbortRequest(a) PROVE ScheduleKnown'
    <2>0. At(a, "aborting") /\ Return(a) /\ UNCHANGED <<task, sched, posts>>
      BY <1>10 DEF AbortRequest
    <2>1. CASE ReleaseLock(proc[a].job) /\ UNCHANGED faults
      BY <2>0, <2>1, <1>0
    <2>2. CASE Fault("redis") /\ UNCHANGED lock
      BY <2>0, <2>2, <1>0
    <2> QED
      BY <1>10, <2>1, <2>2 DEF AbortRequest
  <1>11. ASSUME NEW a \in ApiCalls, CancelScheduledPublication(a) PROVE ScheduleKnown'
    BY <1>11, <1>0 DEF CancelScheduledPublication
  <1>12. ASSUME NEW a \in ApiCalls, CommitRequestFails(a) PROVE ScheduleKnown'
    BY <1>12, <1>0 DEF CommitRequestFails
  <1>13. ASSUME NEW w \in Workers, NEW j \in Jobs, TakeTask(w, j) PROVE ScheduleKnown'
    BY <1>13, <1>0 DEF TakeTask
  <1>14. ASSUME NEW d \in Dispatchers, NEW s \in Schedules, SelectDueSchedule(d, s) PROVE ScheduleKnown'
    BY <1>14, <1>0 DEF SelectDueSchedule
  <1>15. ASSUME NEW d \in Dispatchers, NEW j \in Jobs, DispatchScheduledPublication(d, j) PROVE ScheduleKnown'
    <2>0. At(d, "due") /\ Fresh(j) /\ UNCHANGED <<task, sched, posts, faults>>
      BY <1>15 DEF DispatchScheduledPublication
    <2>1. CASE lock = NoJob /\ Become(d, [proc[d] EXCEPT !.pc = "check", !.job = j])
      BY <2>0, <2>1, <1>0
    <2>2. CASE Return(d) /\ UNCHANGED lock
      BY <2>0, <2>2, <1>0
    <2> QED
      BY <1>15, <2>1, <2>2 DEF DispatchScheduledPublication
  <1>16. ASSUME NEW p \in Procs, CheckLockValue(p) PROVE ScheduleKnown'
    <2>0. At(p, "check") /\ UNCHANGED <<lock, sched, posts, faults>>
      BY <1>16 DEF CheckLockValue
    <2>1. CASE lock = proc[p].job /\ Goto(p, "owned") /\ UNCHANGED task
      BY <2>0, <2>1, <1>0
    <2>2. CASE Goto(p, "unlocked") /\ UNCHANGED task
      BY <2>0, <2>2, <1>0
    <2>3. CASE JobReturns(p, FALSE)
      BY <2>0, <2>3, <1>0
    <2> QED
      BY <1>16, <2>1, <2>2, <2>3 DEF CheckLockValue
  <1>17. ASSUME NEW p \in Procs, CheckRetriable(p) PROVE ScheduleKnown'
    <2>0. At(p, "unlocked") /\ UNCHANGED <<lock, sched, posts, faults>>
      BY <1>17 DEF CheckRetriable
    <2>1. CASE Goto(p, "retriable") /\ UNCHANGED task
      BY <2>0, <2>1, <1>0
    <2>2. CASE JobReturns(p, FALSE)
      BY <2>0, <2>2, <1>0
    <2> QED
      BY <1>17, <2>1, <2>2 DEF CheckRetriable
  <1>18. ASSUME NEW p \in Procs, ReacquireLock(p) PROVE ScheduleKnown'
    <2>0. At(p, "retriable") /\ UNCHANGED <<sched, posts, faults>>
      BY <1>18 DEF ReacquireLock
    <2>1. CASE lock = NoJob /\ lock' = proc[p].job /\ Goto(p, "owned") /\ UNCHANGED task
      BY <2>0, <2>1, <1>0
    <2>2. CASE JobReturns(p, FALSE) /\ UNCHANGED lock
      BY <2>0, <2>2, <1>0
    <2> QED
      BY <1>18, <2>1, <2>2 DEF ReacquireLock
  <1>19. ASSUME NEW p \in Procs, JobStopsAfterLostLock(p) PROVE ScheduleKnown'
    BY <1>19, <1>0 DEF JobStopsAfterLostLock
  <1>20. ASSUME NEW p \in Procs, MarkJobFailed(p) PROVE ScheduleKnown'
    BY <1>20, <1>0 DEF MarkJobFailed
  <1>21. ASSUME NEW p \in Procs, JobReleasesLock(p) PROVE ScheduleKnown'
    BY <1>21, <1>0 DEF JobReleasesLock
  <1>22. ASSUME NEW p \in Procs, ReadPublication(p) PROVE ScheduleKnown'
    <2>0. At(p, "owned") /\ UNCHANGED <<lock, task, sched, posts, faults>>
      BY <1>22 DEF ReadPublication
    <2>1. CASE Goto(p, "erring")
      BY <2>0, <2>1, <1>0
    <2>2. CASE \E seen : Become(p, [proc[p] EXCEPT !.pc = "read", !.seen = seen])
      BY <2>0, <2>2, <1>0
    <2> QED
      BY <1>22, <2>1, <2>2 DEF ReadPublication
  <1>23. ASSUME NEW p \in Procs, StartPublishAttempt(p) PROVE ScheduleKnown'
    <2>0. At(p, "read") /\ UNCHANGED <<lock, task, posts, faults>>
      BY <1>23 DEF StartPublishAttempt
    <2>1. CASE sched[proc[p].sched].status \in Startable /\ Goto(p, "started")
               /\ UpdateSchedule(proc[p].sched, "running")
      BY <2>0, <2>1, <1>0
    <2>2. CASE Goto(p, "erring") /\ UNCHANGED sched
      BY <2>0, <2>2, <1>0
    <2> QED
      BY <1>23, <2>1, <2>2 DEF StartPublishAttempt
  <1>24. ASSUME NEW p \in Procs, PrecheckFails(p) PROVE ScheduleKnown'
    BY <1>24, <1>0 DEF PrecheckFails
  <1>25. ASSUME NEW p \in Procs, BeginPublishing(p) PROVE ScheduleKnown'
    <2>0. At(p, "started") /\ UNCHANGED <<lock, task, sched, posts, faults>>
      BY <1>25 DEF BeginPublishing
    <2>1. CASE Goto(p, "publishing")
      BY <2>0, <2>1, <1>0
    <2>2. CASE Goto(p, "failing")
      BY <2>0, <2>2, <1>0
    <2> QED
      BY <1>25, <2>1, <2>2 DEF BeginPublishing
  <1>26. ASSUME NEW p \in Procs, PublisherAccepts(p) PROVE ScheduleKnown'
    BY <1>26, <1>0 DEF PublisherAccepts
  <1>27. ASSUME NEW p \in Procs, PublisherRejects(p) PROVE ScheduleKnown'
    BY <1>27, <1>0 DEF PublisherRejects
  <1>28. ASSUME NEW p \in Procs, CompletePublication(p) PROVE ScheduleKnown'
    BY <1>28, <1>0 DEF CompletePublication
  <1>29. ASSUME NEW p \in Procs, FinishPublishAttempt(p) PROVE ScheduleKnown'
    BY <1>29, <1>0 DEF FinishPublishAttempt
  <1>30. ASSUME NEW p \in Procs, FailAttempt(p) PROVE ScheduleKnown'
    BY <1>30, <1>0 DEF FailAttempt
  <1>31. ASSUME NEW p \in Procs, StatementFails(p) PROVE ScheduleKnown'
    BY <1>31, <1>0 DEF StatementFails
  <1>32. ASSUME NEW p \in Procs, RequestReturns(p) PROVE ScheduleKnown'
    BY <1>32, <1>0 DEF RequestReturns
  <1>33. ASSUME NEW p \in Procs, LockCheckFails(p) PROVE ScheduleKnown'
    BY <1>33, <1>0 DEF LockCheckFails
  <1>34. ASSUME NEW p \in Procs, RefreshLosesOwnership(p) PROVE ScheduleKnown'
    BY <1>34, <1>0 DEF RefreshLosesOwnership
  <1>35. ASSUME NEW p \in Procs, ContextEnds(p) PROVE ScheduleKnown'
    BY <1>35, <1>0 DEF ContextEnds
  <1>36. ASSUME NEW p \in Procs, Crash(p) PROVE ScheduleKnown'
    BY <1>36, <1>0 DEF Crash
  <1>37. ASSUME NEW j \in Jobs, OutboxDelivers(j) PROVE ScheduleKnown'
    BY <1>37, <1>0 DEF OutboxDelivers
  <1>38. ASSUME NEW j \in Jobs, RecoverTask(j) PROVE ScheduleKnown'
    BY <1>38, <1>0 DEF RecoverTask
  <1>39. ASSUME NEW s \in Schedules, ScheduleComesDue(s) PROVE ScheduleKnown'
    BY <1>39, <1>0 DEF ScheduleComesDue
  <1>40. CASE LockLapses
    <2>0. UNCHANGED <<task, sched, posts, proc>> /\ lock' = NoJob
      BY <1>40 DEF LockLapses
    <2>1. CASE Fault("lapse")
      BY <2>0, <2>1, <1>0
    <2>2. CASE ~InUse(lock) /\ UNCHANGED faults
      BY <2>0, <2>2, <1>0
    <2> QED
      BY <1>40, <2>1, <2>2 DEF LockLapses
  <1>41. CASE PublicationTurnsStale
    BY <1>41, <1>0 DEF PublicationTurnsStale
  <1>42. CASE EditPublication
    BY <1>42, <1>0 DEF EditPublication
  <1>43. CASE FinishSync
    BY <1>43, <1>0 DEF FinishSync
  <1>44. CASE UNCHANGED vars
    BY <1>44 DEF vars
  <1> QED
    BY <1>1, <1>2, <1>3, <1>4, <1>5, <1>6, <1>7, <1>8, <1>9, <1>10, <1>11, <1>12, <1>13,
       <1>14, <1>15, <1>16, <1>17, <1>18, <1>19, <1>20, <1>21, <1>22, <1>23, <1>24, <1>25,
       <1>26, <1>27, <1>28, <1>29, <1>30, <1>31, <1>32, <1>33, <1>34, <1>35, <1>36, <1>37,
       <1>38, <1>39, <1>40, <1>41, <1>42, <1>43, <1>44
    DEF Next, Request, Enqueue, ProcessPublishJob, PublishProject

(***************************************************************************)
(* Attempts exclude each other.  The step that matters is StartPublish-    *)
(* Attempt: a startable row is claimed by nobody.  The steps that close a  *)
(* row are taken by the one process whose attempt it is.                   *)
(***************************************************************************)
LEMMA NextAttempts ==
  TypeOK /\ ScheduleKnown /\ AttemptInv /\ [Next]_vars => AttemptInv'
  <1> SUFFICES ASSUME TypeOK, ScheduleKnown, AttemptInv, [Next]_vars PROVE AttemptInv'
    OBVIOUS
  <1> USE ProcKinds, PipelineAssumption DEF ScheduleKnown, AttemptInv, AttemptClaimed,
          OneAttemptPerSchedule, At, Goto, Return, Rest, AtRest, Become, Process,
          JobReturns, InsertSchedule, UpdateSchedule, ScheduledPublication, Startable,
          OnError, PublishPCs, AttemptPCs
  <1>0. /\ proc \in [Procs -> Process]
        /\ sched \in [Schedules -> ScheduledPublication]
    BY DEF TypeOK
  <1>1. ASSUME NEW a \in ApiCalls, NEW k \in Keys \cup {NoKey}, RequestPublish(a, k) PROVE AttemptInv'
    BY <1>1, <1>0 DEF RequestPublish
  <1>2. ASSUME NEW a \in ApiCalls, NEW k \in Keys \cup {NoKey}, RequestSchedule(a, k) PROVE AttemptInv'
    BY <1>2, <1>0 DEF RequestSchedule
  <1>3. ASSUME NEW a \in ApiCalls, NEW s \in Schedules, RequestCancel(a, s) PROVE AttemptInv'
    BY <1>3, <1>0 DEF RequestCancel
  <1>4. ASSUME NEW a \in ApiCalls, NEW s \in Schedules, RetryScheduledPublication(a, s) PROVE AttemptInv'
    BY <1>4, <1>0 DEF RetryScheduledPublication
  <1>5. ASSUME NEW a \in ApiCalls, PrepareRequest(a) PROVE AttemptInv'
    <2>0. At(a, "requested") /\ UNCHANGED <<lock, task, sched, posts, faults>>
      BY <1>5 DEF PrepareRequest
    <2>1. CASE Become(a, [proc[a] EXCEPT !.pc = "prepared", !.seen = pub.status])
      BY <2>0, <2>1, <1>0
    <2>2. CASE Return(a)
      BY <2>0, <2>2, <1>0
    <2> QED
      BY <1>5, <2>1, <2>2 DEF PrepareRequest
  <1>6. ASSUME NEW a \in ApiCalls, NEW j \in Jobs, AcquireRequestLock(a, j) PROVE AttemptInv'
    <2>0. At(a, "prepared") /\ Fresh(j) /\ UNCHANGED <<task, sched, posts, faults>>
      BY <1>6 DEF AcquireRequestLock
    <2>1. CASE lock = NoJob /\ Become(a, [proc[a] EXCEPT !.pc = "locked", !.job = j])
      BY <2>0, <2>1, <1>0
    <2>2. CASE Return(a) /\ UNCHANGED lock
      BY <2>0, <2>2, <1>0
    <2> QED
      BY <1>6, <2>1, <2>2 DEF AcquireRequestLock
  <1>7. ASSUME NEW a \in ApiCalls, NEW s \in Schedules, CommitRequest(a, s) PROVE AttemptInv'
    <2>0. At(a, "locked") /\ sched[s].status = "absent" /\ UNCHANGED <<lock, posts, faults>>
      BY <1>7 DEF CommitRequest
    <2>1. CASE Return(a) /\ InsertSchedule(s, TRUE, proc[a].key)
               /\ task' = [task EXCEPT ![proc[a].job] =
                     [@ EXCEPT !.state = "recorded", !.sched = s, !.key = proc[a].key]]
      BY <2>0, <2>1, <1>0
    <2>2. CASE Goto(a, "aborting") /\ UNCHANGED <<sched, task>>
      BY <2>0, <2>2, <1>0
    <2> QED
      BY <1>7, <2>1, <2>2 DEF CommitRequest
  <1>8. ASSUME NEW a \in ApiCalls, NEW s \in Schedules, PublishDirectly(a, s) PROVE AttemptInv'
    BY <1>8, <1>0 DEF PublishDirectly
  <1>9. ASSUME NEW a \in ApiCalls, NEW s \in Schedules, CreateScheduledPublication(a, s) PROVE AttemptInv'
    BY <1>9, <1>0 DEF CreateScheduledPublication
  <1>10. ASSUME NEW a \in ApiCalls, AbortRequest(a) PROVE AttemptInv'
    <2>0. At(a, "aborting") /\ Return(a) /\ UNCHANGED <<task, sched, posts>>
      BY <1>10 DEF AbortRequest
    <2>1. CASE ReleaseLock(proc[a].job) /\ UNCHANGED faults
      BY <2>0, <2>1, <1>0
    <2>2. CASE Fault("redis") /\ UNCHANGED lock
      BY <2>0, <2>2, <1>0
    <2> QED
      BY <1>10, <2>1, <2>2 DEF AbortRequest
  <1>11. ASSUME NEW a \in ApiCalls, CancelScheduledPublication(a) PROVE AttemptInv'
    BY <1>11, <1>0 DEF CancelScheduledPublication
  <1>12. ASSUME NEW a \in ApiCalls, CommitRequestFails(a) PROVE AttemptInv'
    BY <1>12, <1>0 DEF CommitRequestFails
  <1>13. ASSUME NEW w \in Workers, NEW j \in Jobs, TakeTask(w, j) PROVE AttemptInv'
    BY <1>13, <1>0 DEF TakeTask
  <1>14. ASSUME NEW d \in Dispatchers, NEW s \in Schedules, SelectDueSchedule(d, s) PROVE AttemptInv'
    BY <1>14, <1>0 DEF SelectDueSchedule
  <1>15. ASSUME NEW d \in Dispatchers, NEW j \in Jobs, DispatchScheduledPublication(d, j) PROVE AttemptInv'
    <2>0. At(d, "due") /\ Fresh(j) /\ UNCHANGED <<task, sched, posts, faults>>
      BY <1>15 DEF DispatchScheduledPublication
    <2>1. CASE lock = NoJob /\ Become(d, [proc[d] EXCEPT !.pc = "check", !.job = j])
      BY <2>0, <2>1, <1>0
    <2>2. CASE Return(d) /\ UNCHANGED lock
      BY <2>0, <2>2, <1>0
    <2> QED
      BY <1>15, <2>1, <2>2 DEF DispatchScheduledPublication
  <1>16. ASSUME NEW p \in Procs, CheckLockValue(p) PROVE AttemptInv'
    <2>0. At(p, "check") /\ UNCHANGED <<lock, sched, posts, faults>>
      BY <1>16 DEF CheckLockValue
    <2>1. CASE lock = proc[p].job /\ Goto(p, "owned") /\ UNCHANGED task
      BY <2>0, <2>1, <1>0
    <2>2. CASE Goto(p, "unlocked") /\ UNCHANGED task
      BY <2>0, <2>2, <1>0
    <2>3. CASE JobReturns(p, FALSE)
      BY <2>0, <2>3, <1>0
    <2> QED
      BY <1>16, <2>1, <2>2, <2>3 DEF CheckLockValue
  <1>17. ASSUME NEW p \in Procs, CheckRetriable(p) PROVE AttemptInv'
    <2>0. At(p, "unlocked") /\ UNCHANGED <<lock, sched, posts, faults>>
      BY <1>17 DEF CheckRetriable
    <2>1. CASE Goto(p, "retriable") /\ UNCHANGED task
      BY <2>0, <2>1, <1>0
    <2>2. CASE JobReturns(p, FALSE)
      BY <2>0, <2>2, <1>0
    <2> QED
      BY <1>17, <2>1, <2>2 DEF CheckRetriable
  <1>18. ASSUME NEW p \in Procs, ReacquireLock(p) PROVE AttemptInv'
    <2>0. At(p, "retriable") /\ UNCHANGED <<sched, posts, faults>>
      BY <1>18 DEF ReacquireLock
    <2>1. CASE lock = NoJob /\ lock' = proc[p].job /\ Goto(p, "owned") /\ UNCHANGED task
      BY <2>0, <2>1, <1>0
    <2>2. CASE JobReturns(p, FALSE) /\ UNCHANGED lock
      BY <2>0, <2>2, <1>0
    <2> QED
      BY <1>18, <2>1, <2>2 DEF ReacquireLock
  <1>19. ASSUME NEW p \in Procs, JobStopsAfterLostLock(p) PROVE AttemptInv'
    BY <1>19, <1>0 DEF JobStopsAfterLostLock
  <1>20. ASSUME NEW p \in Procs, MarkJobFailed(p) PROVE AttemptInv'
    BY <1>20, <1>0 DEF MarkJobFailed
  <1>21. ASSUME NEW p \in Procs, JobReleasesLock(p) PROVE AttemptInv'
    <2>0. proc[p].pc \in {"succeeded", "unsuccessful", "marked"} /\ proc[p].job # NoJob
              /\ Return(p) /\ UNCHANGED <<sched, posts>>
      BY <1>21 DEF JobReleasesLock, JobReturns
    <2>1. CASE ReleaseLock(proc[p].job) /\ UNCHANGED faults
      BY <2>0, <2>1, <1>0
    <2>2. CASE UNCHANGED <<lock, faults>>
      BY <2>0, <2>2, <1>0
    <2>3. CASE Fault("redis") /\ UNCHANGED lock
      BY <2>0, <2>3, <1>0
    <2> QED
      BY <1>21, <2>1, <2>2, <2>3 DEF JobReleasesLock
  <1>22. ASSUME NEW p \in Procs, ReadPublication(p) PROVE AttemptInv'
    <2>0. At(p, "owned") /\ UNCHANGED <<lock, task, sched, posts, faults>>
      BY <1>22 DEF ReadPublication
    <2>1. CASE Goto(p, "erring")
      BY <2>0, <2>1, <1>0
    <2>2. CASE \E seen : Become(p, [proc[p] EXCEPT !.pc = "read", !.seen = seen])
      BY <2>0, <2>2, <1>0
    <2> QED
      BY <1>22, <2>1, <2>2 DEF ReadPublication
  <1>23. ASSUME NEW p \in Procs, StartPublishAttempt(p) PROVE AttemptInv'
    <2>0. At(p, "read") /\ proc[p].sched \in Schedules
      BY <1>23 DEF StartPublishAttempt
    <2>1. CASE sched[proc[p].sched].status \in Startable /\ Goto(p, "started")
               /\ UpdateSchedule(proc[p].sched, "running")
      <3>1. \A q \in Procs : proc[q].pc \in AttemptPCs => proc[q].sched # proc[p].sched
        BY <2>1
      <3>2. /\ sched'[proc[p].sched].status = "running"
            /\ \A s \in Schedules : s # proc[p].sched => sched'[s] = sched[s]
        BY <1>0, <2>0, <2>1
      <3>3. /\ \A q \in Procs : q # p => proc'[q] = proc[q]
            /\ proc'[p].sched = proc[p].sched
        BY <1>0, <2>1
      <3> QED
        BY <2>0, <3>1, <3>2, <3>3
    <2>2. CASE Goto(p, "erring") /\ UNCHANGED sched
      BY <1>0, <2>0, <2>2
    <2> QED
      BY <1>23, <2>1, <2>2 DEF StartPublishAttempt
  <1>24. ASSUME NEW p \in Procs, PrecheckFails(p) PROVE AttemptInv'
    BY <1>24, <1>0 DEF PrecheckFails
  <1>25. ASSUME NEW p \in Procs, BeginPublishing(p) PROVE AttemptInv'
    <2>0. At(p, "started") /\ UNCHANGED <<lock, task, sched, posts, faults>>
      BY <1>25 DEF BeginPublishing
    <2>1. CASE Goto(p, "publishing")
      BY <2>0, <2>1, <1>0
    <2>2. CASE Goto(p, "failing")
      BY <2>0, <2>2, <1>0
    <2> QED
      BY <1>25, <2>1, <2>2 DEF BeginPublishing
  <1>26. ASSUME NEW p \in Procs, PublisherAccepts(p) PROVE AttemptInv'
    BY <1>26, <1>0 DEF PublisherAccepts
  <1>27. ASSUME NEW p \in Procs, PublisherRejects(p) PROVE AttemptInv'
    BY <1>27, <1>0 DEF PublisherRejects
  <1>28. ASSUME NEW p \in Procs, CompletePublication(p) PROVE AttemptInv'
    BY <1>28, <1>0 DEF CompletePublication
  <1>29. ASSUME NEW p \in Procs, FinishPublishAttempt(p) PROVE AttemptInv'
    BY <1>29, <1>0 DEF FinishPublishAttempt
  <1>30. ASSUME NEW p \in Procs, FailAttempt(p) PROVE AttemptInv'
    BY <1>30, <1>0 DEF FailAttempt
  <1>31. ASSUME NEW p \in Procs, StatementFails(p) PROVE AttemptInv'
    BY <1>31, <1>0 DEF StatementFails
  <1>32. ASSUME NEW p \in Procs, RequestReturns(p) PROVE AttemptInv'
    BY <1>32, <1>0 DEF RequestReturns
  <1>33. ASSUME NEW p \in Procs, LockCheckFails(p) PROVE AttemptInv'
    BY <1>33, <1>0 DEF LockCheckFails
  <1>34. ASSUME NEW p \in Procs, RefreshLosesOwnership(p) PROVE AttemptInv'
    BY <1>34, <1>0 DEF RefreshLosesOwnership
  <1>35. ASSUME NEW p \in Procs, ContextEnds(p) PROVE AttemptInv'
    BY <1>35, <1>0 DEF ContextEnds
  <1>36. ASSUME NEW p \in Procs, Crash(p) PROVE AttemptInv'
    BY <1>36, <1>0 DEF Crash
  <1>37. ASSUME NEW j \in Jobs, OutboxDelivers(j) PROVE AttemptInv'
    BY <1>37, <1>0 DEF OutboxDelivers
  <1>38. ASSUME NEW j \in Jobs, RecoverTask(j) PROVE AttemptInv'
    BY <1>38, <1>0 DEF RecoverTask
  <1>39. ASSUME NEW s \in Schedules, ScheduleComesDue(s) PROVE AttemptInv'
    BY <1>39, <1>0 DEF ScheduleComesDue
  <1>40. CASE LockLapses
    <2>0. UNCHANGED <<task, sched, posts, proc>> /\ lock' = NoJob
      BY <1>40 DEF LockLapses
    <2>1. CASE Fault("lapse")
      BY <2>0, <2>1, <1>0
    <2>2. CASE ~InUse(lock) /\ UNCHANGED faults
      BY <2>0, <2>2, <1>0
    <2> QED
      BY <1>40, <2>1, <2>2 DEF LockLapses
  <1>41. CASE PublicationTurnsStale
    BY <1>41, <1>0 DEF PublicationTurnsStale
  <1>42. CASE EditPublication
    BY <1>42, <1>0 DEF EditPublication
  <1>43. CASE FinishSync
    BY <1>43, <1>0 DEF FinishSync
  <1>44. CASE UNCHANGED vars
    BY <1>44 DEF vars
  <1> QED
    BY <1>1, <1>2, <1>3, <1>4, <1>5, <1>6, <1>7, <1>8, <1>9, <1>10, <1>11, <1>12, <1>13,
       <1>14, <1>15, <1>16, <1>17, <1>18, <1>19, <1>20, <1>21, <1>22, <1>23, <1>24, <1>25,
       <1>26, <1>27, <1>28, <1>29, <1>30, <1>31, <1>32, <1>33, <1>34, <1>35, <1>36, <1>37,
       <1>38, <1>39, <1>40, <1>41, <1>42, <1>43, <1>44
    DEF Next, Request, Enqueue, ProcessPublishJob, PublishProject

\* While Asynq hands out no running task again, a job has one process.
LEMMA UniqueOwner ==
  ASSUME JobOwnership, "redelivery" \notin faults.kinds, NEW p \in Procs, NEW q \in Procs,
         proc[p].job = proc[q].job, proc[p].job # NoJob
  PROVE  p = q
  BY DEF JobOwnership, Procs

(***************************************************************************)
(* The lock stays with its owner.  It is taken when it is free, released   *)
(* by a process that runs the job in it, and expires only when no process  *)
(* runs that job.                                                          *)
(***************************************************************************)
LEMMA NextLockHeld ==
  TypeOK /\ JobOwnership /\ LockHeld /\ [Next]_vars => LockHeld'
  <1> SUFFICES ASSUME TypeOK, JobOwnership, LockHeld, [Next]_vars PROVE LockHeld'
    OBVIOUS
  <1> USE ProcKinds, PipelineAssumption DEF LockHeld, JobOwnership, HoldsLock, At, Goto,
          Return, Rest, AtRest, Become, Process, JobReturns, PublishPCs, AttemptPCs, Fault,
          InUse, OnError, Fresh
  <1>0. /\ proc \in [Procs -> Process]
        /\ faults.kinds \in SUBSET FaultKinds
    BY DEF TypeOK
  <1>1. ASSUME NEW a \in ApiCalls, NEW k \in Keys \cup {NoKey}, RequestPublish(a, k) PROVE LockHeld'
    BY <1>1, <1>0 DEF RequestPublish
  <1>2. ASSUME NEW a \in ApiCalls, NEW k \in Keys \cup {NoKey}, RequestSchedule(a, k) PROVE LockHeld'
    BY <1>2, <1>0 DEF RequestSchedule
  <1>3. ASSUME NEW a \in ApiCalls, NEW s \in Schedules, RequestCancel(a, s) PROVE LockHeld'
    BY <1>3, <1>0 DEF RequestCancel
  <1>4. ASSUME NEW a \in ApiCalls, NEW s \in Schedules, RetryScheduledPublication(a, s) PROVE LockHeld'
    BY <1>4, <1>0 DEF RetryScheduledPublication
  <1>5. ASSUME NEW a \in ApiCalls, PrepareRequest(a) PROVE LockHeld'
    <2>0. At(a, "requested") /\ UNCHANGED <<lock, task, sched, posts, faults>>
      BY <1>5 DEF PrepareRequest
    <2>1. CASE Become(a, [proc[a] EXCEPT !.pc = "prepared", !.seen = pub.status])
      BY <2>0, <2>1, <1>0
    <2>2. CASE Return(a)
      BY <2>0, <2>2, <1>0
    <2> QED
      BY <1>5, <2>1, <2>2 DEF PrepareRequest
  <1>6. ASSUME NEW a \in ApiCalls, NEW j \in Jobs, AcquireRequestLock(a, j) PROVE LockHeld'
    <2>0. At(a, "prepared") /\ Fresh(j) /\ UNCHANGED <<task, sched, posts, faults>>
      BY <1>6 DEF AcquireRequestLock
    <2>1. CASE lock = NoJob /\ Become(a, [proc[a] EXCEPT !.pc = "locked", !.job = j])
      BY <2>0, <2>1, <1>0
    <2>2. CASE Return(a) /\ UNCHANGED lock
      BY <2>0, <2>2, <1>0
    <2> QED
      BY <1>6, <2>1, <2>2 DEF AcquireRequestLock
  <1>7. ASSUME NEW a \in ApiCalls, NEW s \in Schedules, CommitRequest(a, s) PROVE LockHeld'
    <2>0. At(a, "locked") /\ sched[s].status = "absent" /\ UNCHANGED <<lock, posts, faults>>
      BY <1>7 DEF CommitRequest
    <2>1. CASE Return(a) /\ InsertSchedule(s, TRUE, proc[a].key)
               /\ task' = [task EXCEPT ![proc[a].job] =
                     [@ EXCEPT !.state = "recorded", !.sched = s, !.key = proc[a].key]]
      BY <2>0, <2>1, <1>0
    <2>2. CASE Goto(a, "aborting") /\ UNCHANGED <<sched, task>>
      BY <2>0, <2>2, <1>0
    <2> QED
      BY <1>7, <2>1, <2>2 DEF CommitRequest
  <1>8. ASSUME NEW a \in ApiCalls, NEW s \in Schedules, PublishDirectly(a, s) PROVE LockHeld'
    BY <1>8, <1>0 DEF PublishDirectly
  <1>9. ASSUME NEW a \in ApiCalls, NEW s \in Schedules, CreateScheduledPublication(a, s) PROVE LockHeld'
    BY <1>9, <1>0 DEF CreateScheduledPublication
  <1>10. ASSUME NEW a \in ApiCalls, AbortRequest(a) PROVE LockHeld'
    <2>0. a \in Procs /\ Return(a)
      BY <1>10 DEF AbortRequest, JobReturns
    <2>1. CASE ReleaseLock(proc[a].job) /\ UNCHANGED faults
      <3>1. /\ proc'[a] = Rest(a)
            /\ \A q \in Procs : q # a => proc'[q] = proc[q]
        BY <1>0, <2>0
      <3>2. ASSUME {"lapse", "redelivery"} \cap faults.kinds = {},
                   NEW q \in Procs, HoldsLock(q), q # a
            PROVE  lock' = lock
        <4>1. proc[q].job # proc[a].job
          BY <2>0, <3>2, UniqueOwner
        <4> QED
          BY <2>1, <3>2, <4>1 DEF ReleaseLock
      <3> QED
        BY <2>1, <3>1, <3>2
    <2>2. CASE UNCHANGED lock /\ faults.kinds \subseteq faults'.kinds
      BY <1>0, <2>0, <2>2
    <2> QED
      BY <1>10, <2>1, <2>2 DEF AbortRequest, Fault
  <1>11. ASSUME NEW a \in ApiCalls, CancelScheduledPublication(a) PROVE LockHeld'
    BY <1>11, <1>0 DEF CancelScheduledPublication
  <1>12. ASSUME NEW a \in ApiCalls, CommitRequestFails(a) PROVE LockHeld'
    BY <1>12, <1>0 DEF CommitRequestFails
  <1>13. ASSUME NEW w \in Workers, NEW j \in Jobs, TakeTask(w, j) PROVE LockHeld'
    BY <1>13, <1>0 DEF TakeTask
  <1>14. ASSUME NEW d \in Dispatchers, NEW s \in Schedules, SelectDueSchedule(d, s) PROVE LockHeld'
    BY <1>14, <1>0 DEF SelectDueSchedule
  <1>15. ASSUME NEW d \in Dispatchers, NEW j \in Jobs, DispatchScheduledPublication(d, j) PROVE LockHeld'
    <2>0. At(d, "due") /\ Fresh(j) /\ UNCHANGED <<task, sched, posts, faults>>
      BY <1>15 DEF DispatchScheduledPublication
    <2>1. CASE lock = NoJob /\ Become(d, [proc[d] EXCEPT !.pc = "check", !.job = j])
      BY <2>0, <2>1, <1>0
    <2>2. CASE Return(d) /\ UNCHANGED lock
      BY <2>0, <2>2, <1>0
    <2> QED
      BY <1>15, <2>1, <2>2 DEF DispatchScheduledPublication
  <1>16. ASSUME NEW p \in Procs, CheckLockValue(p) PROVE LockHeld'
    <2>0. At(p, "check") /\ UNCHANGED <<lock, sched, posts, faults>>
      BY <1>16 DEF CheckLockValue
    <2>1. CASE lock = proc[p].job /\ Goto(p, "owned") /\ UNCHANGED task
      BY <2>0, <2>1, <1>0
    <2>2. CASE Goto(p, "unlocked") /\ UNCHANGED task
      BY <2>0, <2>2, <1>0
    <2>3. CASE JobReturns(p, FALSE)
      BY <2>0, <2>3, <1>0
    <2> QED
      BY <1>16, <2>1, <2>2, <2>3 DEF CheckLockValue
  <1>17. ASSUME NEW p \in Procs, CheckRetriable(p) PROVE LockHeld'
    <2>0. At(p, "unlocked") /\ UNCHANGED <<lock, sched, posts, faults>>
      BY <1>17 DEF CheckRetriable
    <2>1. CASE Goto(p, "retriable") /\ UNCHANGED task
      BY <2>0, <2>1, <1>0
    <2>2. CASE JobReturns(p, FALSE)
      BY <2>0, <2>2, <1>0
    <2> QED
      BY <1>17, <2>1, <2>2 DEF CheckRetriable
  <1>18. ASSUME NEW p \in Procs, ReacquireLock(p) PROVE LockHeld'
    <2>0. At(p, "retriable") /\ UNCHANGED <<sched, posts, faults>>
      BY <1>18 DEF ReacquireLock
    <2>1. CASE lock = NoJob /\ lock' = proc[p].job /\ Goto(p, "owned") /\ UNCHANGED task
      BY <2>0, <2>1, <1>0
    <2>2. CASE JobReturns(p, FALSE) /\ UNCHANGED lock
      BY <2>0, <2>2, <1>0
    <2> QED
      BY <1>18, <2>1, <2>2 DEF ReacquireLock
  <1>19. ASSUME NEW p \in Procs, JobStopsAfterLostLock(p) PROVE LockHeld'
    BY <1>19, <1>0 DEF JobStopsAfterLostLock
  <1>20. ASSUME NEW p \in Procs, MarkJobFailed(p) PROVE LockHeld'
    BY <1>20, <1>0 DEF MarkJobFailed
  <1>21. ASSUME NEW p \in Procs, JobReleasesLock(p) PROVE LockHeld'
    <2>0. p \in Procs /\ Return(p)
      BY <1>21 DEF JobReleasesLock, JobReturns
    <2>1. CASE ReleaseLock(proc[p].job) /\ UNCHANGED faults
      <3>1. /\ proc'[p] = Rest(p)
            /\ \A q \in Procs : q # p => proc'[q] = proc[q]
        BY <1>0, <2>0
      <3>2. ASSUME {"lapse", "redelivery"} \cap faults.kinds = {},
                   NEW q \in Procs, HoldsLock(q), q # p
            PROVE  lock' = lock
        <4>1. proc[q].job # proc[p].job
          BY <2>0, <3>2, UniqueOwner
        <4> QED
          BY <2>1, <3>2, <4>1 DEF ReleaseLock
      <3> QED
        BY <2>1, <3>1, <3>2
    <2>2. CASE UNCHANGED lock /\ faults.kinds \subseteq faults'.kinds
      BY <1>0, <2>0, <2>2
    <2> QED
      BY <1>21, <2>1, <2>2 DEF JobReleasesLock, Fault
  <1>22. ASSUME NEW p \in Procs, ReadPublication(p) PROVE LockHeld'
    <2>0. At(p, "owned") /\ UNCHANGED <<lock, task, sched, posts, faults>>
      BY <1>22 DEF ReadPublication
    <2>1. CASE Goto(p, "erring")
      BY <2>0, <2>1, <1>0
    <2>2. CASE \E seen : Become(p, [proc[p] EXCEPT !.pc = "read", !.seen = seen])
      BY <2>0, <2>2, <1>0
    <2> QED
      BY <1>22, <2>1, <2>2 DEF ReadPublication
  <1>23. ASSUME NEW p \in Procs, StartPublishAttempt(p) PROVE LockHeld'
    <2>0. At(p, "read") /\ UNCHANGED <<lock, task, posts, faults>>
      BY <1>23 DEF StartPublishAttempt
    <2>1. CASE sched[proc[p].sched].status \in Startable /\ Goto(p, "started")
               /\ UpdateSchedule(proc[p].sched, "running")
      BY <2>0, <2>1, <1>0
    <2>2. CASE Goto(p, "erring") /\ UNCHANGED sched
      BY <2>0, <2>2, <1>0
    <2> QED
      BY <1>23, <2>1, <2>2 DEF StartPublishAttempt
  <1>24. ASSUME NEW p \in Procs, PrecheckFails(p) PROVE LockHeld'
    BY <1>24, <1>0 DEF PrecheckFails
  <1>25. ASSUME NEW p \in Procs, BeginPublishing(p) PROVE LockHeld'
    <2>0. At(p, "started") /\ UNCHANGED <<lock, task, sched, posts, faults>>
      BY <1>25 DEF BeginPublishing
    <2>1. CASE Goto(p, "publishing")
      BY <2>0, <2>1, <1>0
    <2>2. CASE Goto(p, "failing")
      BY <2>0, <2>2, <1>0
    <2> QED
      BY <1>25, <2>1, <2>2 DEF BeginPublishing
  <1>26. ASSUME NEW p \in Procs, PublisherAccepts(p) PROVE LockHeld'
    BY <1>26, <1>0 DEF PublisherAccepts
  <1>27. ASSUME NEW p \in Procs, PublisherRejects(p) PROVE LockHeld'
    BY <1>27, <1>0 DEF PublisherRejects
  <1>28. ASSUME NEW p \in Procs, CompletePublication(p) PROVE LockHeld'
    BY <1>28, <1>0 DEF CompletePublication
  <1>29. ASSUME NEW p \in Procs, FinishPublishAttempt(p) PROVE LockHeld'
    BY <1>29, <1>0 DEF FinishPublishAttempt
  <1>30. ASSUME NEW p \in Procs, FailAttempt(p) PROVE LockHeld'
    BY <1>30, <1>0 DEF FailAttempt
  <1>31. ASSUME NEW p \in Procs, StatementFails(p) PROVE LockHeld'
    BY <1>31, <1>0 DEF StatementFails
  <1>32. ASSUME NEW p \in Procs, RequestReturns(p) PROVE LockHeld'
    BY <1>32, <1>0 DEF RequestReturns
  <1>33. ASSUME NEW p \in Procs, LockCheckFails(p) PROVE LockHeld'
    BY <1>33, <1>0 DEF LockCheckFails
  <1>34. ASSUME NEW p \in Procs, RefreshLosesOwnership(p) PROVE LockHeld'
    BY <1>34, <1>0 DEF RefreshLosesOwnership
  <1>35. ASSUME NEW p \in Procs, ContextEnds(p) PROVE LockHeld'
    BY <1>35, <1>0 DEF ContextEnds
  <1>36. ASSUME NEW p \in Procs, Crash(p) PROVE LockHeld'
    BY <1>36, <1>0 DEF Crash
  <1>37. ASSUME NEW j \in Jobs, OutboxDelivers(j) PROVE LockHeld'
    BY <1>37, <1>0 DEF OutboxDelivers
  <1>38. ASSUME NEW j \in Jobs, RecoverTask(j) PROVE LockHeld'
    BY <1>38, <1>0 DEF RecoverTask
  <1>39. ASSUME NEW s \in Schedules, ScheduleComesDue(s) PROVE LockHeld'
    BY <1>39, <1>0 DEF ScheduleComesDue
  <1>40. CASE LockLapses
    <2>0. UNCHANGED <<task, sched, posts, proc>> /\ lock' = NoJob
      BY <1>40 DEF LockLapses
    <2>1. CASE Fault("lapse")
      BY <2>0, <2>1, <1>0
    <2>2. CASE ~InUse(lock) /\ UNCHANGED faults
      BY <2>0, <2>2, <1>0
    <2> QED
      BY <1>40, <2>1, <2>2 DEF LockLapses
  <1>41. CASE PublicationTurnsStale
    BY <1>41, <1>0 DEF PublicationTurnsStale
  <1>42. CASE EditPublication
    <2>0. UNCHANGED <<lock, task, sched, posts, proc>>
      BY <1>42 DEF EditPublication
    <2>1. CASE Fault("edit")
      BY <2>0, <2>1, <1>0
    <2>2. CASE UNCHANGED faults
      BY <2>0, <2>2, <1>0
    <2> QED
      BY <1>42, <2>1, <2>2 DEF EditPublication
  <1>43. CASE FinishSync
    BY <1>43, <1>0 DEF FinishSync
  <1>44. CASE UNCHANGED vars
    BY <1>44 DEF vars
  <1> QED
    BY <1>1, <1>2, <1>3, <1>4, <1>5, <1>6, <1>7, <1>8, <1>9, <1>10, <1>11, <1>12, <1>13,
       <1>14, <1>15, <1>16, <1>17, <1>18, <1>19, <1>20, <1>21, <1>22, <1>23, <1>24, <1>25,
       <1>26, <1>27, <1>28, <1>29, <1>30, <1>31, <1>32, <1>33, <1>34, <1>35, <1>36, <1>37,
       <1>38, <1>39, <1>40, <1>41, <1>42, <1>43, <1>44
    DEF Next, Request, Enqueue, ProcessPublishJob, PublishProject

(***************************************************************************)
(* Posts happen once.  The step that matters is PublisherAccepts: a        *)
(* process in the platform call is not one of those PostedIsClosed allows  *)
(* for a posted schedule, so its schedule has no post yet.                 *)
(***************************************************************************)
LEMMA NextPosted ==
  TypeOK /\ ScheduleKnown /\ AttemptInv /\ PostInv /\ [Next]_vars => PostInv'
  <1> SUFFICES ASSUME TypeOK, ScheduleKnown, AttemptInv, PostInv, [Next]_vars PROVE PostInv'
    OBVIOUS
  <1> USE ProcKinds, PipelineAssumption DEF ScheduleKnown, AttemptInv, AttemptClaimed,
          OneAttemptPerSchedule, PostInv, PublishedMeansPosted, PostedIsClosed, At, Goto,
          Return, Rest, AtRest, Become, Process, JobReturns, InsertSchedule, UpdateSchedule,
          ScheduledPublication, Startable, OnError, PublishPCs, AttemptPCs, Fault
  <1>0. /\ proc \in [Procs -> Process]
        /\ sched \in [Schedules -> ScheduledPublication]
        /\ posts \in [Schedules -> Nat]
        /\ faults.kinds \in SUBSET FaultKinds
    BY DEF TypeOK
  <1>1. ASSUME NEW a \in ApiCalls, NEW k \in Keys \cup {NoKey}, RequestPublish(a, k) PROVE PostInv'
    BY <1>1, <1>0 DEF RequestPublish
  <1>2. ASSUME NEW a \in ApiCalls, NEW k \in Keys \cup {NoKey}, RequestSchedule(a, k) PROVE PostInv'
    BY <1>2, <1>0 DEF RequestSchedule
  <1>3. ASSUME NEW a \in ApiCalls, NEW s \in Schedules, RequestCancel(a, s) PROVE PostInv'
    BY <1>3, <1>0 DEF RequestCancel
  <1>4. ASSUME NEW a \in ApiCalls, NEW s \in Schedules, RetryScheduledPublication(a, s) PROVE PostInv'
    BY <1>4, <1>0 DEF RetryScheduledPublication
  <1>5. ASSUME NEW a \in ApiCalls, PrepareRequest(a) PROVE PostInv'
    <2>0. At(a, "requested") /\ UNCHANGED <<lock, task, sched, posts, faults>>
      BY <1>5 DEF PrepareRequest
    <2>1. CASE Become(a, [proc[a] EXCEPT !.pc = "prepared", !.seen = pub.status])
      BY <2>0, <2>1, <1>0
    <2>2. CASE Return(a)
      BY <2>0, <2>2, <1>0
    <2> QED
      BY <1>5, <2>1, <2>2 DEF PrepareRequest
  <1>6. ASSUME NEW a \in ApiCalls, NEW j \in Jobs, AcquireRequestLock(a, j) PROVE PostInv'
    <2>0. At(a, "prepared") /\ Fresh(j) /\ UNCHANGED <<task, sched, posts, faults>>
      BY <1>6 DEF AcquireRequestLock
    <2>1. CASE lock = NoJob /\ Become(a, [proc[a] EXCEPT !.pc = "locked", !.job = j])
      BY <2>0, <2>1, <1>0
    <2>2. CASE Return(a) /\ UNCHANGED lock
      BY <2>0, <2>2, <1>0
    <2> QED
      BY <1>6, <2>1, <2>2 DEF AcquireRequestLock
  <1>7. ASSUME NEW a \in ApiCalls, NEW s \in Schedules, CommitRequest(a, s) PROVE PostInv'
    <2>0. At(a, "locked") /\ sched[s].status = "absent" /\ UNCHANGED <<lock, posts, faults>>
      BY <1>7 DEF CommitRequest
    <2>1. CASE Return(a) /\ InsertSchedule(s, TRUE, proc[a].key)
               /\ task' = [task EXCEPT ![proc[a].job] =
                     [@ EXCEPT !.state = "recorded", !.sched = s, !.key = proc[a].key]]
      BY <2>0, <2>1, <1>0
    <2>2. CASE Goto(a, "aborting") /\ UNCHANGED <<sched, task>>
      BY <2>0, <2>2, <1>0
    <2> QED
      BY <1>7, <2>1, <2>2 DEF CommitRequest
  <1>8. ASSUME NEW a \in ApiCalls, NEW s \in Schedules, PublishDirectly(a, s) PROVE PostInv'
    BY <1>8, <1>0 DEF PublishDirectly
  <1>9. ASSUME NEW a \in ApiCalls, NEW s \in Schedules, CreateScheduledPublication(a, s) PROVE PostInv'
    BY <1>9, <1>0 DEF CreateScheduledPublication
  <1>10. ASSUME NEW a \in ApiCalls, AbortRequest(a) PROVE PostInv'
    <2>0. At(a, "aborting") /\ Return(a) /\ UNCHANGED <<task, sched, posts>>
      BY <1>10 DEF AbortRequest
    <2>1. CASE ReleaseLock(proc[a].job) /\ UNCHANGED faults
      BY <2>0, <2>1, <1>0
    <2>2. CASE Fault("redis") /\ UNCHANGED lock
      BY <2>0, <2>2, <1>0
    <2> QED
      BY <1>10, <2>1, <2>2 DEF AbortRequest
  <1>11. ASSUME NEW a \in ApiCalls, CancelScheduledPublication(a) PROVE PostInv'
    BY <1>11, <1>0 DEF CancelScheduledPublication
  <1>12. ASSUME NEW a \in ApiCalls, CommitRequestFails(a) PROVE PostInv'
    BY <1>12, <1>0 DEF CommitRequestFails
  <1>13. ASSUME NEW w \in Workers, NEW j \in Jobs, TakeTask(w, j) PROVE PostInv'
    BY <1>13, <1>0 DEF TakeTask
  <1>14. ASSUME NEW d \in Dispatchers, NEW s \in Schedules, SelectDueSchedule(d, s) PROVE PostInv'
    BY <1>14, <1>0 DEF SelectDueSchedule
  <1>15. ASSUME NEW d \in Dispatchers, NEW j \in Jobs, DispatchScheduledPublication(d, j) PROVE PostInv'
    <2>0. At(d, "due") /\ Fresh(j) /\ UNCHANGED <<task, sched, posts, faults>>
      BY <1>15 DEF DispatchScheduledPublication
    <2>1. CASE lock = NoJob /\ Become(d, [proc[d] EXCEPT !.pc = "check", !.job = j])
      BY <2>0, <2>1, <1>0
    <2>2. CASE Return(d) /\ UNCHANGED lock
      BY <2>0, <2>2, <1>0
    <2> QED
      BY <1>15, <2>1, <2>2 DEF DispatchScheduledPublication
  <1>16. ASSUME NEW p \in Procs, CheckLockValue(p) PROVE PostInv'
    <2>0. At(p, "check") /\ UNCHANGED <<lock, sched, posts, faults>>
      BY <1>16 DEF CheckLockValue
    <2>1. CASE lock = proc[p].job /\ Goto(p, "owned") /\ UNCHANGED task
      BY <2>0, <2>1, <1>0
    <2>2. CASE Goto(p, "unlocked") /\ UNCHANGED task
      BY <2>0, <2>2, <1>0
    <2>3. CASE JobReturns(p, FALSE)
      BY <2>0, <2>3, <1>0
    <2> QED
      BY <1>16, <2>1, <2>2, <2>3 DEF CheckLockValue
  <1>17. ASSUME NEW p \in Procs, CheckRetriable(p) PROVE PostInv'
    <2>0. At(p, "unlocked") /\ UNCHANGED <<lock, sched, posts, faults>>
      BY <1>17 DEF CheckRetriable
    <2>1. CASE Goto(p, "retriable") /\ UNCHANGED task
      BY <2>0, <2>1, <1>0
    <2>2. CASE JobReturns(p, FALSE)
      BY <2>0, <2>2, <1>0
    <2> QED
      BY <1>17, <2>1, <2>2 DEF CheckRetriable
  <1>18. ASSUME NEW p \in Procs, ReacquireLock(p) PROVE PostInv'
    <2>0. At(p, "retriable") /\ UNCHANGED <<sched, posts, faults>>
      BY <1>18 DEF ReacquireLock
    <2>1. CASE lock = NoJob /\ lock' = proc[p].job /\ Goto(p, "owned") /\ UNCHANGED task
      BY <2>0, <2>1, <1>0
    <2>2. CASE JobReturns(p, FALSE) /\ UNCHANGED lock
      BY <2>0, <2>2, <1>0
    <2> QED
      BY <1>18, <2>1, <2>2 DEF ReacquireLock
  <1>19. ASSUME NEW p \in Procs, JobStopsAfterLostLock(p) PROVE PostInv'
    BY <1>19, <1>0 DEF JobStopsAfterLostLock
  <1>20. ASSUME NEW p \in Procs, MarkJobFailed(p) PROVE PostInv'
    BY <1>20, <1>0 DEF MarkJobFailed
  <1>21. ASSUME NEW p \in Procs, JobReleasesLock(p) PROVE PostInv'
    <2>0. proc[p].pc \in {"succeeded", "unsuccessful", "marked"} /\ proc[p].job # NoJob
              /\ Return(p) /\ UNCHANGED <<sched, posts>>
      BY <1>21 DEF JobReleasesLock, JobReturns
    <2>1. CASE ReleaseLock(proc[p].job) /\ UNCHANGED faults
      BY <2>0, <2>1, <1>0
    <2>2. CASE UNCHANGED <<lock, faults>>
      BY <2>0, <2>2, <1>0
    <2>3. CASE Fault("redis") /\ UNCHANGED lock
      BY <2>0, <2>3, <1>0
    <2> QED
      BY <1>21, <2>1, <2>2, <2>3 DEF JobReleasesLock
  <1>22. ASSUME NEW p \in Procs, ReadPublication(p) PROVE PostInv'
    <2>0. At(p, "owned") /\ UNCHANGED <<lock, task, sched, posts, faults>>
      BY <1>22 DEF ReadPublication
    <2>1. CASE Goto(p, "erring")
      BY <2>0, <2>1, <1>0
    <2>2. CASE \E seen : Become(p, [proc[p] EXCEPT !.pc = "read", !.seen = seen])
      BY <2>0, <2>2, <1>0
    <2> QED
      BY <1>22, <2>1, <2>2 DEF ReadPublication
  <1>23. ASSUME NEW p \in Procs, StartPublishAttempt(p) PROVE PostInv'
    <2>0. At(p, "read") /\ UNCHANGED <<lock, task, posts, faults>>
      BY <1>23 DEF StartPublishAttempt
    <2>1. CASE sched[proc[p].sched].status \in Startable /\ Goto(p, "started")
               /\ UpdateSchedule(proc[p].sched, "running")
      BY <2>0, <2>1, <1>0
    <2>2. CASE Goto(p, "erring") /\ UNCHANGED sched
      BY <2>0, <2>2, <1>0
    <2> QED
      BY <1>23, <2>1, <2>2 DEF StartPublishAttempt
  <1>24. ASSUME NEW p \in Procs, PrecheckFails(p) PROVE PostInv'
    BY <1>24, <1>0 DEF PrecheckFails
  <1>25. ASSUME NEW p \in Procs, BeginPublishing(p) PROVE PostInv'
    <2>0. At(p, "started") /\ UNCHANGED <<lock, task, sched, posts, faults>>
      BY <1>25 DEF BeginPublishing
    <2>1. CASE Goto(p, "publishing")
      BY <2>0, <2>1, <1>0
    <2>2. CASE Goto(p, "failing")
      BY <2>0, <2>2, <1>0
    <2> QED
      BY <1>25, <2>1, <2>2 DEF BeginPublishing
  <1>26. ASSUME NEW p \in Procs, PublisherAccepts(p) PROVE PostInv'
    <2> DEFINE s == proc[p].sched
    <2>0. /\ At(p, "publishing") /\ s \in Schedules /\ posts[s] \in Nat
          /\ Goto(p, "posted") /\ UNCHANGED <<sched, faults>>
          /\ posts' = [posts EXCEPT ![s] = @ + 1]
      BY <1>0, <1>26 DEF PublisherAccepts
    <2>1. /\ posts'[s] = posts[s] + 1
          /\ \A t \in Schedules : t # s => posts'[t] = posts[t]
      BY <1>0, <2>0
    <2>2. /\ \A q \in Procs : q # p => proc'[q] = proc[q]
          /\ proc'[p].sched = s /\ proc'[p].pc = "posted"
      BY <1>0, <2>0
    <2>3. PublishedMeansPosted'
      BY <1>0, <2>0, <2>1
    <2>4. \A q \in Procs : proc'[q].pc \in {"posted", "completed"} => posts'[proc'[q].sched] > 0
      <3>1. ASSUME NEW q \in Procs, proc[q].pc \in {"posted", "completed"}
            PROVE  proc[q].sched \in Schedules /\ posts[proc[q].sched] > 0
        BY <3>1
      <3> QED
        BY <1>0, <2>0, <2>1, <2>2, <3>1
    <2>5. ASSUME "database" \notin faults.kinds PROVE posts[s] = 0
      BY <2>0, <2>5
    <2>6. \A q \in Procs : proc[q].pc \in AttemptPCs /\ proc[q].sched = s => q = p
      BY <2>0
    <2>7. sched[s].status \in {"running", "cancelled"}
      BY <2>0
    <2>8. ASSUME "database" \notin faults.kinds, NEW t \in Schedules, posts'[t] > 0
          PROVE  /\ posts'[t] = 1
                 /\ sched[t].status \in {"running", "published", "cancelled"}
                 /\ \A q \in Procs : proc'[q].sched = t /\ proc'[q].pc \in AttemptPCs =>
                       \/ proc'[q].pc \in {"posted", "completed"}
                       \/ proc'[q].pc = "failing" /\ proc'[q].ctx # "live"
      <3>1. CASE t = s
        BY <2>1, <2>2, <2>5, <2>6, <2>7, <2>8, <3>1
      <3>2. CASE t # s
        BY <2>1, <2>2, <2>8, <3>2
      <3> QED
        BY <3>1, <3>2
    <2> QED
      BY <2>0, <2>3, <2>4, <2>8
  <1>27. ASSUME NEW p \in Procs, PublisherRejects(p) PROVE PostInv'
    BY <1>27, <1>0 DEF PublisherRejects
  <1>28. ASSUME NEW p \in Procs, CompletePublication(p) PROVE PostInv'
    BY <1>28, <1>0 DEF CompletePublication
  <1>29. ASSUME NEW p \in Procs, FinishPublishAttempt(p) PROVE PostInv'
    BY <1>29, <1>0 DEF FinishPublishAttempt
  <1>30. ASSUME NEW p \in Procs, FailAttempt(p) PROVE PostInv'
    BY <1>30, <1>0 DEF FailAttempt
  <1>31. ASSUME NEW p \in Procs, StatementFails(p) PROVE PostInv'
    BY <1>31, <1>0 DEF StatementFails
  <1>32. ASSUME NEW p \in Procs, RequestReturns(p) PROVE PostInv'
    BY <1>32, <1>0 DEF RequestReturns
  <1>33. ASSUME NEW p \in Procs, LockCheckFails(p) PROVE PostInv'
    BY <1>33, <1>0 DEF LockCheckFails
  <1>34. ASSUME NEW p \in Procs, RefreshLosesOwnership(p) PROVE PostInv'
    BY <1>34, <1>0 DEF RefreshLosesOwnership
  <1>35. ASSUME NEW p \in Procs, ContextEnds(p) PROVE PostInv'
    BY <1>35, <1>0 DEF ContextEnds
  <1>36. ASSUME NEW p \in Procs, Crash(p) PROVE PostInv'
    BY <1>36, <1>0 DEF Crash
  <1>37. ASSUME NEW j \in Jobs, OutboxDelivers(j) PROVE PostInv'
    BY <1>37, <1>0 DEF OutboxDelivers
  <1>38. ASSUME NEW j \in Jobs, RecoverTask(j) PROVE PostInv'
    BY <1>38, <1>0 DEF RecoverTask
  <1>39. ASSUME NEW s \in Schedules, ScheduleComesDue(s) PROVE PostInv'
    BY <1>39, <1>0 DEF ScheduleComesDue
  <1>40. CASE LockLapses
    <2>0. UNCHANGED <<task, sched, posts, proc>> /\ lock' = NoJob
      BY <1>40 DEF LockLapses
    <2>1. CASE Fault("lapse")
      BY <2>0, <2>1, <1>0
    <2>2. CASE ~InUse(lock) /\ UNCHANGED faults
      BY <2>0, <2>2, <1>0
    <2> QED
      BY <1>40, <2>1, <2>2 DEF LockLapses
  <1>41. CASE PublicationTurnsStale
    BY <1>41, <1>0 DEF PublicationTurnsStale
  <1>42. CASE EditPublication
    <2>0. UNCHANGED <<lock, task, sched, posts, proc>>
      BY <1>42 DEF EditPublication
    <2>1. CASE Fault("edit")
      BY <2>0, <2>1, <1>0
    <2>2. CASE UNCHANGED faults
      BY <2>0, <2>2, <1>0
    <2> QED
      BY <1>42, <2>1, <2>2 DEF EditPublication
  <1>43. CASE FinishSync
    BY <1>43, <1>0 DEF FinishSync
  <1>44. CASE UNCHANGED vars
    BY <1>44 DEF vars
  <1> QED
    BY <1>1, <1>2, <1>3, <1>4, <1>5, <1>6, <1>7, <1>8, <1>9, <1>10, <1>11, <1>12, <1>13,
       <1>14, <1>15, <1>16, <1>17, <1>18, <1>19, <1>20, <1>21, <1>22, <1>23, <1>24, <1>25,
       <1>26, <1>27, <1>28, <1>29, <1>30, <1>31, <1>32, <1>33, <1>34, <1>35, <1>36, <1>37,
       <1>38, <1>39, <1>40, <1>41, <1>42, <1>43, <1>44
    DEF Next, Request, Enqueue, ProcessPublishJob, PublishProject
-----------------------------------------------------------------------------
\* The initial states satisfy the inductive invariant.
LEMMA InitIInv == Init => IInv
  <1> SUFFICES ASSUME Init PROVE IInv
    OBVIOUS
  <1>1. TypeOK
    BY InitTypeOK
  <1>2. \A p \in Procs : proc[p] = AtRest("idle")
    BY DEF Init
  <1>3. JobOwnership /\ ScheduleKnown
    BY <1>2, ProcKinds DEF Init, JobOwnership, ScheduleKnown, AtRest, PublishPCs, AttemptPCs
  <1>4. AttemptClaimed /\ OneAttemptPerSchedule /\ LockHeld
    BY <1>2 DEF AttemptClaimed, OneAttemptPerSchedule, LockHeld, HoldsLock, AtRest,
                PublishPCs, AttemptPCs
  <1>5. PublishedMeansPosted /\ PostedIsClosed
    BY <1>2 DEF Init, PublishedMeansPosted, PostedIsClosed, AtRest, AttemptPCs
  <1> QED
    BY <1>1, <1>3, <1>4, <1>5 DEF IInv, AttemptInv, PostInv

\* The inductive invariant holds in every reachable state.
THEOREM PipelineIInv == Spec => []IInv
  <1>1. IInv /\ [Next]_vars => IInv'
    BY NextTypeOK, NextJobOwnership, NextScheduleKnown, NextAttempts, NextLockHeld, NextPosted
    DEF IInv
  <1> QED
    BY InitIInv, <1>1, PTL DEF Spec

(***************************************************************************)
(* Whatever crashes, lapses, redeliveries, retries and cancellations       *)
(* happen, no schedule has two attempts under way (StartPublishAttempt).   *)
(***************************************************************************)
THEOREM AttemptsExclude == Spec => []OneAttemptPerSchedule
  BY PipelineIInv, PTL DEF IInv, AttemptInv

(***************************************************************************)
(* As long as no lock lapses under a process that uses it and Asynq hands  *)
(* out no running task again, the publish lock excludes concurrent jobs    *)
(* (ensurePublishJobLock, AcquireLock, ReleaseLock).                       *)
(***************************************************************************)
THEOREM JobsExclude == Spec => []LockExcludes
  <1>1. IInv => LockExcludes
    <2> SUFFICES ASSUME IInv, {"lapse", "redelivery"} \cap faults.kinds = {},
                        NEW p \in Procs, NEW q \in Procs, HoldsLock(p), HoldsLock(q)
                 PROVE  p = q
      BY DEF LockExcludes
    <2>1. proc[p].job = proc[q].job /\ proc[p].job # NoJob
      BY DEF IInv, LockHeld, HoldsLock
    <2> QED
      BY <2>1, UniqueOwner DEF IInv
  <1> QED
    BY <1>1, PipelineIInv, PTL

(***************************************************************************)
(* While the database accepts the statements it is given, the platform     *)
(* accepts at most one post per schedule, through every crash, timeout,    *)
(* lost lock, redelivery and retry.                                        *)
(***************************************************************************)
THEOREM PostsOnce == Spec => []OnePostPerSchedule
  <1>1. IInv => OnePostPerSchedule
    BY DEF IInv, TypeOK, PostInv, PostedIsClosed, OnePostPerSchedule
  <1> QED
    BY <1>1, PipelineIInv, PTL

(***************************************************************************)
(* A schedule shown as published has been accepted by the platform.        *)
(***************************************************************************)
THEOREM PublishedWasPosted == Spec => []PublishedMeansPosted
  BY PipelineIInv, PTL DEF IInv, PostInv

(***************************************************************************)
(* Outside expiry, a held lock is only given up by a process that runs the *)
(* job in it and returns, and it is never taken over while held.           *)
(***************************************************************************)
THEOREM OwnersRelease == Spec => ReleasedByOwnerOnly
  <1> DEFINE ByOwner ==
               lock # NoJob /\ lock' # lock =>
                   /\ lock' = NoJob
                   /\ \/ UNCHANGED proc
                      \/ \E p \in Procs : proc[p].job = lock /\ proc'[p] = Rest(p)
  <1>1. TypeOK /\ [Next]_vars => ByOwner
    <2> SUFFICES ASSUME TypeOK, [Next]_vars PROVE ByOwner
      OBVIOUS
    <2>0. proc \in [Procs -> Process]
      BY DEF TypeOK
    <2> USE ProcKinds
    <2>1. ASSUME NEW a \in ApiCalls, AbortRequest(a) PROVE ByOwner
      BY <2>0, <2>1 DEF AbortRequest, ReleaseLock, Return, Become
    <2>2. ASSUME NEW p \in Procs, JobReleasesLock(p) PROVE ByOwner
      BY <2>0, <2>2 DEF JobReleasesLock, ReleaseLock, JobReturns, Return, Become
    <2>3. CASE LockLapses
      BY <2>3 DEF LockLapses
    <2>4. ASSUME lock = NoJob \/ UNCHANGED lock PROVE ByOwner
      BY <2>4
    <2>5. ASSUME NEW a \in ApiCalls, Request(a) \/ Enqueue(a) \/ CommitRequestFails(a)
          PROVE  ByOwner
      BY <2>1, <2>4, <2>5
      DEF Request, Enqueue, RequestPublish, RequestSchedule, RequestCancel,
          RetryScheduledPublication, PrepareRequest, AcquireRequestLock, CommitRequest,
          PublishDirectly, CreateScheduledPublication, CancelScheduledPublication,
          CommitRequestFails
    <2>6. ASSUME NEW p \in Procs, ProcessPublishJob(p) PROVE ByOwner
      BY <2>2, <2>4, <2>6
      DEF ProcessPublishJob, CheckLockValue, CheckRetriable, ReacquireLock,
          JobStopsAfterLostLock, MarkJobFailed
    <2>7. ASSUME NEW p \in Procs, PublishProject(p) PROVE ByOwner
      BY <2>4, <2>7
      DEF PublishProject, ReadPublication, StartPublishAttempt, PrecheckFails, BeginPublishing,
          PublisherAccepts, PublisherRejects, CompletePublication, FinishPublishAttempt,
          FailAttempt, StatementFails, RequestReturns
    <2>8. ASSUME NEW p \in Procs,
                 LockCheckFails(p) \/ RefreshLosesOwnership(p) \/ ContextEnds(p) \/ Crash(p)
          PROVE  ByOwner
      BY <2>4, <2>8 DEF LockCheckFails, RefreshLosesOwnership, ContextEnds, Crash
    <2>9. ASSUME NEW w \in Workers, NEW j \in Jobs, TakeTask(w, j) PROVE ByOwner
      BY <2>4, <2>9 DEF TakeTask
    <2>10. ASSUME NEW d \in Dispatchers, NEW s \in Schedules, SelectDueSchedule(d, s)
           PROVE  ByOwner
      BY <2>4, <2>10 DEF SelectDueSchedule
    <2>11. ASSUME NEW d \in Dispatchers, NEW j \in Jobs, DispatchScheduledPublication(d, j)
           PROVE  ByOwner
      BY <2>4, <2>11 DEF DispatchScheduledPublication
    <2>12. ASSUME NEW j \in Jobs, OutboxDelivers(j) \/ RecoverTask(j) PROVE ByOwner
      BY <2>4, <2>12 DEF OutboxDelivers, RecoverTask
    <2>13. ASSUME NEW s \in Schedules, ScheduleComesDue(s) PROVE ByOwner
      BY <2>4, <2>13 DEF ScheduleComesDue
    <2>14. CASE PublicationTurnsStale \/ EditPublication \/ FinishSync \/ UNCHANGED vars
      BY <2>4, <2>14 DEF PublicationTurnsStale, EditPublication, FinishSync, vars
    <2> QED
      BY <2>3, <2>5, <2>6, <2>7, <2>8, <2>9, <2>10, <2>11, <2>12, <2>13, <2>14 DEF Next
  <1> QED
    BY <1>1, PipelineTypeCorrect, PTL DEF Spec, ReleasedByOwnerOnly
=============================================================================
