----------------------------- MODULE BrowserWorker -----------------------------
(***************************************************************************)
(* Browser workers and the pods they run                                   *)
(* (browser-worker/internal/server/server.go, session/session_manager.go,  *)
(* kubernetes/manager.go, main.go).                                        *)
(*                                                                         *)
(* A worker keeps its sessions in memory.  A start reserves a place in the *)
(* pool, creates a pod, prepares the browser and puts the session into the *)
(* pool.  What a crash leaves behind the reaper of any worker deletes when *)
(* the time in the pod's annotation has passed.                            *)
(***************************************************************************)
EXTENDS Naturals, FiniteSets

CONSTANTS
    Sessions,       \* requests to start one; each has a pod of its own name
    Workers,
    PoolSize,       \* BROWSER_WORKER_POOL_SIZE
    MaxWorkerFaults \* bound: calls of Kubernetes that fail and workers that go down

ASSUME WorkerAssumption == IsFiniteSet(Sessions) /\ PoolSize \in Nat /\ MaxWorkerFaults \in Nat

VARIABLES
    pool,         \* the sessions of each worker
    reservations, \* its reservations
    phase,        \* up, draining (e.Shutdown), stopping (ShutdownSessions), down
    launch,       \* progress of each request, and the worker it is sent to
    closing,      \* sessions taken out of a pool whose pod is not stopped yet
    pods,         \* the pods there are
    due,          \* sessions whose annotation has passed
    workerFaults

workerVars == <<pool, reservations, phase, launch, closing, pods, due, workerFaults>>

Launch == [pc : {"idle", "create", "prepare", "undo", "put", "release", "done", "failed"}, at : Workers]

WorkerTypeOK ==
    /\ pool \in [Workers -> SUBSET Sessions]
    /\ reservations \in [Workers -> 0..Cardinality(Sessions)]
    /\ phase \in [Workers -> {"up", "draining", "stopping", "down"}]
    /\ launch \in [Sessions -> Launch]
    /\ closing \in [Workers -> SUBSET Sessions]
    /\ pods \subseteq Sessions /\ due \subseteq Sessions
    /\ workerFaults \in 0..MaxWorkerFaults

WorkerInitAt(at) ==
    /\ pool = [w \in Workers |-> {}] /\ reservations = [w \in Workers |-> 0]
    /\ phase = [w \in Workers |-> "up"]
    /\ launch = [s \in Sessions |-> [pc |-> "idle", at |-> at[s]]]
    /\ closing = [w \in Workers |-> {}]
    /\ pods = {} /\ due = {}
    /\ workerFaults = 0

WorkerInit == \E at \in [Sessions -> Workers] : WorkerInitAt(at)

Of(s) == launch[s].at

Under(w) == {s \in Sessions : Of(s) = w /\ launch[s].pc \in {"create", "prepare", "undo", "put", "release"}}

LaunchGoes(s, to) == launch' = [launch EXCEPT ![s].pc = to]

WorkerFault == workerFaults < MaxWorkerFaults /\ workerFaults' = workerFaults + 1

-----------------------------------------------------------------------------
(* createSession                                                           *)

\* Mutant of TryReserve: what is reserved is not counted.
ReserveByPoolAlone(s) ==
    /\ launch[s].pc = "idle" /\ phase[Of(s)] = "up"
    /\ IF Cardinality(pool[Of(s)]) >= PoolSize
       THEN LaunchGoes(s, "failed") /\ UNCHANGED reservations
       ELSE LaunchGoes(s, "create") /\ reservations' = [reservations EXCEPT ![Of(s)] = @ + 1]
    /\ UNCHANGED <<pool, phase, closing, pods, due, workerFaults>>

TryReserve(s) ==
    /\ launch[s].pc = "idle" /\ phase[Of(s)] = "up"
    /\ IF Cardinality(pool[Of(s)]) + reservations[Of(s)] >= PoolSize
       THEN LaunchGoes(s, "failed") /\ UNCHANGED reservations
       ELSE LaunchGoes(s, "create") /\ reservations' = [reservations EXCEPT ![Of(s)] = @ + 1]
    /\ UNCHANGED <<pool, phase, closing, pods, due, workerFaults>>

StartSession(s) ==
    /\ launch[s].pc = "create"
    /\ pods' = pods \cup {s}
    /\ LaunchGoes(s, "prepare")
    /\ UNCHANGED <<pool, reservations, phase, closing, due, workerFaults>>

\* The pod may have been created: nobody stops it then.
StartSessionFails(s) ==
    /\ launch[s].pc = "create" /\ WorkerFault
    /\ pods' \in {pods, pods \cup {s}}
    /\ LaunchGoes(s, "release")
    /\ UNCHANGED <<pool, reservations, phase, closing, due>>

\* The pod becomes ready, interception and cookies are set, the page loads;
\* or one of these fails and the pod is stopped.
Prepare(s) ==
    /\ launch[s].pc = "prepare"
    /\ \/ LaunchGoes(s, "put")
       \/ LaunchGoes(s, "undo")
    /\ UNCHANGED <<pool, reservations, phase, closing, pods, due, workerFaults>>

StopSession(s) ==
    \/ pods' = pods \ {s} /\ UNCHANGED workerFaults
    \/ WorkerFault /\ UNCHANGED pods      \* the error is dropped

Undo(s) ==
    /\ launch[s].pc = "undo"
    /\ StopSession(s)
    /\ LaunchGoes(s, "release")
    /\ UNCHANGED <<pool, reservations, phase, closing, due>>

Put(s) ==
    /\ launch[s].pc = "put"
    /\ pool' = [pool EXCEPT ![Of(s)] = @ \cup {s}]
    /\ LaunchGoes(s, "release")
    /\ UNCHANGED <<reservations, phase, closing, pods, due, workerFaults>>

\* The timer of a session is set after that.
ReleaseReservation(s) ==
    /\ launch[s].pc = "release"
    /\ reservations' = [reservations EXCEPT ![Of(s)] = @ - 1]
    /\ LaunchGoes(s, "done")
    /\ UNCHANGED <<pool, phase, closing, pods, due, workerFaults>>

-----------------------------------------------------------------------------
(* The end of a session                                                    *)

\* deleteSession, or the timer, which runs its TTL after the annotation's.
Remove(w, s) ==
    /\ s \in pool[w] /\ phase[w] \in {"up", "draining"}
    /\ launch[s].pc = "done"
    /\ pool' = [pool EXCEPT ![w] = @ \ {s}]
    /\ closing' = [closing EXCEPT ![w] = @ \cup {s}]
    /\ UNCHANGED <<reservations, phase, launch, pods, due, workerFaults>>

cleanupSession(w, s) ==
    /\ s \in closing[w] /\ phase[w] # "down"
    /\ StopSession(s)
    /\ closing' = [closing EXCEPT ![w] = @ \ {s}]
    /\ UNCHANGED <<pool, reservations, phase, launch, due>>

PodExpires(s) ==
    /\ s \in pods \ due
    /\ due' = due \cup {s}
    /\ UNCHANGED <<pool, reservations, phase, launch, closing, pods, workerFaults>>

\* Mutant of Expired: a worker reaps what it started.
ExpiredOfIts(w) == pods \cap due \cap {s \in Sessions : Of(s) = w /\ launch[s].pc = "done"}

Expired(w) == pods \cap due

\* A pass ends at the first error.
ReapExpiredSessions(w) ==
    /\ phase[w] = "up" /\ Expired(w) # {}
    /\ \/ pods' = pods \ Expired(w) /\ UNCHANGED workerFaults
       \/ WorkerFault /\ \E gone \in SUBSET Expired(w) : gone # Expired(w) /\ pods' = pods \ gone
    /\ UNCHANGED <<pool, reservations, phase, launch, closing, due>>

-----------------------------------------------------------------------------
(* The worker process                                                      *)

Exits(w) ==
    /\ pool' = [pool EXCEPT ![w] = {}]
    /\ reservations' = [reservations EXCEPT ![w] = 0]
    /\ phase' = [phase EXCEPT ![w] = "down"]
    /\ closing' = [closing EXCEPT ![w] = {}]
    /\ launch' = [s \in Sessions |-> IF s \in Under(w) THEN [launch[s] EXCEPT !.pc = "failed"] ELSE launch[s]]
    /\ UNCHANGED <<pods, due>>

Crash(w) == phase[w] # "down" /\ WorkerFault /\ Exits(w)

Terminate(w) ==
    /\ phase[w] = "up" /\ WorkerFault
    /\ phase' = [phase EXCEPT ![w] = "draining"]
    /\ UNCHANGED <<pool, reservations, launch, closing, pods, due>>

\* ShutdownSessions takes them out and stops their pods one by one.
ShutdownSessions(w) ==
    /\ phase[w] = "draining" /\ Under(w) = {}
    /\ phase' = [phase EXCEPT ![w] = "stopping"]
    /\ closing' = [closing EXCEPT ![w] = @ \cup pool[w]]
    /\ pool' = [pool EXCEPT ![w] = {}]
    /\ UNCHANGED <<reservations, launch, pods, due, workerFaults>>

\* Pods are stopped, or shutdownTimeout has passed before.
Exit(w) == phase[w] \in {"draining", "stopping"} /\ Exits(w) /\ UNCHANGED workerFaults

Restart(w) ==
    /\ phase[w] = "down"
    /\ phase' = [phase EXCEPT ![w] = "up"]
    /\ UNCHANGED <<pool, reservations, launch, closing, pods, due, workerFaults>>

LaunchStep(s) ==
    \/ TryReserve(s) \/ StartSession(s) \/ StartSessionFails(s) \/ Prepare(s)
    \/ Undo(s) \/ Put(s) \/ ReleaseReservation(s)

ProcessStep(w) == Crash(w) \/ Terminate(w) \/ ShutdownSessions(w) \/ Exit(w) \/ Restart(w)

WorkerNext ==
    \/ \E s \in Sessions : LaunchStep(s) \/ PodExpires(s)
    \/ \E w \in Workers :
          \/ ProcessStep(w) \/ ReapExpiredSessions(w)
          \/ \E s \in Sessions : Remove(w, s) \/ cleanupSession(w, s)

WorkerSpec == WorkerInit /\ [][WorkerNext]_workerVars

-----------------------------------------------------------------------------
(***************************************************************************)
(* However starts overlap, fail and end, a worker never runs more browsers *)
(* than its pool has places, those under way counted.                      *)
(***************************************************************************)
PoolWithinLimit == \A w \in Workers : Cardinality(pool[w] \cup Under(w)) <= PoolSize

(***************************************************************************)
(* No pod outlives its session for ever, whatever went wrong: not one whose*)
(* creation was reported as failed, whose worker is gone, or that could    *)
(* not be stopped.                                                         *)
(***************************************************************************)
PodsEnd == \A s \in Sessions : s \in pods ~> s \notin pods
=============================================================================
