------------------------- MODULE MCPublishPipeline -------------------------
(***************************************************************************)
(* Instances of PublishPipeline for TLC: a deployment has a queue, or it   *)
(* has no Redis and its requests publish by themselves.                    *)
(***************************************************************************)
EXTENDS PublishPipeline, TLC

VARIABLE queued    \* whether the deployment has a queue

ASSUME QueueAssumption == HasQueue

Unqueued == INSTANCE PublishPipeline WITH HasQueue <- FALSE

QueuedNext == queued /\ Next /\ UNCHANGED queued

UnqueuedNext == ~queued /\ Unqueued!Next /\ UNCHANGED queued

QueuedInit == Init /\ queued = TRUE

QueuedSpec == QueuedInit /\ [][QueuedNext]_<<vars, queued>>

QueuedFairSpec == QueuedSpec /\ Fairness

EitherInit == Init /\ queued \in BOOLEAN

EitherSpec == EitherInit /\ [][QueuedNext \/ UnqueuedNext]_<<vars, queued>>

Symmetry == Permutations(ApiCalls) \cup Permutations(Workers) \cup Permutations(Dispatchers)
            \cup Permutations(Jobs) \cup Permutations(Schedules)
=============================================================================
