----------------------------- MODULE JobHandoff -----------------------------
(***************************************************************************)
(* What the publish outbox promises the rest of the publish service: a job *)
(* recorded by a committed request reaches the publish queue, exactly      *)
(* once, and nothing else does.  PublishOutbox implements this module;     *)
(* PublishPipeline uses it as the step OutboxDelivers.                     *)
(***************************************************************************)
CONSTANT Jobs

VARIABLE stage      \* how far each job has come

Stages == {"none", "recorded", "queued"}

HandoffInit == stage = [j \in Jobs |-> "none"]

Record(j) == stage[j] = "none" /\ stage' = [stage EXCEPT ![j] = "recorded"]

Deliver(j) == stage[j] = "recorded" /\ stage' = [stage EXCEPT ![j] = "queued"]

HandoffNext == \E j \in Jobs : Record(j) \/ Deliver(j)

HandoffSpec == HandoffInit /\ [][HandoffNext]_stage

\* Every recorded job is delivered in the end.
AllDelivered == \A j \in Jobs : stage[j] = "recorded" ~> stage[j] = "queued"
=============================================================================
