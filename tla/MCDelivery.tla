------------------------------- MODULE MCDelivery -------------------------------
(***************************************************************************)
(* Instances of DistributionDelivery for TLC.                              *)
(***************************************************************************)
EXTENDS DistributionDelivery, TLC

CONSTANTS m1, m2, m3, v1, v2, s1, s2, w1, w2

\* Core issues the second event twice, under two message ids.
Reissued == (m1 :> v1) @@ (m2 :> v2) @@ (m3 :> v2)
CreatedThenMoved == (v1 :> "created") @@ (v2 :> "status_changed")

\* The other two kinds of events.
TriggeredThenOther == (v1 :> "digital_pipeline_trigger") @@ (v2 :> "other")

\* Replicas, stages and the two messages of the second event are interchangeable.
DeliveryReplicas == Permutations(Worker) \cup Permutations(Stage) \cup Permutations({m2, m3})
================================================================================
