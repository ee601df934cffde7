-------------------------------- MODULE MCQueue --------------------------------
(***************************************************************************)
(* Instances of DistributionQueue for TLC.                                 *)
(***************************************************************************)
EXTENDS DistributionQueueLive, FiniteSetsExt, TLC

CONSTANTS
    r1, r2, l1, l2, g1, g2, e1, e2, w1, w2,
    MaxDisturbances  \* bound: disturbances that are in force at the same time

\* One lead that is in the queue of two groups.
LeadShared == [r \in Row |-> l1]
GroupApart == (r1 :> g1) @@ (r2 :> g2)
EntryApart == (r1 :> e1) @@ (r2 :> e2)

\* Two leads in the queue of one group.
LeadApart == (r1 :> l1) @@ (r2 :> l2)
GroupShared == [r \in Row |-> g1]

\* An automatic and a manual row for the same entry.
EntryShared == [r \in Row |-> e1]

Disturbances ==
    Cardinality(overdue \cup cancelReq \cup lapsed) + Cardinality(Group \ active)
    + Cardinality({e \in Entry : entry[e] \in {"ambiguous", "unproven", "cancelled"}})
    + Cardinality({g \in Group : ruleEpoch[g] > 1})

FewDisturbances == Disturbances <= MaxDisturbances

\* Replicas are interchangeable.
Replicas == Permutations(Worker)
================================================================================
