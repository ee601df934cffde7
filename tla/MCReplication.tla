------------------------------ MODULE MCReplication ------------------------------
(***************************************************************************)
(* Instances of ArticleReplication for TLC.                                *)
(***************************************************************************)
EXTENDS ArticleReplication, TLC

CONSTANTS
    r1, r2, a1,
    MaxExtraCopies,  \* bound: second copies of events in the stream
    MaxDeliveries    \* bound: deliveries of all messages

FewCopies == Cardinality({e \in Event : copies[e] > 1}) <= MaxExtraCopies

Deliveries == {d \in Message \X Delivery : delivery[d[1]][d[2]] # "none"}

Bounded == FewCopies /\ Cardinality(Deliveries) <= MaxDeliveries

\* The editor is done with the lesson, but for publishing it, before an event
\* reaches the stream: for runs about the bus, not about the lesson's content.
EditorFirst ==
    (\E e \in Event : copies[e] > 0) => (lesson.binding # "none" /\ fetched = 0)

BoundedBus == Bounded /\ EditorFirst

Relays == Permutations(Relay)
==================================================================================
