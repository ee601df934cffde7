----------------------------- MODULE EventBus_proofs -----------------------------
(***************************************************************************)
(* EffectOnce, NothingForgotten, PublishedInOrder and PublishedFrozen hold *)
(* for any number of relays, events, aggregates, attempts and deliveries.  *)
(*                                                                         *)
(* None of them is inductive.  A relay acts on rows that it selected       *)
(* earlier, so the invariant says what its locks preserve: the rows of a   *)
(* batch are pending, and the earlier rows of their aggregates are settled *)
(* and stay so.  What a relay has marked and what a delivery has reached   *)
(* tie the uncommitted state to the stream.                                *)
(*                                                                         *)
(* The type invariant and the refinement of EventLog follow, each with the *)
(* facts that it needs in addition.                                        *)
(***************************************************************************)
EXTENDS ArticleReplication, TLAPS

\* The part of the type invariant that the proofs need.
BusShape ==
    /\ aggregateOf \in [Event -> Aggregate \cup {NoAggregate}]
    /\ row \in [Event -> RowState]
    /\ batch \in [Relay -> SUBSET Event]
    /\ mark \in [Relay -> [Event -> Mark]]
    /\ copies \in [Event -> Nat]
    /\ deadLetters \in SUBSET Event
    /\ delivery \in [Message -> [Delivery -> DeliveryState]]
    /\ acked \in SUBSET Message
    /\ processed \in SUBSET Event
    /\ applied \in [Event -> Nat]

\* The stream or the dead letters have the event.
Recorded(e) == copies[e] > 0 \/ e \in deadLetters

\* The relay is done with the row.
Settled(e) == row[e] \in {"published", "dead"}

\* Events are written in order, and nothing precedes its row.
Written ==
    \A e \in Event : row[e] = "none" =>
        /\ copies[e] = 0
        /\ \A f \in Event : e < f => row[f] = "none"

\* The rows of a batch are pending, in no other batch, and have no earlier row
\* of their aggregate that is still to be published.
BatchesLocked ==
    \A r \in Relay : \A e \in batch[r] :
        /\ row[e] = "pending"
        /\ \A q \in Relay : e \in batch[q] => q = r
        /\ \A d \in Event :
              d < e /\ aggregateOf[d] = aggregateOf[e] => Settled(d)

\* What a relay has marked and not committed has happened already.
MarksKept ==
    \A r \in Relay, e \in Event :
        /\ mark[r][e] = "published" => copies[e] > 0
        /\ mark[r][e] = "dead" => e \in deadLetters

\* What a delivery has reached and not acknowledged is recorded.
DeliveriesKept ==
    \A m \in Message, k \in Delivery :
        /\ delivery[m][k] = "handled" => m[1] \in processed
        /\ delivery[m][k] = "dead" => m[1] \in deadLetters

\* An effect is committed together with the entry in processed_events.
EffectsRecorded ==
    \A e \in Event : applied[e] <= 1 /\ (e \notin processed => applied[e] = 0)

BusInv ==
    /\ BusShape
    /\ Written
    /\ BatchesLocked
    /\ MarksKept
    /\ DeliveriesKept
    /\ EffectsRecorded
    /\ PublishedInOrder
    /\ NothingForgotten

-----------------------------------------------------------------------------

\* Events and messages are what their definitions say.
LEMMA Events ==
    /\ Event \subseteq Nat
    /\ \A m \in Message : m[1] \in Event
  BY BusAssumption DEF Event, Message

\* Nothing is written, published, delivered or applied at first.
LEMMA BusStart == BusInit => BusInv
  BY Events DEF BusInit, BusInv, BusShape, Written, BatchesLocked, MarksKept, DeliveriesKept,
    EffectsRecorded, PublishedInOrder, NothingForgotten, RowState, Mark,
    DeliveryState

\* A row that is written is the last one, and nothing depends on its aggregate yet.
LEMMA EmitKeeps ==
    ASSUME BusInv, NEW e \in Event, NEW a \in Aggregate, Emit(e, a)
    PROVE  BusInv'
<1> USE Events DEF Emit, NextEvent, relayVars, streamVars, handlerVars
<1>1. BusShape'
  BY DEF BusInv, BusShape, RowState
<1>2. Written'
  BY DEF BusInv, BusShape, Written
<1>3. BatchesLocked'
  <2> SUFFICES ASSUME NEW r \in Relay, NEW f \in batch[r]
               PROVE  /\ row'[f] = "pending"
                      /\ \A q \in Relay : f \in batch[q] => q = r
                      /\ \A d \in Event :
                            d < f /\ aggregateOf'[d] = aggregateOf'[f] => Settled(d)'
    BY DEF BatchesLocked
  <2>1. f \in Event /\ row[f] = "pending" /\ f # e
    BY DEF BusInv, BusShape, BatchesLocked
  <2>2. ~ (e < f)
    BY <2>1 DEF BusInv, Written
  <2> QED
    BY <2>1, <2>2 DEF BusInv, BusShape, BatchesLocked, Settled
<1>4. MarksKept' /\ DeliveriesKept' /\ EffectsRecorded'
  BY DEF BusInv, MarksKept, DeliveriesKept, EffectsRecorded
<1>5. PublishedInOrder'
  <2> SUFFICES ASSUME NEW d \in Event, NEW f \in Event, d < f,
                      aggregateOf'[d] = aggregateOf'[f], copies[f] > 0
               PROVE  Recorded(d)
    BY DEF PublishedInOrder, Recorded
  <2>1. f # e /\ ~ (e < f)
    BY DEF BusInv, Written
  <2>2. d # e
    BY <2>1
  <2> QED
    BY <2>1, <2>2 DEF BusInv, BusShape, PublishedInOrder, Recorded
<1>6. NothingForgotten'
  BY DEF BusInv, BusShape, NothingForgotten
<1> QED
  BY <1>1, <1>2, <1>3, <1>4, <1>5, <1>6 DEF BusInv

-----------------------------------------------------------------------------
(* The relay.                                                                *)

\* A batch takes candidates that no other relay holds.
LEMMA SelectKeeps ==
    ASSUME BusInv, NEW r \in Relay, SelectBatch(r)
    PROVE  BusInv'
<1> USE Events DEF SelectBatch, outboxVars, streamVars, handlerVars
<1>1. BusShape'
  BY DEF BusInv, BusShape
<1>2. BatchesLocked'
  <2>1. ASSUME NEW e \in batch'[r]
        PROVE  /\ e \in Event /\ Candidate(e)
               /\ \A q \in Relay : e \notin batch[q]
    BY <2>1 DEF BusInv, BusShape, Locked
  <2>2. ASSUME NEW e \in Event, Candidate(e), NEW d \in Event, d < e,
               aggregateOf[d] = aggregateOf[e]
        PROVE  Settled(d)
    BY <2>2 DEF BusInv, BusShape, Written, Candidate, Settled, RowState
  <2>3. ASSUME NEW q \in Relay, q # r
        PROVE  batch'[q] = batch[q]
    BY <2>3 DEF BusInv, BusShape
  <2>4. ASSUME NEW d \in Event
        PROVE  Settled(d)' <=> Settled(d)
    BY DEF Settled
  <2> QED
    BY <2>1, <2>2, <2>3, <2>4 DEF BusInv, BatchesLocked, Candidate
<1>3. Written' /\ MarksKept' /\ DeliveriesKept' /\ EffectsRecorded'
  BY DEF BusInv, Written, MarksKept, DeliveriesKept, EffectsRecorded
<1>4. PublishedInOrder' /\ NothingForgotten'
  BY DEF BusInv, PublishedInOrder, NothingForgotten
<1> QED
  BY <1>1, <1>2, <1>3, <1>4 DEF BusInv

\* A row that the relay is done with is in the stream or a dead letter.
LEMMA SettledRecorded ==
    ASSUME BusInv, NEW d \in Event, Settled(d)
    PROVE  Recorded(d)
  BY DEF BusInv, NothingForgotten, Settled, Recorded

\* The stream never loses a copy.
LEMMA StoredGrows ==
    ASSUME BusInv, NEW e \in Event, NEW n \in Stored(e)
    PROVE  n \in Nat /\ n > 0 /\ n >= copies[e]
<1>1. copies[e] \in Nat
  BY DEF BusInv, BusShape
<1> QED
  BY <1>1, BusAssumption DEF Stored

\* Publishing the next item of a batch, whatever its outcome: the earlier events
\* of the aggregate are recorded, since the batch holds their successor.
LEMMA PublishKeeps ==
    ASSUME BusInv, NEW r \in Relay, NEW e \in Event, NextItem(r, e),
           NEW n \in Nat, n >= copies[e], copies' = [copies EXCEPT ![e] = n],
           NEW v \in Mark, mark' = [mark EXCEPT ![r][e] = v],
           v = "published" => n > 0,
           v = "dead" => e \in deadLetters',
           deadLetters \subseteq deadLetters', deadLetters' \subseteq Event,
           UNCHANGED <<aggregateOf, row, batch, delivery, acked, processed, applied>>
    PROVE  BusInv'
<1> USE Events DEF NextItem
<1>1. BusShape'
  BY DEF BusInv, BusShape
<1>2. \A d \in Event : /\ copies[d] \in Nat /\ copies'[d] \in Nat
                       /\ copies'[d] >= copies[d]
                       /\ d # e => copies'[d] = copies[d]
  BY DEF BusInv, BusShape
<1>3. row[e] = "pending"
  BY DEF BusInv, BatchesLocked
<1>4. Written'
  BY <1>2, <1>3 DEF BusInv, Written
<1>5. BatchesLocked' /\ EffectsRecorded'
  BY DEF BusInv, BatchesLocked, EffectsRecorded, Settled
<1>6. MarksKept'
  <2> SUFFICES ASSUME NEW q \in Relay, NEW d \in Event
               PROVE  /\ mark'[q][d] = "published" => copies'[d] > 0
                      /\ mark'[q][d] = "dead" => d \in deadLetters'
    BY DEF MarksKept
  <2>1. CASE q = r /\ d = e
    BY <2>1 DEF BusInv, BusShape
  <2>2. CASE ~ (q = r /\ d = e)
    <3>1. mark'[q][d] = mark[q][d]
      BY <2>2 DEF BusInv, BusShape
    <3> QED
      BY <3>1, <1>2 DEF BusInv, MarksKept
  <2> QED
    BY <2>1, <2>2
<1>7. DeliveriesKept'
  BY DEF BusInv, DeliveriesKept
<1>8. PublishedInOrder'
  <2> SUFFICES ASSUME NEW d \in Event, NEW f \in Event, d < f,
                      aggregateOf[d] = aggregateOf[f], copies'[f] > 0
               PROVE  Recorded(d)
    BY <1>2 DEF PublishedInOrder, Recorded
  <2>1. CASE f = e
    BY <2>1, SettledRecorded DEF BusInv, BatchesLocked
  <2>2. CASE f # e
    BY <2>2, <1>2 DEF BusInv, PublishedInOrder, Recorded
  <2> QED
    BY <2>1, <2>2
<1>9. NothingForgotten'
  BY <1>2 DEF BusInv, NothingForgotten
<1> QED
  BY <1>1, <1>4, <1>5, <1>6, <1>7, <1>8, <1>9 DEF BusInv

\* The commit makes visible what was marked; a row that another relay holds, or
\* that was settled before, does not change.
LEMMA CommitKeeps ==
    ASSUME BusInv, NEW r \in Relay, CommitBatch(r)
    PROVE  BusInv'
<1> USE Events DEF CommitBatch, streamVars, handlerVars
<1>1. ASSUME NEW e \in Event
      PROVE  /\ e \in batch[r] => row'[e] = Outcome(mark[r][e])
             /\ e \notin batch[r] => row'[e] = row[e]
             /\ mark[r][e] \in Mark
  BY <1>1 DEF BusInv, BusShape
<1>2. ASSUME NEW m \in Mark
      PROVE  /\ Outcome(m) \in {"published", "dead", "pending"}
             /\ Outcome(m) = "published" => m = "published"
             /\ Outcome(m) = "dead" => m = "dead"
  BY DEF Outcome, Mark
<1>3. \A e \in Event : row[e] # "pending" => row'[e] = row[e]
  BY <1>1 DEF BusInv, BatchesLocked
<1>4. \A q \in Relay : batch'[q] = IF q = r THEN {} ELSE batch[q]
  BY DEF BusInv, BusShape
<1>5. BusShape'
  <2>1. row' \in [Event -> RowState]
    BY <1>1, <1>2 DEF BusInv, BusShape, RowState
  <2>2. batch' \in [Relay -> SUBSET Event] /\ mark' \in [Relay -> [Event -> Mark]]
    BY DEF BusInv, BusShape, Mark
  <2> QED
    BY <2>1, <2>2 DEF BusInv, BusShape
<1>6. Written'
  <2>1. \A e \in Event : row'[e] = "none" <=> row[e] = "none"
    BY <1>1, <1>2 DEF BusInv, BatchesLocked
  <2> QED
    BY <2>1 DEF BusInv, Written
<1>7. BatchesLocked'
  <2>1. ASSUME NEW q \in Relay, NEW e \in batch'[q]
        PROVE  q # r /\ e \in batch[q] /\ e \notin batch[r] /\ e \in Event
    BY <2>1, <1>4 DEF BusInv, BusShape, BatchesLocked
  <2>2. ASSUME NEW d \in Event, Settled(d)
        PROVE  Settled(d)'
    BY <2>2, <1>3 DEF Settled
  <2> QED
    BY <2>1, <2>2, <1>1, <1>4 DEF BusInv, BatchesLocked
<1>8. MarksKept'
  BY DEF BusInv, BusShape, MarksKept
<1>9. DeliveriesKept' /\ EffectsRecorded' /\ PublishedInOrder'
  BY DEF BusInv, DeliveriesKept, EffectsRecorded, PublishedInOrder
<1>10. NothingForgotten'
  BY <1>1, <1>2 DEF BusInv, NothingForgotten, MarksKept
<1> QED
  BY <1>5, <1>6, <1>7, <1>8, <1>9, <1>10 DEF BusInv

\* A rollback forgets marks and locks only.
LEMMA RollbackKeeps ==
    ASSUME BusInv, NEW r \in Relay, RollbackBatch(r)
    PROVE  BusInv'
<1> USE Events DEF RollbackBatch, outboxVars, streamVars, handlerVars
<1>1. BusShape'
  BY DEF BusInv, BusShape, Mark
<1>2. \A q \in Relay : batch'[q] = IF q = r THEN {} ELSE batch[q]
  BY DEF BusInv, BusShape
<1>3. BatchesLocked'
  BY <1>2 DEF BusInv, BatchesLocked, Settled
<1>4. MarksKept'
  BY DEF BusInv, BusShape, MarksKept
<1>5. Written' /\ DeliveriesKept' /\ EffectsRecorded' /\ PublishedInOrder'
      /\ NothingForgotten'
  BY DEF BusInv, Written, DeliveriesKept, EffectsRecorded, PublishedInOrder,
    NothingForgotten
<1> QED
  BY <1>1, <1>3, <1>4, <1>5 DEF BusInv

\* Every step of a relay keeps the invariant.
LEMMA RelayKeeps ==
    ASSUME BusInv, NEW r \in Relay, RelayStep(r)
    PROVE  BusInv'
<1>1. ASSUME NEW e \in Event, PublishItem(r, e)
      PROVE  BusInv'
  <2>1. PICK n \in Stored(e) : copies' = [copies EXCEPT ![e] = n]
    BY <1>1 DEF PublishItem
  <2> QED
    BY <1>1, <2>1, StoredGrows, PublishKeeps
    DEF PublishItem, Mark, outboxVars, handlerVars, BusInv, BusShape
<1>2. ASSUME NEW e \in Event, PublishItemFails(r, e) \/ DeadLetterItem(r, e)
      PROVE  BusInv'
  <2>1. PICK n \in Stored(e) \cup {copies[e]} : copies' = [copies EXCEPT ![e] = n]
    BY <1>2 DEF PublishItemFails, DeadLetterItem
  <2>2. n \in Nat /\ n >= copies[e]
    BY StoredGrows DEF BusInv, BusShape
  <2>3. CASE PublishItemFails(r, e)
    BY <2>1, <2>2, <2>3, PublishKeeps
    DEF PublishItemFails, Mark, outboxVars, handlerVars, BusInv, BusShape
  <2>4. CASE DeadLetterItem(r, e)
    BY <2>1, <2>2, <2>4, PublishKeeps
    DEF DeadLetterItem, Mark, outboxVars, handlerVars, BusInv, BusShape
  <2> QED
    BY <1>2, <2>3, <2>4
<1> QED
  BY <1>1, <1>2, SelectKeeps, CommitKeeps, RollbackKeeps DEF RelayStep

-----------------------------------------------------------------------------
(* The consumer.                                                             *)

\* The state of one delivery changes, the others stay.
LEMMA DeliverySet ==
    ASSUME NEW d \in [Message -> [Delivery -> DeliveryState]], NEW m \in Message,
           NEW k \in Delivery, NEW v \in DeliveryState
    PROVE  [d EXCEPT ![m][k] = v] \in [Message -> [Delivery -> DeliveryState]]
  OBVIOUS

\* The handler's transaction: an event that is in processed_events is not
\* applied again.
LEMMA HandleKeeps ==
    ASSUME BusInv, NEW m \in Message, NEW k \in Delivery, HandleOnce(m, k)
    PROVE  BusInv'
<1> USE Events DEF HandleOnce, Finish, outboxVars, relayVars, streamVars
<1>1. BusShape'
  <2>1. delivery' \in [Message -> [Delivery -> DeliveryState]]
    <3>1. delivery \in [Message -> [Delivery -> DeliveryState]]
      BY DEF BusInv, BusShape
    <3> QED
      BY <3>1, DeliverySet DEF DeliveryState
  <2>2. processed' \in SUBSET Event
    BY DEF BusInv, BusShape
  <2>3. applied' \in [Event -> Nat]
    <3>1. applied \in [Event -> Nat] /\ m[1] \in Event
      BY DEF BusInv, BusShape
    <3>2. [applied EXCEPT ![m[1]] = @ + 1] \in [Event -> Nat]
      BY <3>1
    <3> QED
      BY <3>1, <3>2
  <2> QED
    BY <2>1, <2>2, <2>3 DEF BusInv, BusShape
<1>2. EffectsRecorded'
  <2> SUFFICES ASSUME NEW e \in Event
               PROVE  applied'[e] <= 1 /\ (e \notin processed' => applied'[e] = 0)
    BY DEF EffectsRecorded
  <2>1. CASE e = m[1] /\ FirstTime(m)
    BY <2>1 DEF BusInv, BusShape, EffectsRecorded, FirstTime
  <2>2. CASE ~ (e = m[1] /\ FirstTime(m))
    <3>1. applied'[e] = applied[e]
      BY <2>2 DEF BusInv, BusShape
    <3> QED
      BY <3>1 DEF BusInv, EffectsRecorded
  <2> QED
    BY <2>1, <2>2
<1>3. DeliveriesKept'
  BY DEF BusInv, BusShape, DeliveriesKept
<1>4. Written' /\ BatchesLocked' /\ MarksKept' /\ PublishedInOrder'
  BY DEF BusInv, Written, BatchesLocked, MarksKept, PublishedInOrder, Settled
<1>5. NothingForgotten'
  BY DEF BusInv, NothingForgotten
<1> QED
  BY <1>1, <1>2, <1>3, <1>4, <1>5 DEF BusInv

\* The other steps of a delivery: what is acknowledged was recorded before.
LEMMA ConsumerKeeps ==
    ASSUME BusInv, NEW m \in Message, NEW k \in Delivery, ConsumerStep(m, k)
    PROVE  BusInv'
<1> USE Events DEF ConsumerStep, Deliver, Nak, MoveToDLQ, Ack, MayAck, DeliveryLost,
        Finish, outboxVars, relayVars, streamVars, handlerVars
<1>1. BusShape'
  <2>1. PICK v \in DeliveryState : delivery' = [delivery EXCEPT ![m][k] = v]
    BY DEF DeliveryState
  <2>2. delivery' \in [Message -> [Delivery -> DeliveryState]]
    BY <2>1, DeliverySet DEF BusInv, BusShape
  <2>3. acked' \in SUBSET Message /\ deadLetters' \in SUBSET Event
    BY DEF BusInv, BusShape
  <2> QED
    BY <2>2, <2>3 DEF BusInv, BusShape
<1>2. DeliveriesKept'
  <2>1. ASSUME NEW n \in Message, NEW j \in Delivery,
               delivery'[n][j] \in {"handled", "dead"}
        PROVE  \/ delivery'[n][j] = delivery[n][j]
               \/ delivery'[n][j] = "dead" /\ n = m /\ m[1] \in deadLetters'
    BY <2>1 DEF BusInv, BusShape
  <2> QED
    BY <2>1 DEF BusInv, DeliveriesKept
<1>3. Written' /\ BatchesLocked' /\ MarksKept' /\ EffectsRecorded' /\ PublishedInOrder'
  BY DEF BusInv, Written, BatchesLocked, MarksKept, EffectsRecorded,
    PublishedInOrder, Settled
<1>4. NothingForgotten'
  BY DEF BusInv, DeliveriesKept, NothingForgotten
<1> QED
  BY <1>1, <1>2, <1>3, <1>4 DEF BusInv

-----------------------------------------------------------------------------
(* The services.                                                             *)

\* A step that leaves the bus alone keeps its invariant.
LEMMA BusFrame ==
    ASSUME BusInv, UNCHANGED busVars
    PROVE  BusInv'
  BY DEF busVars, BusInv, BusShape, Written, BatchesLocked, Settled, MarksKept,
    DeliveriesKept, EffectsRecorded, PublishedInOrder, NothingForgotten

\* Every step of kb, of the editor, of the consumers and of the bus.
LEMMA BusNext ==
    ASSUME BusInv, [Next]_vars
    PROVE  BusInv'
<1>1. ASSUME NEW a \in Aggregate, UpdateArticle(a) \/ DeleteArticle(a)
      PROVE  BusInv'
  BY <1>1, EmitKeeps DEF UpdateArticle, DeleteArticle
<1>2. CASE GetArticle \/ CreateLesson \/ UpdateLesson \/ PublishCourseVersion
  BY <1>2, BusFrame DEF GetArticle, CreateLesson, UpdateLesson, PublishCourseVersion
<1>3. ASSUME NEW m \in Message, NEW k \in Delivery, Handle(m, k)
      PROVE  BusInv'
  BY <1>3, HandleKeeps DEF Handle, HandleKbArticleUpdated, HandleKbArticleDeleted
<1>4. CASE BusStep
  BY <1>4, RelayKeeps, ConsumerKeeps DEF BusStep
<1>5. CASE UNCHANGED vars
  BY <1>5, BusFrame DEF vars
<1> QED
  BY <1>1, <1>2, <1>3, <1>4, <1>5 DEF Next

\* The inductive invariant of the bus, with kb and the academy around it.
THEOREM BusInvariance == Spec => []BusInv
<1>1. Init => BusInv
  BY BusStart DEF Init
<1> QED
  BY <1>1, BusNext, PTL DEF Spec

\* However often an event is published, stored and delivered, its effect is
\* committed at most once.
THEOREM EffectOnceHolds == Spec => []EffectOnce
<1>1. BusInv => EffectOnce
  BY DEF BusInv, EffectsRecorded, EffectOnce
<1> QED
  BY <1>1, BusInvariance, PTL

\* Relays that fail and take over each other's rows keep the order of the events
\* of an aggregate.
THEOREM PublishedInOrderHolds == Spec => []PublishedInOrder
<1>1. BusInv => PublishedInOrder
  BY DEF BusInv
<1> QED
  BY <1>1, BusInvariance, PTL

\* What the relay or the stream is done with was stored, handled or is a dead
\* letter.
THEOREM NothingForgottenHolds == Spec => []NothingForgotten
<1>1. BusInv => NothingForgotten
  BY DEF BusInv
<1> QED
  BY <1>1, BusInvariance, PTL

\* No event and no edit changes a published lesson.
THEOREM PublishedFrozenHolds == Spec => PublishedFrozen
<1>1. [Next]_vars => [lesson.binding = "published" => lesson' = lesson]_vars
  BY DEF Next, UpdateArticle, DeleteArticle, GetArticle, CreateLesson, UpdateLesson,
    PublishCourseVersion, Handle, HandleKbArticleUpdated, HandleKbArticleDeleted,
    Replicates, domainVars, vars
<1> QED
  BY <1>1, PTL DEF Spec, PublishedFrozen

-----------------------------------------------------------------------------
(* The type invariant.                                                       *)

\* The counters of the relay and the stream stay within their limits.
CountersBounded ==
    /\ attempts \in [Event -> 0..MaxPublishAttempts]
    /\ copies \in [Event -> 0..MaxCopies]

\* Every event raises the version of one article by one at most, so that the
\* event that is written next has a number no smaller than any version.
VersionsBehind ==
    /\ version \in [Aggregate -> Version]
    /\ \A a \in Aggregate, e \in Event : row[e] = "none" => version[a] <= e

\* What kb, the editor and the consumers hand on is a version of the article.
ContentTyped ==
    /\ kind \in [Event -> {"none", "updated", "deleted"}]
    /\ payload \in [Event -> Version]
    /\ fetched \in Version
    /\ lesson \in [binding : Binding, content : Version]

\* The counters are zero and every article has its first version.
LEMMA TypesStart == Init => CountersBounded /\ VersionsBehind /\ ContentTyped
<1> SUFFICES ASSUME Init PROVE CountersBounded /\ VersionsBehind /\ ContentTyped
  OBVIOUS
<1> USE BusAssumption
<1>1. CountersBounded
  BY DEF Init, BusInit, CountersBounded
<1>2. VersionsBehind
  BY Events DEF Init, BusInit, VersionsBehind, Version, Event
<1>3. ContentTyped
  BY DEF Init, ContentTyped, Version, Binding
<1> QED
  BY <1>1, <1>2, <1>3

\* The stream stores no more copies of an event than its bound.
LEMMA StoredBounded ==
    ASSUME CountersBounded, NEW e \in Event, NEW n \in Stored(e) \cup {copies[e]}
    PROVE  n \in 0..MaxCopies
<1>1. copies[e] \in 0..MaxCopies
  BY DEF CountersBounded
<1> QED
  BY <1>1, BusAssumption DEF Stored

\* The relay counts an attempt when it commits, and stops at the limit.
LEMMA CountersNext ==
    ASSUME CountersBounded, [Next]_vars
    PROVE  CountersBounded'
<1> USE DEF busVars, outboxVars, relayVars, streamVars, handlerVars
<1>1. ASSUME NEW a \in Aggregate, UpdateArticle(a) \/ DeleteArticle(a)
      PROVE  CountersBounded'
  BY <1>1 DEF UpdateArticle, DeleteArticle, Emit, CountersBounded
<1>2. CASE GetArticle \/ CreateLesson \/ UpdateLesson \/ PublishCourseVersion
  BY <1>2 DEF GetArticle, CreateLesson, UpdateLesson, PublishCourseVersion,
    CountersBounded
<1>3. ASSUME NEW m \in Message, NEW k \in Delivery, Handle(m, k)
      PROVE  CountersBounded'
  BY <1>3 DEF Handle, HandleKbArticleUpdated, HandleKbArticleDeleted, HandleOnce,
    CountersBounded
<1>4. ASSUME NEW r \in Relay, NEW e \in Event,
             PublishItem(r, e) \/ PublishItemFails(r, e) \/ DeadLetterItem(r, e)
      PROVE  CountersBounded'
  <2>1. PICK n \in Stored(e) \cup {copies[e]} : copies' = [copies EXCEPT ![e] = n]
    BY <1>4 DEF PublishItem, PublishItemFails, DeadLetterItem
  <2>2. copies' \in [Event -> 0..MaxCopies]
    BY <2>1, StoredBounded DEF CountersBounded
  <2>3. UNCHANGED attempts
    BY <1>4 DEF PublishItem, PublishItemFails, DeadLetterItem
  <2> QED
    BY <2>2, <2>3 DEF CountersBounded
<1>5. ASSUME NEW r \in Relay, CommitBatch(r)
      PROVE  CountersBounded'
  <2>1. UNCHANGED copies
    BY <1>5 DEF CommitBatch
  <2>2. attempts' \in [Event -> 0..MaxPublishAttempts]
    BY <1>5, BusAssumption DEF CommitBatch, CountersBounded
  <2> QED
    BY <2>1, <2>2 DEF CountersBounded
<1>6. ASSUME NEW r \in Relay, SelectBatch(r) \/ RollbackBatch(r)
      PROVE  CountersBounded'
  BY <1>6 DEF SelectBatch, RollbackBatch, CountersBounded
<1>7. ASSUME NEW m \in Message, NEW k \in Delivery, ConsumerStep(m, k)
      PROVE  CountersBounded'
  BY <1>7 DEF ConsumerStep, Deliver, Nak, MoveToDLQ, Ack, DeliveryLost,
    CountersBounded
<1>8. CASE UNCHANGED vars
  BY <1>8 DEF vars, CountersBounded
<1> QED
  BY <1>1, <1>2, <1>3, <1>4, <1>5, <1>6, <1>7, <1>8 DEF Next, BusStep, RelayStep

\* Only the writing of an event makes a row of the outbox.
LEMMA RowsStayWritten ==
    ASSUME BusInv, BusStep
    PROVE  \A e \in Event : row'[e] = "none" => row[e] = "none"
<1>1. ASSUME NEW r \in Relay, CommitBatch(r)
      PROVE  \A e \in Event : row'[e] = "none" => row[e] = "none"
  <2>1. \A e \in Event : mark[r][e] \in Mark
    BY DEF BusInv, BusShape
  <2>2. \A v \in Mark : Outcome(v) # "none"
    BY DEF Mark, Outcome
  <2> QED
    BY <1>1, <2>1, <2>2 DEF CommitBatch
<1>2. ASSUME NEW r \in Relay, RelayStep(r), ~CommitBatch(r)
      PROVE  UNCHANGED row
  BY <1>2 DEF RelayStep, SelectBatch, PublishItem, PublishItemFails,
    DeadLetterItem, RollbackBatch, outboxVars
<1>3. ASSUME NEW m \in Message, NEW k \in Delivery, ConsumerStep(m, k)
      PROVE  UNCHANGED row
  BY <1>3 DEF ConsumerStep, Deliver, Nak, MoveToDLQ, Ack, DeliveryLost, outboxVars
<1> QED
  BY <1>1, <1>2, <1>3 DEF BusStep

\* A change of an article takes the next event, whose number is the last bound
\* on the versions.
LEMMA VersionsNext ==
    ASSUME BusInv, VersionsBehind, [Next]_vars
    PROVE  VersionsBehind'
<1>1. ASSUME NEW a \in Aggregate, UpdateArticle(a) \/ DeleteArticle(a)
      PROVE  VersionsBehind'
  <2>1. PICK e \in Event : Emit(e, a)
    BY <1>1 DEF UpdateArticle, DeleteArticle
  <2>2. /\ row[e] = "none"
        /\ \A f \in Event : f < e => row[f] # "none"
        /\ row' = [row EXCEPT ![e] = "pending"]
    BY <2>1 DEF Emit, NextEvent
  <2>3. PICK v : /\ version' = [version EXCEPT ![a] = v]
                 /\ v = version[a] + 1 \/ v = 0
    BY <1>1 DEF UpdateArticle, DeleteArticle
  <2>4. version \in [Aggregate -> Version] /\ version[a] <= e
    BY <2>2 DEF VersionsBehind
  <2>5. version[a] \in Nat /\ e \in Nat /\ e <= MaxEvents /\ MaxEvents \in Nat
    BY <2>4, BusAssumption DEF Version, Event
  <2>6. v \in Nat /\ v <= e + 1
    BY <2>3, <2>4, <2>5
  <2>7. v \in Version
    BY <2>5, <2>6 DEF Version
  <2>8. version' \in [Aggregate -> Version]
    BY <2>3, <2>4, <2>7
  <2>9. ASSUME NEW b \in Aggregate, NEW f \in Event, row'[f] = "none"
        PROVE  version'[b] <= f
    <3>1. f \in Nat
      BY BusAssumption DEF Event
    <3>2. f # e /\ row[f] = "none"
      BY <2>2, <2>9 DEF BusInv, BusShape
    <3>3. e + 1 <= f
      BY <2>2, <2>5, <3>1, <3>2
    <3>4. CASE b = a
      BY <2>3, <2>4, <2>5, <2>6, <3>1, <3>3, <3>4
    <3>5. CASE b # a
      BY <2>3, <2>4, <3>2, <3>5 DEF VersionsBehind
    <3> QED
      BY <3>4, <3>5
  <2> QED
    BY <2>8, <2>9 DEF VersionsBehind
<1>2. CASE UNCHANGED version /\ \A e \in Event : row'[e] = "none" => row[e] = "none"
  BY <1>2 DEF VersionsBehind
<1>3. CASE GetArticle \/ CreateLesson \/ UpdateLesson \/ PublishCourseVersion
  BY <1>2, <1>3 DEF GetArticle, CreateLesson, UpdateLesson, PublishCourseVersion,
    busVars
<1>4. ASSUME NEW m \in Message, NEW k \in Delivery, Handle(m, k)
      PROVE  VersionsBehind'
  BY <1>2, <1>4 DEF Handle, HandleKbArticleUpdated, HandleKbArticleDeleted,
    HandleOnce, outboxVars
<1>5. CASE BusStep /\ UNCHANGED domainVars
  BY <1>2, <1>5, RowsStayWritten DEF domainVars
<1>6. CASE UNCHANGED vars
  BY <1>2, <1>6 DEF vars, busVars, domainVars
<1> QED
  BY <1>1, <1>3, <1>4, <1>5, <1>6 DEF Next

\* An event, an answer of kb and a lesson take over the content of an article.
LEMMA ContentNext ==
    ASSUME VersionsBehind, VersionsBehind', ContentTyped, [Next]_vars
    PROVE  ContentTyped'
<1>1. ASSUME NEW a \in Aggregate, UpdateArticle(a) \/ DeleteArticle(a)
      PROVE  ContentTyped'
  <2>1. CASE UpdateArticle(a)
    <3>1. version[a] + 1 \in Version
      <4>1. version'[a] \in Version /\ version' = [version EXCEPT ![a] = version[a] + 1]
        BY <2>1 DEF VersionsBehind, UpdateArticle
      <4> QED
        BY <4>1 DEF VersionsBehind
    <3> QED
      BY <2>1, <3>1 DEF UpdateArticle, ContentTyped
  <2>2. CASE DeleteArticle(a)
    BY <2>2 DEF DeleteArticle, ContentTyped
  <2> QED
    BY <1>1, <2>1, <2>2
<1>2. CASE GetArticle
  BY <1>2, ArticleAssumption DEF GetArticle, VersionsBehind, ContentTyped
<1>3. CASE CreateLesson \/ UpdateLesson
  BY <1>3, BusAssumption DEF CreateLesson, UpdateLesson, ContentTyped, Binding, Version
<1>4. CASE PublishCourseVersion
  BY <1>4 DEF PublishCourseVersion, ContentTyped, Binding
<1>5. ASSUME NEW m \in Message, NEW k \in Delivery, Handle(m, k)
      PROVE  ContentTyped'
  <2>1. m[1] \in Event
    BY DEF Message
  <2>2. lesson' \in [binding : Binding, content : Version]
    BY <1>5, <2>1 DEF Handle, HandleKbArticleUpdated, HandleKbArticleDeleted,
      ContentTyped, Binding
  <2> QED
    BY <1>5, <2>2 DEF Handle, HandleKbArticleUpdated, HandleKbArticleDeleted,
      ContentTyped
<1>6. CASE UNCHANGED domainVars
  BY <1>6 DEF domainVars, ContentTyped
<1> QED
  BY <1>1, <1>2, <1>3, <1>4, <1>5, <1>6 DEF Next, vars

\* The outbox, the stream and the consumers stay within their limits, and every
\* version that an event, a request or a lesson holds is one that an article can
\* have had.
THEOREM ReplicationTypeOK == Spec => []TypeOK
<1> DEFINE Types == CountersBounded /\ VersionsBehind /\ ContentTyped
<1>1. Init => Types
  BY TypesStart
<1>2. BusInv /\ Types /\ [Next]_vars => Types'
  BY CountersNext, VersionsNext, ContentNext
<1>3. BusInv /\ Types => TypeOK
  BY DEF BusInv, BusShape, CountersBounded, VersionsBehind, ContentTyped,
    TypeOK, BusTypeOK
<1> QED
  BY BusInvariance, <1>1, <1>2, <1>3, PTL DEF Spec

-----------------------------------------------------------------------------
(* The bus implements the log.                                               *)

\* An event has an aggregate once its row is written.
RowsOwned == \A e \in Event : row[e] = "none" <=> aggregateOf[e] = NoAggregate

\* Only what is in the stream is delivered.
DeliveredPublished ==
    \A m \in Message, k \in Delivery : delivery[m][k] # "none" => copies[m[1]] > 0

\* The entry in processed_events is never committed without the effect.
EntriesApplied == \A e \in processed : applied[e] = 1

LogInv == RowsOwned /\ DeliveredPublished /\ EntriesApplied

\* The mapped state of the log.
Stream == {e \in Event : copies[e] > 0}
RelayedEvents == {e \in Event : row[e] \in {"published", "dead"}}
FinishedEvents == {m[1] : m \in acked}

\* No row is written and nothing is delivered at first.
LEMMA LogStart == BusInit => LogInv
  BY BusAssumption, Events
  DEF BusInit, LogInv, RowsOwned, DeliveredPublished, EntriesApplied

\* The relay changes the rows of its batch only, which are written, and the
\* stream only grows.
LEMMA LogRelay ==
    ASSUME BusInv, LogInv, NEW r \in Relay, RelayStep(r)
    PROVE  LogInv'
<1> USE Events DEF outboxVars, streamVars, handlerVars
<1>1. \A e \in Event : row'[e] = "none" <=> row[e] = "none"
  <2>1. CASE CommitBatch(r)
    <3>1. \A e \in Event : mark[r][e] \in Mark
      BY DEF BusInv, BusShape
    <3>2. \A v \in Mark : Outcome(v) # "none"
      BY DEF Mark, Outcome
    <3>3. \A e \in batch[r] : row[e] = "pending"
      BY DEF BusInv, BatchesLocked
    <3> QED
      BY <2>1, <3>1, <3>2, <3>3 DEF CommitBatch
  <2>2. CASE ~CommitBatch(r)
    BY <2>2 DEF RelayStep, SelectBatch, PublishItem, PublishItemFails,
      DeadLetterItem, RollbackBatch
  <2> QED
    BY <2>1, <2>2
<1>2. UNCHANGED <<aggregateOf, delivery, processed, applied>>
  BY DEF RelayStep, SelectBatch, PublishItem, PublishItemFails, DeadLetterItem,
    CommitBatch, RollbackBatch
<1>3. \A e \in Event : copies[e] > 0 => copies'[e] > 0
  <2>1. ASSUME NEW e \in Event,
               PublishItem(r, e) \/ PublishItemFails(r, e) \/ DeadLetterItem(r, e)
        PROVE  \A f \in Event : copies[f] > 0 => copies'[f] > 0
    <3>1. PICK n \in Stored(e) \cup {copies[e]} : copies' = [copies EXCEPT ![e] = n]
      BY <2>1 DEF PublishItem, PublishItemFails, DeadLetterItem
    <3>2. copies \in [Event -> Nat]
      BY DEF BusInv, BusShape
    <3>3. n \in Nat /\ n >= copies[e]
      BY <3>2, StoredGrows
    <3> QED
      BY <3>1, <3>2, <3>3
  <2>2. CASE SelectBatch(r) \/ CommitBatch(r) \/ RollbackBatch(r)
    BY <2>2 DEF SelectBatch, CommitBatch, RollbackBatch
  <2> QED
    BY <2>1, <2>2 DEF RelayStep
<1>4. RowsOwned'
  BY <1>1, <1>2 DEF LogInv, RowsOwned
<1>5. DeliveredPublished'
  BY <1>2, <1>3 DEF LogInv, DeliveredPublished
<1>6. EntriesApplied'
  BY <1>2 DEF LogInv, EntriesApplied
<1> QED
  BY <1>4, <1>5, <1>6 DEF LogInv

\* A delivery begins with a message of the stream; the handler's transaction
\* commits entry and effect together.
LEMMA LogConsumer ==
    ASSUME BusInv, LogInv, NEW m \in Message, NEW k \in Delivery,
           ConsumerStep(m, k) \/ HandleOnce(m, k)
    PROVE  LogInv'
<1> USE Events DEF outboxVars, relayVars, streamVars, handlerVars, Finish
<1>1. RowsOwned'
  BY DEF LogInv, RowsOwned, ConsumerStep, Deliver, Nak, MoveToDLQ, Ack,
    DeliveryLost, HandleOnce
<1>2. DeliveredPublished'
  <2>1. UNCHANGED copies
    BY DEF ConsumerStep, Deliver, Nak, MoveToDLQ, Ack, DeliveryLost, HandleOnce
  <2>2. copies[m[1]] > 0
    <3>1. CASE Deliver(m, k)
      <4>1. copies[m[1]] \in Nat
        BY DEF BusInv, BusShape
      <4>2. m[2] \in 1..MaxCopies
        BY DEF Message
      <4>3. m[2] <= copies[m[1]]
        BY <3>1 DEF Deliver
      <4> QED
        BY <4>1, <4>2, <4>3, BusAssumption
    <3>2. CASE ~Deliver(m, k)
      BY <3>2 DEF LogInv, DeliveredPublished, ConsumerStep, Nak, MoveToDLQ, Ack,
        MayAck, DeliveryLost, HandleOnce
    <3> QED
      BY <3>1, <3>2
  <2>3. PICK v : delivery' = [delivery EXCEPT ![m][k] = v]
    BY DEF ConsumerStep, Deliver, Nak, MoveToDLQ, Ack, DeliveryLost, HandleOnce
  <2>4. ASSUME NEW n \in Message, NEW j \in Delivery, delivery'[n][j] # "none"
        PROVE  copies[n[1]] > 0
    <3>1. CASE n = m
      BY <2>2, <3>1
    <3>2. CASE n # m
      BY <2>3, <2>4, <3>2 DEF BusInv, BusShape, LogInv, DeliveredPublished
    <3> QED
      BY <3>1, <3>2
  <2> QED
    BY <2>1, <2>4 DEF DeliveredPublished
<1>3. EntriesApplied'
  <2>1. CASE ConsumerStep(m, k)
    BY <2>1 DEF LogInv, EntriesApplied, ConsumerStep, Deliver, Nak, MoveToDLQ, Ack,
      DeliveryLost
  <2>2. CASE HandleOnce(m, k)
    <3>1. applied \in [Event -> Nat] /\ processed \subseteq Event
      BY DEF BusInv, BusShape
    <3>2. m[1] \notin processed => applied[m[1]] = 0
      BY DEF BusInv, EffectsRecorded
    <3>3. processed' = processed \cup {m[1]}
      BY <2>2 DEF HandleOnce
    <3>4. CASE FirstTime(m)
      <4>1. applied' = [applied EXCEPT ![m[1]] = applied[m[1]] + 1]
        BY <2>2, <3>4 DEF HandleOnce
      <4> QED
        BY <3>1, <3>2, <3>3, <3>4, <4>1 DEF LogInv, EntriesApplied, FirstTime
    <3>5. CASE ~FirstTime(m)
      BY <2>2, <3>3, <3>5 DEF LogInv, EntriesApplied, FirstTime, HandleOnce
    <3> QED
      BY <3>4, <3>5
  <2> QED
    BY <2>1, <2>2
<1> QED
  BY <1>1, <1>2, <1>3 DEF LogInv

\* Every step keeps what the log rests on.
LEMMA LogNext ==
    ASSUME BusInv, LogInv, [Next]_vars
    PROVE  LogInv'
<1>1. ASSUME NEW a \in Aggregate, UpdateArticle(a) \/ DeleteArticle(a)
      PROVE  LogInv'
  <2>1. PICK e \in Event : Emit(e, a)
    BY <1>1 DEF UpdateArticle, DeleteArticle
  <2>2. RowsOwned'
    BY <2>1, BusAssumption DEF Emit, BusInv, BusShape, LogInv, RowsOwned
  <2> QED
    BY <2>1, <2>2 DEF Emit, LogInv, DeliveredPublished, EntriesApplied, streamVars,
      handlerVars
<1>2. CASE UNCHANGED busVars
  BY <1>2 DEF busVars, LogInv, RowsOwned, DeliveredPublished, EntriesApplied
<1>3. CASE GetArticle \/ CreateLesson \/ UpdateLesson \/ PublishCourseVersion
  BY <1>2, <1>3 DEF GetArticle, CreateLesson, UpdateLesson, PublishCourseVersion
<1>4. ASSUME NEW m \in Message, NEW k \in Delivery, Handle(m, k)
      PROVE  LogInv'
  BY <1>4, LogConsumer DEF Handle, HandleKbArticleUpdated, HandleKbArticleDeleted
<1>5. CASE BusStep
  BY <1>5, LogRelay, LogConsumer DEF BusStep
<1> QED
  BY <1>1, <1>2, <1>3, <1>4, <1>5 DEF Next, vars

\* An event that a relay is about to publish is in turn: its batch keeps the
\* earlier events of the aggregate settled.
LEMMA ItemInTurn ==
    ASSUME BusInv, LogInv, NEW r \in Relay, NEW e \in Event, NextItem(r, e)
    PROVE  Log!InTurn(e)
<1>1. row[e] = "pending"
  BY DEF NextItem, BusInv, BatchesLocked
<1>2. aggregateOf[e] # NoAggregate
  BY <1>1 DEF LogInv, RowsOwned
<1>3. ASSUME NEW f \in Event, f < e, aggregateOf[f] = aggregateOf[e]
      PROVE  copies[f] > 0 \/ f \in deadLetters
  <2>1. Settled(f)
    BY <1>3 DEF NextItem, BusInv, BatchesLocked
  <2> QED
    BY <2>1, SettledRecorded DEF Recorded
<1> QED
  BY <1>2, <1>3 DEF Log!InTurn

\* An event of the stream stays in turn, so a consumer may still give it up.
LEMMA StreamInTurn ==
    ASSUME BusInv, LogInv, NEW e \in Event, copies[e] > 0
    PROVE  Log!InTurn(e)
<1>1. aggregateOf[e] # NoAggregate
  BY DEF BusInv, Written, LogInv, RowsOwned
<1>2. ASSUME NEW f \in Event, f < e, aggregateOf[f] = aggregateOf[e]
      PROVE  copies[f] > 0 \/ f \in deadLetters
  BY <1>2 DEF BusInv, PublishedInOrder
<1> QED
  BY <1>1, <1>2 DEF Log!InTurn

\* A step that changes nothing that the log shows.
LEMMA LogStutter ==
    ASSUME UNCHANGED <<aggregateOf, row, copies, deadLetters, acked, applied>>
    PROVE  UNCHANGED Log!logVars
  BY DEF Log!logVars

\* What a relay does to the log.
LEMMA RelayRefines ==
    ASSUME BusInv, LogInv, NEW r \in Relay, RelayStep(r)
    PROVE  [Log!Next]_(Log!logVars)
<1> USE DEF outboxVars, streamVars, handlerVars
<1>1. CASE SelectBatch(r) \/ RollbackBatch(r)
  BY <1>1, LogStutter DEF SelectBatch, RollbackBatch
<1>2. ASSUME NEW e \in Event,
             PublishItem(r, e) \/ PublishItemFails(r, e) \/ DeadLetterItem(r, e)
      PROVE  [Log!Next]_(Log!logVars)
  <2>1. PICK n \in Stored(e) \cup {copies[e]} : copies' = [copies EXCEPT ![e] = n]
    BY <1>2 DEF PublishItem, PublishItemFails, DeadLetterItem
  <2>2. copies \in [Event -> Nat]
    BY DEF BusInv, BusShape
  <2>3. n \in Nat /\ n >= copies[e]
    BY <2>2, StoredGrows
  <2>4. Stream' = Stream \/ Stream' = Stream \cup {e}
    BY <2>1, <2>2, <2>3 DEF Stream
  <2>5. Log!InTurn(e)
    BY <1>2, ItemInTurn DEF PublishItem, PublishItemFails, DeadLetterItem
  <2>6. UNCHANGED <<aggregateOf, row, acked, applied>>
    BY <1>2 DEF PublishItem, PublishItemFails, DeadLetterItem
  <2>7. UNCHANGED <<RelayedEvents, FinishedEvents>>
    BY <2>6 DEF RelayedEvents, FinishedEvents
  <2>8. CASE DeadLetterItem(r, e)
    <3>1. deadLetters' = deadLetters \cup {e}
      BY <2>8 DEF DeadLetterItem
    <3>2. Log!DeadLetter(e)
      BY <2>4, <2>5, <2>6, <2>7, <3>1
      DEF Log!DeadLetter, Stream, RelayedEvents, FinishedEvents
    <3> QED
      BY <3>2 DEF Log!Next
  <2>9. CASE PublishItem(r, e) \/ PublishItemFails(r, e)
    <3>1. UNCHANGED deadLetters
      BY <2>9 DEF PublishItem, PublishItemFails
    <3>2. CASE Stream' = Stream
      BY <2>6, <2>7, <3>1, <3>2
      DEF Log!logVars, Stream, RelayedEvents, FinishedEvents
    <3>3. CASE Stream' = Stream \cup {e}
      <4>1. Log!Publish(e)
        BY <2>5, <2>6, <2>7, <3>1, <3>3
        DEF Log!Publish, Stream, RelayedEvents, FinishedEvents
      <4> QED
        BY <4>1 DEF Log!Next
    <3> QED
      BY <2>4, <3>2, <3>3
  <2> QED
    BY <1>2, <2>8, <2>9
<1>3. CASE CommitBatch(r)
  <2> DEFINE events == {e \in batch[r] : mark[r][e] \in {"published", "dead"}}
  <2>1. UNCHANGED <<aggregateOf, copies, deadLetters, acked, applied>>
    BY <1>3 DEF CommitBatch
  <2>2. batch[r] \subseteq Event /\ \A e \in batch[r] : mark[r][e] \in Mark
    BY DEF BusInv, BusShape
  <2>3. events \subseteq Stream \cup deadLetters
    BY <2>2 DEF BusInv, MarksKept, Stream
  <2>4. \A e \in batch[r] : row[e] = "pending"
    BY DEF BusInv, BatchesLocked
  <2>5. \A v \in Mark : Outcome(v) \in {"published", "dead"}
                          <=> v \in {"published", "dead"}
    BY DEF Mark, Outcome
  <2>6. \A e \in Event :
           row'[e] = IF e \in batch[r] THEN Outcome(mark[r][e]) ELSE row[e]
    BY <1>3 DEF CommitBatch
  <2>7. RelayedEvents' = RelayedEvents \cup events
    BY <2>2, <2>4, <2>5, <2>6 DEF RelayedEvents
  <2> HIDE DEF events
  <2>8. UNCHANGED <<Stream, FinishedEvents>>
    BY <2>1 DEF Stream, FinishedEvents
  <2>9. PICK s \in SUBSET (Stream \cup deadLetters) : s = events
    BY <2>3
  <2>10. Log!Relayed(s)
    BY <2>1, <2>7, <2>8, <2>9 DEF Log!Relayed, RelayedEvents, Stream, FinishedEvents
  <2> QED
    BY <2>9, <2>10 DEF Log!Next, Stream
<1> QED
  BY <1>1, <1>2, <1>3 DEF RelayStep

\* What a delivery does to the log.
LEMMA ConsumerRefines ==
    ASSUME BusInv, LogInv, NEW m \in Message, NEW k \in Delivery,
           ConsumerStep(m, k) \/ HandleOnce(m, k)
    PROVE  [Log!Next]_(Log!logVars)
<1> USE DEF outboxVars, relayVars, streamVars, handlerVars, Finish
<1>1. m[1] \in Event
  BY Events
<1>2. CASE Deliver(m, k) \/ Nak(m, k) \/ DeliveryLost(m, k)
  BY <1>2, LogStutter DEF Deliver, Nak, DeliveryLost
<1>3. CASE HandleOnce(m, k)
  <2>1. UNCHANGED <<aggregateOf, row, copies, deadLetters, acked>>
    BY <1>3 DEF HandleOnce
  <2>2. CASE FirstTime(m)
    <3>1. applied[m[1]] = 0
      BY <1>1, <2>2 DEF BusInv, EffectsRecorded, FirstTime
    <3>2. applied' = [applied EXCEPT ![m[1]] = 1]
      BY <1>3, <2>2, <3>1 DEF HandleOnce
    <3>3. m[1] \in Stream
      BY <1>1, <1>3 DEF HandleOnce, LogInv, DeliveredPublished, Stream
    <3>4. Log!Apply(m[1])
      BY <2>1, <3>1, <3>2, <3>3 DEF Log!Apply, Stream
    <3> QED
      BY <1>1, <3>4 DEF Log!Next
  <2>3. CASE ~FirstTime(m)
    BY <1>3, <2>1, <2>3, LogStutter DEF HandleOnce
  <2> QED
    BY <2>2, <2>3
<1>4. CASE MoveToDLQ(m, k)
  <2>1. /\ UNCHANGED <<aggregateOf, row, copies, acked, applied>>
        /\ deadLetters' = deadLetters \cup {m[1]}
    BY <1>4 DEF MoveToDLQ
  <2>2. Log!InTurn(m[1])
    BY <1>1, <1>4, StreamInTurn DEF MoveToDLQ, LogInv, DeliveredPublished
  <2>3. Log!DeadLetter(m[1])
    BY <2>1, <2>2 DEF Log!DeadLetter
  <2> QED
    BY <1>1, <2>3 DEF Log!Next
<1>5. CASE Ack(m, k)
  <2>1. /\ UNCHANGED <<aggregateOf, row, copies, deadLetters, applied>>
        /\ acked' = acked \cup {m}
    BY <1>5 DEF Ack
  <2>2. FinishedEvents' = FinishedEvents \cup {m[1]}
    BY <2>1 DEF FinishedEvents
  <2>3. applied[m[1]] = 1 \/ m[1] \in deadLetters
    BY <1>5 DEF Ack, MayAck, BusInv, DeliveriesKept, LogInv, EntriesApplied
  <2>4. Log!Finished(m[1])
    BY <2>1, <2>2, <2>3 DEF Log!Finished, FinishedEvents
  <2> QED
    BY <1>1, <2>4 DEF Log!Next
<1> QED
  BY <1>2, <1>3, <1>4, <1>5 DEF ConsumerStep

\* Every step of the services and of the bus is a step of the log, or leaves
\* it as it is.
LEMMA LogStep ==
    ASSUME BusInv, LogInv, [Next]_vars
    PROVE  [Log!Next]_(Log!logVars)
<1>1. ASSUME NEW a \in Aggregate, UpdateArticle(a) \/ DeleteArticle(a)
      PROVE  [Log!Next]_(Log!logVars)
  <2>1. PICK e \in Event : Emit(e, a)
    BY <1>1 DEF UpdateArticle, DeleteArticle
  <2>2. /\ row[e] = "none"
        /\ \A f \in Event : f < e => row[f] # "none"
        /\ aggregateOf' = [aggregateOf EXCEPT ![e] = a]
        /\ row' = [row EXCEPT ![e] = "pending"]
        /\ UNCHANGED <<copies, deadLetters, acked, applied>>
    BY <2>1 DEF Emit, NextEvent, streamVars, handlerVars
  <2>3. aggregateOf[e] = NoAggregate
        /\ \A f \in Event : f < e => aggregateOf[f] # NoAggregate
    BY <2>2 DEF LogInv, RowsOwned
  <2>4. RelayedEvents' = RelayedEvents
    BY <2>2 DEF BusInv, BusShape, RelayedEvents
  <2>5. Log!Write(e, a)
    BY <2>2, <2>3, <2>4 DEF Log!Write, RelayedEvents
  <2> QED
    BY <2>5 DEF Log!Next
<1>2. CASE UNCHANGED busVars
  BY <1>2, LogStutter DEF busVars
<1>3. CASE GetArticle \/ CreateLesson \/ UpdateLesson \/ PublishCourseVersion
  BY <1>2, <1>3 DEF GetArticle, CreateLesson, UpdateLesson, PublishCourseVersion
<1>4. ASSUME NEW m \in Message, NEW k \in Delivery, Handle(m, k)
      PROVE  [Log!Next]_(Log!logVars)
  BY <1>4, ConsumerRefines DEF Handle, HandleKbArticleUpdated, HandleKbArticleDeleted
<1>5. CASE BusStep
  BY <1>5, RelayRefines, ConsumerRefines DEF BusStep
<1> QED
  BY <1>1, <1>2, <1>3, <1>4, <1>5 DEF Next, vars

\* The outbox, the relays, the stream and the consumers implement one log that
\* takes events in order, loses none and commits every effect once.
THEOREM LogImplemented == Spec => ImplementsLog
<1>1. Init => Log!Init
  BY DEF Init, BusInit, Log!Init
<1>2. Init => LogInv
  BY LogStart DEF Init
<1>3. BusInv /\ LogInv /\ [Next]_vars => LogInv' /\ [Log!Next]_(Log!logVars)
  BY LogNext, LogStep
<1> QED
  BY BusInvariance, <1>1, <1>2, <1>3, PTL DEF Spec, ImplementsLog, Log!Spec
==================================================================================
