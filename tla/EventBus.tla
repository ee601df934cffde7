-------------------------------- MODULE EventBus --------------------------------
(***************************************************************************)
(* The way of a domain event: a row of the transactional outbox, a relay   *)
(* that publishes it, the stream TEAMOS, and the durable consumer of its   *)
(* subject with its processed_events table and the dead letter subject.    *)
(*                                                                         *)
(* The relay is the one of kb, tasks and academy, which publishes the rows *)
(* of one aggregate in the order in which they were written.  A relay      *)
(* action is one statement or one publish call of publishBatch; a consumer *)
(* action is one step of consumeMessage for one delivery of a message.     *)
(* Publishers and handlers belong to the modules that extend this one:     *)
(* they add Emit and HandleOnce to the transactions of their service.      *)
(***************************************************************************)
EXTENDS Naturals, FiniteSets

CONSTANTS
    Relay,               \* replicas of the relay
    Aggregate,           \* aggregates (articles) that events belong to
    NoAggregate,         \* stands for an event that is not written yet
    MaxEvents,           \* bound: events written
    MaxPublishAttempts,  \* maxPublishAttempts of the relay
    MaxDeliver,          \* MaxDeliver of the consumer
    MaxCopies            \* bound: copies of one event in the stream

ASSUME BusAssumption ==
    /\ MaxEvents \in Nat
    /\ MaxPublishAttempts \in Nat \ {0}
    /\ MaxDeliver \in Nat \ {0}
    /\ MaxCopies \in Nat \ {0}
    /\ NoAggregate \notin Aggregate

\* An event is its event_order.
Event == 1..MaxEvents
Message == Event \X (1..MaxCopies)
Delivery == 1..MaxDeliver

VARIABLES
    aggregateOf,  \* aggregate_id of the rows of the outbox
    row,          \* published_at and last_error of a row
    attempts,     \* attempts of a row
    batch,        \* rows that a relay holds locked
    mark,         \* what a relay has written to its rows and not committed
    copies,       \* how often an event is in the stream
    deadLetters,  \* events with a message on a teamos.dlq subject
    delivery,     \* state of the n-th delivery of a message
    acked,        \* messages that the stream does not deliver again
    processed,    \* the consumers' processed_events
    applied       \* history: how often the effect of an event was committed

outboxVars == <<aggregateOf, row, attempts>>
relayVars == <<batch, mark>>
streamVars == <<copies, deadLetters, acked>>
handlerVars == <<processed, applied>>
busVars == <<aggregateOf, row, attempts, batch, mark, copies, deadLetters,
             delivery, acked, processed, applied>>

RowState == {"none", "pending", "published", "dead"}
Mark == {"none", "published", "failed", "dead"}
DeliveryState == {"none", "running", "handled", "dead", "over"}

BusTypeOK ==
    /\ aggregateOf \in [Event -> Aggregate \cup {NoAggregate}]
    /\ row \in [Event -> RowState]
    /\ attempts \in [Event -> 0..MaxPublishAttempts]
    /\ batch \in [Relay -> SUBSET Event]
    /\ mark \in [Relay -> [Event -> Mark]]
    /\ copies \in [Event -> 0..MaxCopies]
    /\ deadLetters \in SUBSET Event
    /\ delivery \in [Message -> [Delivery -> DeliveryState]]
    /\ acked \in SUBSET Message
    /\ processed \in SUBSET Event
    /\ applied \in [Event -> Nat]

BusInit ==
    /\ aggregateOf = [e \in Event |-> NoAggregate]
    /\ row = [e \in Event |-> "none"]
    /\ attempts = [e \in Event |-> 0]
    /\ batch = [r \in Relay |-> {}]
    /\ mark = [r \in Relay |-> [e \in Event |-> "none"]]
    /\ copies = [e \in Event |-> 0]
    /\ deadLetters = {}
    /\ delivery = [m \in Message |-> [k \in Delivery |-> "none"]]
    /\ acked = {}
    /\ processed = {}
    /\ applied = [e \in Event |-> 0]

-----------------------------------------------------------------------------
(* Writing an event, in the transaction that changes the aggregate.        *)

\* event_order is a sequence; transactions on one aggregate are serialised by
\* the lock on its row, so the order of its events is the order of the changes.
NextEvent(e) ==
    /\ row[e] = "none"
    /\ \A f \in Event : f < e => row[f] # "none"

Emit(e, a) ==
    /\ NextEvent(e)
    /\ aggregateOf' = [aggregateOf EXCEPT ![e] = a]
    /\ row' = [row EXCEPT ![e] = "pending"]
    /\ UNCHANGED <<attempts, relayVars, streamVars, delivery, handlerVars>>

-----------------------------------------------------------------------------
(* The relay.                                                              *)

\* A relay like the one of company, which takes any row.
CandidateUnordered(e) == row[e] = "pending"

\* A row whose aggregate has no earlier row that is not published.
Candidate(e) ==
    /\ row[e] = "pending"
    /\ ~ \E f \in Event : /\ f < e
                          /\ aggregateOf[f] = aggregateOf[e]
                          /\ row[f] = "pending"

Locked == UNION {batch[r] : r \in Relay}

\* FOR UPDATE SKIP LOCKED; rows whose next_attempt_at lies ahead are passed over.
SelectBatch(r) ==
    /\ batch[r] = {}
    /\ \E rows \in SUBSET ({e \in Event : Candidate(e)} \ Locked) :
          /\ rows # {}
          /\ batch' = [batch EXCEPT ![r] = rows]
    /\ UNCHANGED <<outboxVars, mark, streamVars, delivery, handlerVars>>

\* The rows of a batch are published in order.
NextItem(r, e) ==
    /\ e \in batch[r]
    /\ mark[r][e] = "none"
    /\ \A f \in batch[r] : f < e => mark[r][f] # "none"

\* The stream drops a message whose Nats-Msg-Id it has seen in the last two
\* minutes and stores it again after that.
Stored(e) ==
    LET again == IF copies[e] < MaxCopies THEN copies[e] + 1 ELSE copies[e]
    IN  IF copies[e] = 0 THEN {1} ELSE {copies[e], again}

PublishItem(r, e) ==
    /\ NextItem(r, e)
    /\ \E n \in Stored(e) : copies' = [copies EXCEPT ![e] = n]
    /\ mark' = [mark EXCEPT ![r][e] = "published"]
    /\ UNCHANGED <<outboxVars, batch, deadLetters, acked, delivery, handlerVars>>

LastAttempt(e) == attempts[e] + 1 >= MaxPublishAttempts

\* Publishing failed, though the stream may have stored the message, and the
\* row has attempts left or its dead letter was not accepted.
PublishItemFails(r, e) ==
    /\ NextItem(r, e)
    /\ \E n \in Stored(e) \cup {copies[e]} : copies' = [copies EXCEPT ![e] = n]
    /\ mark' = [mark EXCEPT ![r][e] = "failed"]
    /\ UNCHANGED <<outboxVars, batch, deadLetters, acked, delivery, handlerVars>>

DeadLetterItem(r, e) ==
    /\ NextItem(r, e)
    /\ LastAttempt(e)
    /\ \E n \in Stored(e) \cup {copies[e]} : copies' = [copies EXCEPT ![e] = n]
    /\ deadLetters' = deadLetters \cup {e}
    /\ mark' = [mark EXCEPT ![r][e] = "dead"]
    /\ UNCHANGED <<outboxVars, batch, acked, delivery, handlerVars>>

\* A relay that leaves a failed row neither published nor due again.
OutcomeParked(m) == m

\* The commit makes the updates of publishBatch visible.
Outcome(m) ==
    CASE m = "published" -> "published"
      [] m = "dead"      -> "dead"
      [] m = "failed"    -> "pending"
      [] m = "none"      -> "pending"

CommitBatch(r) ==
    /\ batch[r] # {}
    /\ \A e \in batch[r] : mark[r][e] # "none"
    /\ row' = [e \in Event |-> IF e \in batch[r] THEN Outcome(mark[r][e]) ELSE row[e]]
    /\ attempts' = [e \in Event |-> IF e \in batch[r] /\ attempts[e] < MaxPublishAttempts
                                    THEN attempts[e] + 1 ELSE attempts[e]]
    /\ batch' = [batch EXCEPT ![r] = {}]
    /\ mark' = [mark EXCEPT ![r] = [e \in Event |-> "none"]]
    /\ UNCHANGED <<aggregateOf, streamVars, delivery, handlerVars>>

\* A statement fails or the process stops: the transaction is rolled back.
RollbackBatch(r) ==
    /\ batch[r] # {}
    /\ batch' = [batch EXCEPT ![r] = {}]
    /\ mark' = [mark EXCEPT ![r] = [e \in Event |-> "none"]]
    /\ UNCHANGED <<outboxVars, streamVars, delivery, handlerVars>>

-----------------------------------------------------------------------------
(* The consumer.                                                           *)

\* The stream delivers a message for the first time, or again after a NAK or
\* when AckWait has run out, which also happens while a slow handler works.
Deliver(m, k) ==
    /\ m[2] <= copies[m[1]]
    /\ m \notin acked
    /\ delivery[m][k] = "none"
    /\ \A j \in Delivery : j < k => delivery[m][j] # "none"
    /\ delivery' = [delivery EXCEPT ![m][k] = "running"]
    /\ UNCHANGED <<outboxVars, relayVars, streamVars, handlerVars>>

Finish(m, k, from, to) ==
    /\ delivery[m][k] = from
    /\ delivery' = [delivery EXCEPT ![m][k] = to]

\* A handler that trusts the stream to deliver a message once.
FirstTimeUnchecked(m) == m \notin acked

\* The handler's transaction: the event is entered in processed_events and
\* applied, or it is there already and nothing else happens.
FirstTime(m) == m[1] \notin processed

\* A handler that enters the event in processed_events in a transaction of its
\* own, and may fail after it.
HandleOnceSplit(m, k) ==
    /\ Finish(m, k, "running", "handled")
    /\ processed' = processed \cup {m[1]}
    /\ \/ applied' = IF FirstTime(m) THEN [applied EXCEPT ![m[1]] = @ + 1] ELSE applied
       \/ UNCHANGED applied
    /\ UNCHANGED <<outboxVars, relayVars, streamVars>>

HandleOnce(m, k) ==
    /\ Finish(m, k, "running", "handled")
    /\ processed' = processed \cup {m[1]}
    /\ applied' = IF FirstTime(m) THEN [applied EXCEPT ![m[1]] = @ + 1] ELSE applied
    /\ UNCHANGED <<outboxVars, relayVars, streamVars>>

\* The handler failed and the delivery is given back: the message has deliveries
\* left, or its dead letter was not accepted.
Nak(m, k) ==
    /\ Finish(m, k, "running", "over")
    /\ UNCHANGED <<outboxVars, relayVars, streamVars, handlerVars>>

\* The handler failed on the last delivery and the dead letter was accepted.
MoveToDLQ(m, k) ==
    /\ Finish(m, k, "running", "dead")
    /\ k >= MaxDeliver
    /\ deadLetters' = deadLetters \cup {m[1]}
    /\ UNCHANGED <<outboxVars, relayVars, copies, acked, handlerVars>>

\* A consumer that acknowledges a failed last delivery whatever becomes of the
\* dead letter.
MayAckFailed(m, k) ==
    \/ delivery[m][k] \in {"handled", "dead"}
    \/ delivery[m][k] = "running" /\ k >= MaxDeliver

MayAck(m, k) == delivery[m][k] \in {"handled", "dead"}

Ack(m, k) ==
    /\ MayAck(m, k)
    /\ delivery' = [delivery EXCEPT ![m][k] = "over"]
    /\ acked' = acked \cup {m}
    /\ UNCHANGED <<outboxVars, relayVars, copies, deadLetters, handlerVars>>

\* The process stops, or the acknowledgement is lost.
DeliveryLost(m, k) ==
    /\ delivery[m][k] \in {"running", "handled", "dead"}
    /\ delivery' = [delivery EXCEPT ![m][k] = "over"]
    /\ UNCHANGED <<outboxVars, relayVars, streamVars, handlerVars>>

-----------------------------------------------------------------------------

RelayStep(r) ==
    \/ SelectBatch(r)
    \/ \E e \in Event : PublishItem(r, e) \/ PublishItemFails(r, e) \/ DeadLetterItem(r, e)
    \/ CommitBatch(r)
    \/ RollbackBatch(r)

ConsumerStep(m, k) ==
    \/ Deliver(m, k)
    \/ Nak(m, k)
    \/ MoveToDLQ(m, k)
    \/ Ack(m, k)
    \/ DeliveryLost(m, k)

BusStep ==
    \/ \E r \in Relay : RelayStep(r)
    \/ \E m \in Message, k \in Delivery : ConsumerStep(m, k)

-----------------------------------------------------------------------------
(* Properties.                                                             *)

\* The effect of an event is committed at most once, however often the relay
\* published it, the stream delivered it and two replicas worked on it at once.
EffectOnce == \A e \in Event : applied[e] <= 1

\* Relays that fail, roll back and take over each other's rows never put an
\* event into the stream before an earlier one of the same aggregate, unless
\* that one became a dead letter.
PublishedInOrder ==
    \A e, f \in Event :
        (e < f /\ aggregateOf[e] = aggregateOf[f] /\ copies[f] > 0)
            => (copies[e] > 0 \/ e \in deadLetters)

\* Nothing is forgotten: a row that the relay is done with is in the stream or
\* a dead letter, and a message that the stream will not deliver again was
\* handled or is a dead letter.
NothingForgotten ==
    /\ \A e \in Event : row[e] = "published" => copies[e] > 0
    /\ \A e \in Event : row[e] = "dead" => e \in deadLetters
    /\ \A m \in acked : m[1] \in processed \cup deadLetters

Log == INSTANCE EventLog WITH
    owner <- aggregateOf,
    stream <- {e \in Event : copies[e] > 0},
    relayed <- {e \in Event : row[e] \in {"published", "dead"}},
    finished <- {m[1] : m \in acked}

\* The outbox, the relays, the stream and the deduplicating consumers together
\* are one log: through crashes, rollbacks, lost acknowledgements and second
\* deliveries, every event takes its turn in its aggregate, its effect is
\* committed once, after it was published, and nobody is done with it before
\* that, unless it is a dead letter.
ImplementsLog == Log!Spec
=================================================================================
