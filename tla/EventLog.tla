-------------------------------- MODULE EventLog --------------------------------
(***************************************************************************)
(* What the services rely on when they exchange events: a log that takes   *)
(* the events of one aggregate in the order of its changes, loses none,    *)
(* and commits the effect of an event once, and of published events only.  *)
(* Nobody is done with an event before that: the relay when the event is   *)
(* in the stream or a dead letter, the consumer when its effect is         *)
(* committed or it is a dead letter.  Relays, copies and deliveries do not *)
(* appear.                                                                 *)
(***************************************************************************)
EXTENDS Naturals

CONSTANTS Event, Aggregate, NoAggregate

VARIABLES
    owner,        \* the aggregate of an event; NoAggregate: it is not written
    stream,       \* events that are published
    deadLetters,  \* events that someone has given up
    relayed,      \* events that the publishing service is done with
    applied,      \* how often the effect of an event was committed
    finished      \* events that the consumer is done with

logVars == <<owner, stream, deadLetters, relayed, applied, finished>>

Init ==
    /\ owner = [e \in Event |-> NoAggregate]
    /\ stream = {}
    /\ deadLetters = {}
    /\ relayed = {}
    /\ applied = [e \in Event |-> 0]
    /\ finished = {}

Write(e, a) ==
    /\ owner[e] = NoAggregate
    /\ \A f \in Event : f < e => owner[f] # NoAggregate
    /\ owner' = [owner EXCEPT ![e] = a]
    /\ UNCHANGED <<stream, deadLetters, relayed, applied, finished>>

\* Every earlier change of the aggregate is published or given up.
InTurn(e) ==
    /\ owner[e] # NoAggregate
    /\ \A f \in Event : f < e /\ owner[f] = owner[e] => f \in stream \cup deadLetters

Publish(e) ==
    /\ InTurn(e)
    /\ stream' = stream \cup {e}
    /\ UNCHANGED <<owner, deadLetters, relayed, applied, finished>>

\* An event is given up, although it may have been published.
DeadLetter(e) ==
    /\ InTurn(e)
    /\ stream' \in {stream, stream \cup {e}}
    /\ deadLetters' = deadLetters \cup {e}
    /\ UNCHANGED <<owner, relayed, applied, finished>>

Relayed(events) ==
    /\ relayed' = relayed \cup events
    /\ UNCHANGED <<owner, stream, deadLetters, applied, finished>>

Apply(e) ==
    /\ e \in stream
    /\ applied[e] = 0
    /\ applied' = [applied EXCEPT ![e] = 1]
    /\ UNCHANGED <<owner, stream, deadLetters, relayed, finished>>

Finished(e) ==
    /\ applied[e] = 1 \/ e \in deadLetters
    /\ finished' = finished \cup {e}
    /\ UNCHANGED <<owner, stream, deadLetters, relayed, applied>>

Next ==
    \/ \E e \in Event, a \in Aggregate : Write(e, a)
    \/ \E e \in Event : Publish(e) \/ DeadLetter(e) \/ Apply(e) \/ Finished(e)
    \/ \E events \in SUBSET (stream \cup deadLetters) : Relayed(events)

Spec == Init /\ [][Next]_logVars
=================================================================================
