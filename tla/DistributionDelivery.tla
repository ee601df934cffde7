-------------------------- MODULE DistributionDelivery --------------------------
(***************************************************************************)
(* The inbox of CRM events about one lead and the lead head they maintain. *)
(* Core delivers messages at least once and in any order.  A worker leases *)
(* an inbox row, allocates an observation generation, reads the lead from  *)
(* the CRM through Core without a database lock, and applies what it read  *)
(* to the head unless a newer observation was applied in the meantime.     *)
(*                                                                         *)
(* The heads of different leads share nothing, so there is one lead.  An   *)
(* action is one database transaction, one call to Core or one change of   *)
(* the surroundings.  next_attempt_at only delays a claim and is left out. *)
(* Source times and source evidence decide between a pause, a proven       *)
(* re-entry and nothing: the model allows each where the code can take it. *)
(***************************************************************************)
EXTENDS Integers

CONSTANTS
    Message,      \* message ids
    Event,        \* event ids
    EventOf,      \* message -> event; Core may re-issue an event
    KindOf,       \* event -> kind
    Worker,       \* replicas running RunDistributionDelivery
    Stage,        \* pipeline and status of a lead
    Gone, Unseen, \* deleted or absent; no snapshot yet
    MaxAttempts,  \* bound: attempts of one inbox row that may be disturbed
    MaxEntries,   \* bound: entries of the lead
    MaxBindings,  \* bound: bindings of the company
    NoMessage, NoWorker

Kind == {"created", "status_changed", "digital_pipeline_trigger", "other"}

ASSUME DeliveryAssumption ==
    /\ EventOf \in [Message -> Event]
    /\ KindOf \in [Event -> Kind]
    /\ Gone \notin Stage /\ Unseen \notin Stage /\ Gone # Unseen
    /\ MaxAttempts \in Nat /\ MaxEntries \in Nat /\ MaxBindings \in Nat
    /\ NoMessage \notin Message /\ NoWorker \notin Worker

VARIABLES
    inbox,      \* distribution_delivery_inbox.state; "pending" is received or blocked
    why,        \* error_code of an ignored row
    token,      \* lease_token
    live,       \* rows whose lease_until has not passed
    attempts,   \* attempts
    receipt,    \* distribution_event_receipts: event -> first message
    nextGen, appliedGen, headRev, sequence, current,  \* distribution_lead_heads
    headStage,  \* snapshot, deleted and absent of the head
    headScope,  \* binding of the head
    entry,      \* state of the observed entries
    entryStage, \* pipeline and status of the observed entries
    binding,    \* the latest binding of the company
    bound,      \* its state
    confirmed,  \* bindings with a row in distribution_binding_versions
    crm,        \* where the lead is
    version,    \* history: number of changes of the lead in the CRM
    born,       \* history: version announced by an event, or -1
    scope,      \* event -> binding under which Core emitted it
    reads,      \* observations numbered by Core
    headVersion,\* history: version that the head reflects
    pc, row, gen, rev, ver, stage  \* a worker's local variables

inboxVars == <<inbox, why, token, live, attempts, receipt>>
headVars == <<nextGen, appliedGen, headRev, sequence, current, headStage, headScope,
              headVersion>>
entryVars == <<entry, entryStage>>
bindingVars == <<binding, bound, confirmed>>
crmVars == <<crm, version, born, scope>>
workerVars == <<pc, row, gen, rev, ver, stage>>
vars == <<inboxVars, headVars, entryVars, bindingVars, crmVars, reads, workerVars>>

EntryId == 1 .. MaxEntries
EntryState == {"unseen", "checking", "ambiguous", "unproven", "cancelled"}
Reason == {"", "duplicate_business_event", "historical_binding_event", "stale_observation"}

InboxType ==
    /\ inbox \in [Message -> {"absent", "pending", "processing", "applied", "ignored"}]
    /\ why \in [Message -> Reason]
    /\ token \in [Message -> Worker \cup {NoWorker}]
    /\ live \subseteq Message
    /\ attempts \in [Message -> Nat]
    /\ receipt \in [Event -> Message \cup {NoMessage}]

HeadType ==
    /\ nextGen \in Nat /\ appliedGen \in Nat /\ headRev \in Nat /\ headVersion \in Int
    /\ sequence \in 0 .. MaxEntries /\ current \in 0 .. MaxEntries
    /\ headStage \in Stage \cup {Gone, Unseen}
    /\ headScope \in Nat
    /\ entry \in [EntryId -> EntryState]
    /\ entryStage \in [EntryId -> Stage \cup {Unseen}]

CrmType ==
    /\ binding \in Nat /\ bound \in {"pending", "active", "revoked"} /\ confirmed \subseteq Nat
    /\ crm \in Stage \cup {Gone}
    /\ version \in Nat
    /\ born \in [Event -> Nat \cup {-1}]
    /\ scope \in [Event -> Nat]
    /\ reads \in Nat

DeliveryWorkerType ==
    /\ pc \in [Worker -> {"idle", "begin", "read", "apply"}]
    /\ row \in [Worker -> Message \cup {NoMessage}]
    /\ gen \in [Worker -> Nat]
    /\ rev \in [Worker -> Nat]
    /\ ver \in [Worker -> Nat]
    /\ stage \in [Worker -> Stage \cup {Gone, Unseen}]
    /\ \A w \in Worker : pc[w] # "idle" => row[w] \in Message
    /\ \A w \in Worker : pc[w] = "apply" => stage[w] # Unseen

\* Every variable has its type; in particular the head refers to an existing entry
\* number and a worker in a pass has a row.
DeliveryTypeOK == InboxType /\ HeadType /\ CrmType /\ DeliveryWorkerType

Init ==
    /\ inbox = [m \in Message |-> "absent"]
    /\ why = [m \in Message |-> ""]
    /\ token = [m \in Message |-> NoWorker]
    /\ live = {}
    /\ attempts = [m \in Message |-> 0]
    /\ receipt = [e \in Event |-> NoMessage]
    /\ nextGen = 0 /\ appliedGen = 0 /\ headRev = 0 /\ sequence = 0 /\ current = 0
    /\ headStage = Unseen /\ headVersion = -1
    /\ binding = 1 /\ bound = "active" /\ confirmed = {1}
    /\ headScope = binding
    /\ entry = [i \in EntryId |-> "unseen"]
    /\ entryStage = [i \in EntryId |-> Unseen]
    /\ crm \in Stage
    /\ version = 0
    /\ born = [e \in Event |-> -1]
    /\ scope = [e \in Event |-> binding]
    /\ reads = 0
    /\ pc = [w \in Worker |-> "idle"]
    /\ row = [w \in Worker |-> NoMessage]
    /\ gen = [w \in Worker |-> 0]
    /\ rev = [w \in Worker |-> 0]
    /\ ver = [w \in Worker |-> 0]
    /\ stage = [w \in Worker |-> Unseen]

--------------------------------------------------------------------------------
\* External: the lead moves in the CRM and Core announces it.
\* An event announces a new place of the lead, or something else about it.
CrmEvent(e, s) ==
    /\ born[e] = -1
    /\ KindOf[e] \in {"created", "digital_pipeline_trigger"} => s = crm
    /\ crm' = s
    /\ version' = IF s = crm THEN version ELSE version + 1
    /\ born' = [born EXCEPT ![e] = version']
    /\ scope' = [scope EXCEPT ![e] = binding]
    /\ UNCHANGED <<inboxVars, headVars, entryVars, bindingVars, reads, workerVars>>

\* A company has one binding that is not revoked.  A new one is pending until
\* Core has confirmed it.
LinkDistributionConnection ==
    /\ bound = "revoked" /\ binding < MaxBindings
    /\ binding' = binding + 1 /\ bound' = "pending"
    /\ UNCHANGED confirmed
    /\ UNCHANGED <<inboxVars, headVars, entryVars, crmVars, reads, workerVars>>

ActivateDistributionBinding ==
    /\ bound = "pending"
    /\ bound' = "active" /\ confirmed' = confirmed \cup {binding}
    /\ UNCHANGED binding
    /\ UNCHANGED <<inboxVars, headVars, entryVars, crmVars, reads, workerVars>>

\* A binding revoked while it is pending is recorded under the revision of its
\* revocation only.
RevokeDistributionConnection ==
    /\ bound # "revoked"
    /\ bound' = "revoked"
    /\ UNCHANGED <<binding, confirmed>>
    /\ UNCHANGED <<inboxVars, headVars, entryVars, crmVars, reads, workerVars>>

--------------------------------------------------------------------------------
(***************************************************************************)
(* receiveDelivery.  A message that is already in the inbox, that has      *)
(* another payload than before, or whose binding is not confirmed, changes *)
(* nothing.                                                                *)
(***************************************************************************)

\* Mutant: the event receipt is not looked at.
ReceiveDeliveryAnew(m) ==
    /\ inbox[m] = "absent" /\ born[EventOf[m]] # -1 /\ scope[EventOf[m]] \in confirmed
    /\ inbox' = [inbox EXCEPT ![m] = "pending"]
    /\ receipt' = [receipt EXCEPT ![EventOf[m]] = m]
    /\ UNCHANGED <<why, token, live, attempts>>
    /\ UNCHANGED <<headVars, entryVars, bindingVars, crmVars, reads, workerVars>>

ReceiveDelivery(m) ==
    LET e == EventOf[m] IN
    /\ inbox[m] = "absent" /\ born[e] # -1 /\ scope[e] \in confirmed
    /\ IF receipt[e] = NoMessage
       THEN /\ inbox' = [inbox EXCEPT ![m] = "pending"]
            /\ receipt' = [receipt EXCEPT ![e] = m]
            /\ UNCHANGED why
       ELSE /\ inbox' = [inbox EXCEPT ![m] = "ignored"]
            /\ why' = [why EXCEPT ![m] = "duplicate_business_event"]
            /\ UNCHANGED receipt
    /\ UNCHANGED <<token, live, attempts>>
    /\ UNCHANGED <<headVars, entryVars, bindingVars, crmVars, reads, workerVars>>

--------------------------------------------------------------------------------
(***************************************************************************)
(* ProcessDistributionDelivery in a worker w.                              *)
(***************************************************************************)

\* Mutant: rows that a lost worker left in processing are not claimed again.
ClaimDistributionDeliveryNew(w, m) ==
    /\ pc[w] = "idle" /\ inbox[m] = "pending"
    /\ inbox' = [inbox EXCEPT ![m] = "processing"]
    /\ token' = [token EXCEPT ![m] = w]
    /\ live' = live \cup {m}
    /\ attempts' = [attempts EXCEPT ![m] = @ + 1]
    /\ pc' = [pc EXCEPT ![w] = "begin"]
    /\ row' = [row EXCEPT ![w] = m]
    /\ UNCHANGED <<why, receipt, gen, rev, ver, stage>>
    /\ UNCHANGED <<headVars, entryVars, bindingVars, crmVars, reads>>

ClaimDistributionDelivery(w, m) ==
    /\ pc[w] = "idle"
    /\ inbox[m] = "pending" \/ (inbox[m] = "processing" /\ m \notin live)
    /\ inbox' = [inbox EXCEPT ![m] = "processing"]
    /\ token' = [token EXCEPT ![m] = w]
    /\ live' = live \cup {m}
    /\ attempts' = [attempts EXCEPT ![m] = @ + 1]
    /\ pc' = [pc EXCEPT ![w] = "begin"]
    /\ row' = [row EXCEPT ![w] = m]
    /\ UNCHANGED <<why, receipt, gen, rev, ver, stage>>
    /\ UNCHANGED <<headVars, entryVars, bindingVars, crmVars, reads>>

\* LockDistributionDeliveryLease.
LeaseLocked(w) ==
    /\ token[row[w]] = w /\ inbox[row[w]] = "processing" /\ row[w] \in live

EndPass(w) ==
    /\ pc' = [pc EXCEPT ![w] = "idle"]
    /\ row' = [row EXCEPT ![w] = NoMessage]
    /\ gen' = [gen EXCEPT ![w] = 0]
    /\ rev' = [rev EXCEPT ![w] = 0]
    /\ ver' = [ver EXCEPT ![w] = 0]
    /\ stage' = [stage EXCEPT ![w] = Unseen]

\* FinishDistributionDelivery, in a transaction that has locked the lease.
Finish(w, end, reason) ==
    LET m == row[w] IN
    /\ inbox' = [inbox EXCEPT ![m] = end]
    /\ why' = [why EXCEPT ![m] = reason]
    /\ token' = [token EXCEPT ![m] = NoWorker]
    /\ live' = live \ {m}
    /\ UNCHANGED <<attempts, receipt>>
    /\ EndPass(w)

\* Mutant: the retry is written whoever holds the row.
FailAny(w) ==
    /\ inbox' = [inbox EXCEPT ![row[w]] = "pending"]
    /\ token' = [token EXCEPT ![row[w]] = NoWorker]
    /\ live' = live \ {row[w]}
    /\ EndPass(w)
    /\ UNCHANGED <<why, attempts, receipt>>
    /\ UNCHANGED <<headVars, entryVars, bindingVars, crmVars, reads>>

\* RetryDistributionDelivery writes if the token is still there, expired or not.
Fail(w) ==
    LET m == row[w] IN
    /\ IF token[m] = w
       THEN /\ inbox' = [inbox EXCEPT ![m] = "pending"]
            /\ token' = [token EXCEPT ![m] = NoWorker]
            /\ live' = live \ {m}
       ELSE UNCHANGED <<inbox, token, live>>
    /\ EndPass(w)
    /\ UNCHANGED <<why, attempts, receipt>>
    /\ UNCHANGED <<headVars, entryVars, bindingVars, crmVars, reads>>

Disturbable(m) == attempts[m] < MaxAttempts

LeaseExpires(m) ==
    /\ m \in live
    /\ Disturbable(m) \/ \A w \in Worker : row[w] # m
    /\ live' = live \ {m}
    /\ UNCHANGED <<inbox, why, token, attempts, receipt>>
    /\ UNCHANGED <<headVars, entryVars, bindingVars, crmVars, reads, workerVars>>

\* The process ends, or its 20 s run out, in the middle of a pass.
Crash(w) ==
    /\ pc[w] # "idle" /\ Disturbable(row[w])
    /\ EndPass(w)
    /\ UNCHANGED <<inboxVars, headVars, entryVars, bindingVars, crmVars, reads>>

LeaseLost(w) ==
    /\ pc[w] \in {"begin", "apply"} /\ ~LeaseLocked(w)
    /\ Fail(w)

\* Any call of the pass, to the database or to Core, may return an error.
PassFails(w) ==
    /\ pc[w] # "idle" /\ Disturbable(row[w])
    /\ Fail(w)

\* currentDeliveryBinding.
Historical(w) == bound # "active" \/ scope[EventOf[row[w]]] # binding

BeginHistorical(w) ==
    /\ pc[w] = "begin" /\ LeaseLocked(w) /\ Historical(w)
    /\ Finish(w, "ignored", "historical_binding_event")
    /\ UNCHANGED <<headVars, entryVars, bindingVars, crmVars, reads>>

\* Mutant: the generation is derived from the applied one instead of counted.
BeginObservationUncounted(w) ==
    /\ pc[w] = "begin" /\ LeaseLocked(w) /\ ~Historical(w)
    /\ nextGen' = appliedGen + 1
    /\ headScope' = IF nextGen = 0 THEN scope[EventOf[row[w]]] ELSE headScope
    /\ gen' = [gen EXCEPT ![w] = appliedGen + 1]
    /\ pc' = [pc EXCEPT ![w] = "read"]
    /\ UNCHANGED <<appliedGen, headRev, sequence, current, headStage, headVersion>>
    /\ UNCHANGED <<row, rev, ver, stage>>
    /\ UNCHANGED <<inboxVars, entryVars, bindingVars, crmVars, reads>>

\* The first event of a lead creates its head; every pass takes a generation.
BeginObservation(w) ==
    /\ pc[w] = "begin" /\ LeaseLocked(w) /\ ~Historical(w)
    /\ nextGen' = nextGen + 1
    /\ headScope' = IF nextGen = 0 THEN scope[EventOf[row[w]]] ELSE headScope
    /\ gen' = [gen EXCEPT ![w] = nextGen + 1]
    /\ pc' = [pc EXCEPT ![w] = "read"]
    /\ UNCHANGED <<appliedGen, headRev, sequence, current, headStage, headVersion>>
    /\ UNCHANGED <<row, rev, ver, stage>>
    /\ UNCHANGED <<inboxVars, entryVars, bindingVars, crmVars, reads>>

\* Mutant: a lead that is gone is taken for one without a snapshot.
ReadLeadGone(w) ==
    /\ pc[w] = "read"
    /\ reads' = reads + 1
    /\ rev' = [rev EXCEPT ![w] = reads + 1]
    /\ ver' = [ver EXCEPT ![w] = version]
    /\ stage' = [stage EXCEPT ![w] = IF crm = Gone THEN Unseen ELSE crm]
    /\ pc' = [pc EXCEPT ![w] = "apply"]
    /\ UNCHANGED <<row, gen>>
    /\ UNCHANGED <<inboxVars, headVars, entryVars, bindingVars, crmVars>>

\* Core numbers its observations in the order in which it reads the CRM.
ReadLead(w) ==
    /\ pc[w] = "read"
    /\ reads' = reads + 1
    /\ rev' = [rev EXCEPT ![w] = reads + 1]
    /\ ver' = [ver EXCEPT ![w] = version]
    /\ stage' = [stage EXCEPT ![w] = crm]
    /\ pc' = [pc EXCEPT ![w] = "apply"]
    /\ UNCHANGED <<row, gen>>
    /\ UNCHANGED <<inboxVars, headVars, entryVars, bindingVars, crmVars>>

\* Mutant: an observation that was overtaken is applied as well.
StaleNever(w) == FALSE

Stale(w) == appliedGen >= gen[w] \/ rev[w] <= headRev

ApplyHistorical(w) ==
    /\ pc[w] = "apply" /\ LeaseLocked(w) /\ Historical(w)
    /\ Finish(w, "ignored", "historical_binding_event")
    /\ UNCHANGED <<headVars, entryVars, bindingVars, crmVars, reads>>

ApplyStale(w) ==
    /\ pc[w] = "apply" /\ LeaseLocked(w) /\ ~Historical(w) /\ Stale(w)
    /\ Finish(w, "ignored", "stale_observation")
    /\ UNCHANGED <<headVars, entryVars, bindingVars, crmVars, reads>>

SameStage(w) == headStage \in Stage /\ stage[w] = headStage

\* provenDistributionSourceChain may prove that the lead left and returned.
ReentryPossible(w) ==
    /\ KindOf[EventOf[row[w]]] = "status_changed"
    /\ headScope = scope[EventOf[row[w]]] /\ current # 0 /\ SameStage(w)

AmbiguityPossible(w) ==
    KindOf[EventOf[row[w]]] = "status_changed" /\ SameStage(w)

Changed(w, reentry) ==
    \/ reentry
    \/ stage[w] = Gone \/ headStage \in {Gone, Unseen} \/ stage[w] # headStage
    \/ KindOf[EventOf[row[w]]] = "digital_pipeline_trigger"
    \/ headScope # scope[EventOf[row[w]]]

\* "unproven" where nothing shows that the lead has just entered the stage, or
\* the source time is unknown.
NewStates(w, reentry) ==
    IF reentry THEN {"checking"}
    ELSE IF headStage \in Stage \/ KindOf[EventOf[row[w]]] \in {"created", "digital_pipeline_trigger"}
    THEN {"checking", "unproven"}
    ELSE {"unproven"}

\* Mutant: the previous entry is left as it is.
LeaveKept(i, ambiguous, changed) == entry

\* The current entry i is paused when ambiguous and cancelled when changed.
Leave(i, ambiguous, changed) ==
    [j \in EntryId |->
        IF j # i \/ entry[j] = "cancelled" THEN entry[j]
        ELSE IF changed THEN "cancelled"
        ELSE IF ambiguous THEN "ambiguous"
        ELSE entry[j]]

ApplyObservation(w) ==
    /\ pc[w] = "apply" /\ LeaseLocked(w) /\ ~Historical(w) /\ ~Stale(w)
    /\ \E reentry, ambiguous \in BOOLEAN :
        LET changed == Changed(w, reentry)
            opens == changed /\ stage[w] \in Stage
            next == sequence + 1
        IN
        /\ reentry => ReentryPossible(w)
        /\ ambiguous => AmbiguityPossible(w) /\ ~reentry
        /\ IF opens
           THEN /\ next \in EntryId
                /\ \E st \in NewStates(w, reentry) :
                    entry' = [Leave(current, ambiguous, changed) EXCEPT ![next] = st]
                /\ entryStage' = [entryStage EXCEPT ![next] = stage[w]]
                /\ sequence' = next /\ current' = next
           ELSE /\ entry' = Leave(current, ambiguous, changed)
                /\ current' = IF changed THEN 0 ELSE current
                /\ UNCHANGED <<sequence, entryStage>>
    /\ appliedGen' = gen[w]
    /\ headRev' = rev[w]
    /\ headStage' = stage[w]
    /\ headScope' = scope[EventOf[row[w]]]
    /\ headVersion' = ver[w]
    /\ Finish(w, "applied", "")
    /\ UNCHANGED <<nextGen, bindingVars, crmVars, reads>>

--------------------------------------------------------------------------------
PassNext(w) ==
    \/ LeaseLost(w)
    \/ BeginHistorical(w) \/ BeginObservation(w) \/ ReadLead(w)
    \/ ApplyHistorical(w) \/ ApplyStale(w) \/ ApplyObservation(w)

Next ==
    \/ \E e \in Event, s \in Stage \cup {Gone} : CrmEvent(e, s)
    \/ LinkDistributionConnection \/ ActivateDistributionBinding \/ RevokeDistributionConnection
    \/ \E m \in Message : ReceiveDelivery(m) \/ LeaseExpires(m)
    \/ \E w \in Worker, m \in Message : ClaimDistributionDelivery(w, m)
    \/ \E w \in Worker : PassNext(w) \/ Crash(w) \/ PassFails(w)

Spec == Init /\ [][Next]_vars

\* The loop of RunDistributionDelivery keeps running, leases run out, and only
\* MaxAttempts attempts of a row are disturbed.
Fairness ==
    /\ \A w \in Worker : WF_vars(PassNext(w))
    /\ \A m \in Message :
        /\ WF_vars(\E w \in Worker : ClaimDistributionDelivery(w, m))
        /\ WF_vars(LeaseExpires(m))

LiveSpec == Spec /\ Fairness

--------------------------------------------------------------------------------
(***************************************************************************)
(* Properties.                                                             *)
(***************************************************************************)

\* An event counts as done once it changed the head or was found overtaken.
Done(m) == inbox[m] = "applied" \/ why[m] = "stale_observation"

\* No move of the lead is missed: when an event is done, the head reflects the
\* CRM as it was when the event was emitted, or later, although the read that was
\* applied may have been made for another event (generations and revisions in
\* processDistributionEvent).
NoMissedMove == \A m \in Message : Done(m) => born[EventOf[m]] <= headVersion

\* The head never goes back to an older read of the CRM, whichever replica is late.
HeadMonotone ==
    [][headVersion <= headVersion' /\ appliedGen <= appliedGen' /\ headRev <= headRev'
       /\ sequence <= sequence']_vars

\* The entries that are not cancelled are the current one alone, and the lead is
\* where the current entry says, as far as the head knows.
OneCurrentEntry ==
    /\ \A i \in EntryId : entry[i] \notin {"unseen", "cancelled"} <=> i = current
    /\ current # 0 => entryStage[current] = headStage

\* An event that Core delivers several times, under one message id or several,
\* is processed for one of them only.
ProcessedOnce ==
    \A m, n \in Message :
        (EventOf[m] = EventOf[n] /\ Done(m) /\ Done(n)) => m = n

\* An applied row stays applied: no late worker processes it a second time.
FinalOnce == [][\A m \in Message : Done(m) => Done(m)' /\ token'[m] = NoWorker]_vars

\* Every accepted delivery is finished, whatever was lost or interrupted before.
DeliveriesFinish ==
    \A m \in Message : inbox[m] # "absent" ~> [](inbox[m] \in {"applied", "ignored"})

--------------------------------------------------------------------------------
(***************************************************************************)
(* The inductive invariant.                                                *)
(***************************************************************************)

\* Leases, receipts and reasons fit the state of the rows.
InboxConsistent ==
    /\ \A m \in Message : inbox[m] # "absent" => born[EventOf[m]] # -1
    /\ \A m \in Message : token[m] # NoWorker <=> inbox[m] = "processing"
    /\ \A m \in Message : why[m] # "" => inbox[m] = "ignored"
    /\ \A m \in Message :
        inbox[m] # "absent" /\ why[m] # "duplicate_business_event" => receipt[EventOf[m]] = m
    /\ \A w \in Worker : pc[w] # "idle" => inbox[row[w]] # "absent"

\* Nobody is ahead of the counters.
CountersLead ==
    /\ appliedGen <= nextGen /\ headRev <= reads /\ headVersion <= version
    /\ \A e \in Event : born[e] <= version
    /\ \A w \in Worker : pc[w] \in {"read", "apply"} => gen[w] <= nextGen
    /\ \A w \in Worker : pc[w] = "apply" => rev[w] <= reads /\ ver[w] <= version

\* A read is at least as new as the event it was made for and as every event
\* whose generation is older, and revisions order the reads.
ObservationsOrdered ==
    /\ \A x \in Worker : pc[x] = "apply" =>
        \A w \in Worker :
            /\ (pc[w] \in {"read", "apply"} /\ gen[w] <= gen[x]) =>
                    born[EventOf[row[w]]] <= ver[x]
            /\ (pc[w] = "apply" /\ rev[w] <= rev[x]) => ver[w] <= ver[x]
    /\ \A w \in Worker : pc[w] = "apply" =>
        /\ rev[w] <= headRev => ver[w] <= headVersion
        /\ headRev <= rev[w] => headVersion <= ver[w]
    /\ \A w \in Worker :
        (pc[w] \in {"read", "apply"} /\ gen[w] <= appliedGen) =>
            born[EventOf[row[w]]] <= headVersion

\* Entries are numbered without gaps, up to the sequence of the head.
EntriesNumbered ==
    /\ current <= sequence
    /\ \A i \in EntryId : entry[i] = "unseen" <=> i > sequence

\* The inductive invariant behind the properties above: what receipts, leases,
\* generations and revisions of processDistributionEvent maintain together.
DeliveryInv ==
    /\ DeliveryTypeOK /\ InboxConsistent /\ CountersLead /\ ObservationsOrdered
    /\ NoMissedMove /\ EntriesNumbered /\ OneCurrentEntry

Entries == INSTANCE ObservedEntries WITH Entry <- EntryId

\* The entries change only as the assignment queue expects.
ImplementsEntries == Entries!Spec
================================================================================
