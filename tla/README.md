# TLA+ models of the Team OS backend

The repository is a set of Go services behind one gateway. This directory holds
TLA+ modules that model the parts with the hardest protocols: the distribution of
CRM leads to employees, the event bus with the replication of articles into
lessons, the enrollments of the academy, and the copies of course files. With them
come TLC configurations, theorems that TLAPS checks, and the plan for the other
parts. `PROJECT.json` lists components, runs,
mutants, hazards, theorems and the source lines of every definition.

## 1. The system

Every service owns a Postgres database. Services exchange domain events through a
transactional outbox and NATS JetStream; the company service also talks over HTTP
to *Core*, an external service that owns the connection to the CRM (amoCRM).

| Component | State | Operations | Hard behaviours |
|---|---|---|---|
| company: assignment queue (`distribution_queue_worker.go`, `distribution_controls.go`, `distribution_decision_validation.go`, `distribution_queue.sql`) | queue rows, leases, frozen commands, lead and group claims, round-robin cursor, operation mirrors | admit, claim, plan, decide, call Core, validate, cancel, settle, recalculate, retry | several replicas, lost and late requests, crash after any commit, deadlines, mode switches |
| company: event inbox and lead heads (`distribution_delivery*.go`) | inbox rows with leases, event receipts, lead heads with generations and revisions, observed entries | receive, claim, read the lead, apply, ignore, retry | messages at least once and in any order, a read between two transactions, bindings that are revoked meanwhile |
| company: result inbox, mirrors | mirrors and their versions | apply a result, reconcile | the same result through two ways, races with the worker |
| company: rules, groups, observations, source chain | rules, groups, members, observation jobs | configure, pause, plan turns, prove a re-entry | settings that change under an unfinished decision, a changing member list |
| company: bindings, mappings, widget | bindings with revisions, mappings, nonces | link, activate, revoke, map | local and remote state change in two steps |
| company: auth, sessions, users, organisation, schedules, task control, activity control | users, refresh tokens, widget sessions, departments, rules | mostly single transactions | refresh rotation, publication fences of task control |
| transactional outbox, event bus (`outbox/relay.go`, `pkg/eventbus`) | outbox rows, stream, processed events | publish, retry, deduplicate, dead-letter | crash between publish and commit, redelivery, poison messages |
| tasks | boards, tasks, recurrences | CRUD, recurrence worker | a recurrence that fires twice or never |
| academy: enrollments (`domain/enrollment`, `enrollments.go`, `external_access.go`, `courses.go`, `partner_courses.go`) | runs with access, progress, quiz attempts; personal accesses; lifecycle and restrictions of a course | assign, activate, complete, submit, review, extend, revoke, expire, archive, block, delete | reads without locks, commands on run and course in any order, deadlines that a block moves |
| academy: lessons made from articles (`lessons.go`, `consumers.go`) | lessons, versions of a course | create, update, publish, replicate | a fetch from another service before the transaction, events in any order |
| academy: file clone jobs (`file_clone_jobs.go`) | jobs, references of a draft | claim, requeue, call files, apply, retry | jobs without a lease token, slow replicas, a call that outlives its caller |
| academy: verification, campaigns, templates, reports | challenges, sessions, campaigns | verify, publish, copy | attempts and rates of codes |
| notifications | notifications, email deliveries | consume, stream, send | leases and retries of emails |
| files (`files/internal/application/service.go`) | files, clone operations, objects | upload, clone, delete | two stores that change in two steps, a handler that is lost |
| kb | sections, articles with versions | CRUD, events about articles | the order of the events |
| gateway | rate limits | proxy, SSE | none that is stateful |

How the modelled parts interact: Core delivers an event about a lead; the inbox
stores it, a worker reads the lead through Core and updates the head, opening or
cancelling an *observed entry* (one stay of a lead in a stage). The queue admits a
row for an entry, freezes a decision, claims lead and group, sends a command to
Core, and settles the row when Core reports the end of the operation, which it
does through the answer, the result inbox or the reconciler. kb writes the events
about an article to its outbox, a relay publishes them, and the academy's consumer
changes the lessons made from the article. A course version copied from another one
waits for a job that asks the files service for copies; it can be published when
the job is completed, and learners run through published versions.

What makes each part correct:

* queue: at most one command can act on a lead or a group at a time; one row
  changes the CRM once; a settled row says what happened; claims are released
  exactly when the operation is finished; a mode switch cannot overtake a command;
  every row is settled in the end;
* inbox: an event is processed once; the head never goes back; no move is lost
  because a read was dropped as overtaken; one entry is open; every delivery ends;
* event bus: no committed event is forgotten, a duplicate has no second effect, the
  events of an aggregate keep their order;
* lessons: a published version never changes; a linked lesson follows its article
  (it does not always: see the findings);
* enrollments: a run can always be loaded and continued, it is completed once,
  progress never goes back, a block costs no access time, a revoked access stays
  revoked, nothing is learned while the course is not offered;
* file copies: one handler at a time works on the objects of an operation, a
  published version has its copies, every job completes;
* sessions: a refresh token is used once; emails: one result per delivery.

## 2. Modules

| Module | Role |
|---|---|
| `DistributionQueue` | the assignment queue, its workers, the reconciler, Core as the queue sees it |
| `AssignmentSlots` | abstract: exclusive slots for leads and groups, one change per row |
| `DistributionQueueLive` | fairness and progress of the queue |
| `MCQueue`, `MCQueue*.cfg` | instances for TLC |
| `DistributionQueue_proofs` | type correctness of the queue |
| `DistributionQueueSafety_proofs` | inductive invariant and safety theorems of the queue |
| `DistributionQueueRefinement_proofs` | the queue implements `AssignmentSlots` |
| `DistributionDelivery` | the event inbox, the lead head and the observed entries of one lead |
| `ObservedEntries` | abstract: what the queue relies on when it reads the entries of a lead |
| `MCDelivery`, `MCDelivery*.cfg` | instances for TLC |
| `DistributionDelivery_proofs`, `DistributionDeliverySafety_proofs` | types; inductive invariant, safety theorems and refinement of the inbox |
| `EventBus` | outbox, relay, stream, consumer with `processed_events`, dead letters |
| `ArticleReplication` | extends `EventBus`: kb writes events about articles, the academy applies them to a lesson |
| `EventLog` | abstract: a log of events that keeps the order of an aggregate and applies an event once |
| `EventBus_proofs` | inductive invariant, types and safety theorems of bus and replication; the bus implements `EventLog` |
| `MCReplication`, `MCReplication*.cfg` | instances for TLC |
| `CourseEnrollment` | one run of a learner, its personal access and its course |
| `CourseEnrollment_proofs` | inductive invariants, types and safety theorems of the run |
| `MCEnrollment`, `MCEnrollment*.cfg` | instances for TLC |
| `FileClone` | one clone job of the academy and its operation in the files service |
| `FileClone_proofs` | inductive invariant and safety theorems of the copies |
| `MCFileClone` | an instance for TLC |

`DistributionQueue` and `DistributionDelivery` meet in the observed entries: the actions `EntryObserved`,
`CancelDistributionObservedEntry` and `PauseDistributionObservedEntry` of
`DistributionQueue` are the environment of the queue. `ObservedEntries` states the
same steps for one lead, and `DistributionDelivery` is shown to implement them, so
that environment is what the inbox really produces.

### DistributionQueue

An action is one database transaction, one network call or one step of Core.
A worker pass follows `ProcessDistributionQueue`: `ClaimDistributionQueue` (or
`ClaimDistributionManualAssignment`), then `Plan*` for a row without an operation,
or `RelockLease`, `Query*`, `Gate*`, `SendAssign`, `Assign*`, `Validate*`,
`Control*` and `Apply*` of `resumeDistributionAssignment` for a row with one.
Between two actions of a pass its lease may run out, another replica may take the
row, `ApplyOperationResult` may settle it, a user may cancel or retry it, and the
rule may change.

Abstractions:

* a point in time (`next_attempt_at`, `waiting_deadline_at`, `validUntil`) is a set
  of rows for which it has passed, and the clock may pass it at any moment;
* the row states waiting, requires_configuration, dispatching and uncertain are one
  state `open`, since no guard tells them apart;
* the operation id of the n-th decision of a row is n; the command carries what the
  guards compare (kind, epoch, planned member);
* availability, schedules, mappings and revisions are a nondeterministic choice:
  planning may find any set of available members, validation may fail at any time;
* Core is external: it creates an operation once per id, validates it with the
  company service before it acts, and its terminal states are final. Requests may
  be lost or arrive late, answers may be lost.

### DistributionDelivery

The heads of different leads share nothing, so there is one lead. The history
variable `version` counts the moves of the lead in the CRM, `born` is the version
that an event announces, and `headVersion` the version that the head reflects.
`ClaimDistributionDelivery`, `BeginObservation` or `BeginHistorical`, `ReadLead` and
`Apply*` are the transactions of `processDistributionEvent`; `LeaseExpires`,
`Crash`, `PassFails` and `LeaseLost` disturb them. `LinkDistributionConnection`,
`ActivateDistributionBinding` and `RevokeDistributionConnection` change the binding.

Abstractions:

* source times and source evidence decide between a pause, a proven re-entry, an
  unproven entry and nothing; the model allows each where the code can reach that
  branch (`ReentryPossible`, `AmbiguityPossible`, `NewStates`);
* a deleted and an absent lead are both `Gone`: they differ in a recorded reason;
* Core numbers its observations in the order of its reads, which is what the
  comparison of `ObservationRevision` presumes; this is an assumption about Core;
* `next_attempt_at` only delays a claim; a head of another company, whose events
  fail forever, and payload conflicts, which change nothing, are left out;
* a pass whose 20 s run out cannot write its retry either and ends like a crash.

### EventBus and ArticleReplication

A relay holds the rows of its batch locked from `SelectBatch` to `CommitBatch` or
`RollbackBatch`; what it publishes in between is visible at once, what it writes to
the rows only after the commit. A publication that is reported as failed may have
been stored. The stream drops a second copy within its deduplication window and
stores it after that (`Stored`). A delivery of a message is `running`, then
`handled` or `dead`, and is acknowledged in a step of its own; it may end without an
acknowledgement at any point, and a further delivery may start while it runs.
`Emit` and `HandleOnce` are conjuncts of the transactions of the services: in
`ArticleReplication`, `UpdateArticle` and `DeleteArticle` emit, and
`HandleKbArticleUpdated` and `HandleKbArticleDeleted` handle. `GetArticle` and
`CreateLesson` or `UpdateLesson` are two steps, since the first is a call to another
service.

Abstractions: an event is its `event_order`; content is the version of the article
it belongs to; one lesson; titles are left out. `next_attempt_at` only delays a row,
and a batch is any set of candidates. The relay of company takes rows without regard
to their aggregate; it is the mutant `CandidateUnordered`. Messages that cannot be
decoded are left out, since `emit` encodes them all.

`EventLog` says what the services build on, without relays, copies and deliveries. The
log is the stream with its events counted once; the relay is done with an event when
its row is `published` or `dead`, the consumer when a message of it is acknowledged.
The history variable `applied` counts the committed effects.

### CourseEnrollment

One run, from the assignment or the issued access to its end. The functions of
`domain/enrollment` are operators (`Rehydrates`, `CanView`, `Unlockable`,
`AfterLesson` ...); a command is the transaction that loads the run, applies them and
stores it. Four commands are two steps because they act on an unlocked read, or
write rows one after the other: `AssignRead` and `AssignInsert`, `ActivateRead` and
`ActivateInsert`, `ResumeRead` and `ResumeActivate`, `DeleteRuns` and `DeleteCommit`.
`CourseFree` and `RunFree` are the row locks that a deletion holds in between.
`AssignCourse` reads the course without a lock and asks company for the members before
it inserts the run. A new assignment waits for a lock on the course (its foreign key),
a repeated one does not; the model has the second. `SelfEnrollCourse` holds the course
locked from the check to the insert and is one step. `ExtendAccess` is the SQL
statement, not the method of the aggregate, which only tests call (findings).

Abstractions: time is a number of days; scores and answers are the decision they
lead to; a repeated idempotency key is a stuttering step; every lesson is required,
since `loadEnrollmentAggregate` makes none optional; audit and history rows are left
out. History variables: `left` counts the days of access the learner still has,
`completions` the announcements, `issuedLate` whether the run was issued when the
course was no longer active.

### FileClone

One job and one version. A replica claims the job, calls the files service, applies
the result and completes the job, or gives it back; `Requeue` takes a job from a
replica that is gone or slow (`MinutesPass` counts the slow case as a fault). A
handler copies the objects one by one, commits the rows and the state, and on an
error removes the objects and marks the operation as failed. It goes on when its
caller is gone. A commit may succeed and be reported as an error (`CompleteLost`).

Abstractions: the keys of the copies are a function of operation and source, so
objects are numbered by source; the limit of 100 files per call is left out (a
version with more can be neither cloned nor published).

## 3. Runs

All runs switch deadlock checking off: a system in which every row is settled and
every event is handled may stop.

| Run | Instance | Shows |
|---|---|---|
| `queue_row` | one row, two replicas, two decisions, two epochs | one PATCH per row, faithful outcomes, no stranded operation, flags agree, a cancellation sticks |
| `queue_lead` | two rows of one lead in two groups | exclusive commands, claims match, `AssignmentSlots` |
| `queue_group` | two leads in one group with three members | the cursor is frozen under a decision, turns are fair |
| `queue_mode` | an automatic and a manual row of one entry, two epochs | mode switches cannot overtake commands; one success per stay |
| `queue_live` | one row, two decisions | every row is settled for good |
| `delivery_duplicates` | two events, three messages, two replicas, two bindings, two attempts | an event is processed once, done stays done, no move is missed, the head is monotone, one open entry, `ObservedEntries` |
| `delivery_live` | two events, three messages, two attempts | every accepted delivery ends |
| `replication` | two events of one article, two relays, two deliveries, one event stored twice | one effect per event, order, nothing forgotten, published versions frozen, `EventLog` |
| `replication_stale` | the same with one relay | violated: a linked lesson stays behind its article (findings) |
| `enrollment` | four lessons, two with quizzes of two attempts, two requests to resume, five days | the properties of the run |
| `enrollment_archive` | two lessons | violated: an archived course issues a run (findings) |
| `file_clone` | two replicas, two handlers, three files, five faults | exclusive handlers, intact publications, jobs complete |

Bounds. `MaxDecisions` limits the decisions of a row: two let a recalculation or a
retry follow a first decision, which is where a second effect would come from.
`MaxEpoch` limits mode switches: with two, a row of an old epoch meets a rule of a
new one. `MaxDisturbances` (a state constraint of `MCQueue`) limits how many
deadlines, cancellations, lapsed commands, pauses and lost entries are in force at
once; they may come and go in any number. `MaxAttempts` limits the attempts of an
inbox row that may be disturbed; the last attempt runs through. `MaxEntries` is the
number of events, so no observation is ever held back by it. `MaxBindings` is two:
a revocation and a successor. In `MCReplication`, `MaxExtraCopies` and
`MaxDeliveries` limit how many events are stored twice and how many deliveries there
are: two deliveries may be of one message, of two copies of one event or of two
events. `replication` also lets the editor finish the lesson, but for publishing it,
before the first event reaches the stream (`EditorFirst`): a request that is
overtaken by an event is the subject of `replication_stale`, which has no such
constraint. Two events of one article are the least for an order. Three members are the
least for a turn past an unavailable member that leaves another one behind it. Four lessons let a
completion out of order leave a gap before and after the current lesson, five days
let a block, an extension and an expiry follow each other. Five faults let a slow
replica, a lost caller, a failed copy, a failed removal and an unreported commit meet
in one behaviour. Replicas, stages and the two messages of one event are
interchangeable, hence the symmetry in safety runs; the liveness runs use none.

Fairness. The loop of `RunDistributionDelivery` ticks every 5 s as long as the
process lives, so passes and claims are weakly fair; time passes, so leases,
deadlines and due times are; Core finishes what it has admitted and the reconciler
asks again, so its steps and `ApplyOperationResult` are. `ExpireUndispatched` is
strongly fair because it runs before every claim. No request is assumed to arrive.
Faults (crashes, unanswered queries, passes that outlive a lease) may happen any
number of times but not forever (`FaultsStop`); in the inbox `MaxAttempts` says the
same. In `FileClone` the worker of every replica runs periodically, time passes, and a
handler runs to its end; these are weakly fair, and `MaxFaults` bounds the faults.
`CloneFinishes` names the two states that no retry leaves: an operation in progress
whose handler was lost (`Abandoned`), and rows of an unreported commit (`Orphaned`).

Findings. Two runs are violated, where the code departs from the documents; a third
finding is about a property that holds, where a comment says otherwise.

* `replication_stale`: the architecture plan (§10.2) says that a linked lesson is
  behind its article for seconds. `CreateLesson` and `UpdateLesson` store content
  they fetched before, and `ReplicateLinkedArticle` compares no version, so a lesson
  can keep older content after every event was handled.
* `enrollment_archive`: ADR-009 says that an archived course issues nothing.
  `ensureUserAssignmentEnrollments`, which runs when a user joins a department or
  position, does not read the course. `AssignCourse` does the same by a race: an
  archive that commits between its unlocked read of the course and its insert does
  not freeze the run it issues. `LearnsWhileOffered` therefore excepts runs issued
  late.
* `enrollment`, `BlockCostsNothing`: the comment on `ExtendExternalAccess`
  (`domain/enrollment/enrollment.go:335`) and its test say that an expired access
  receives a fresh period from server time. The statement that the service runs adds
  the days to the old deadline, also when it has passed: an access that expired a day
  ago and is extended by a day has no day left. `BlockCostsNothing` counts days as
  the statement does, and would fail if an extension began at the present.

Every property is accompanied by a mutant: a plausible bug in a mapped definition
(a dropped guard, a missing release, an unconditional retry, a generation that is
not counted ...) under which TLC finds the property violated.

## 4. Proofs

The theorems hold for any sets of rows, replicas, leads, groups, entries, messages,
events, stages, relays, aggregates, lessons, days, handlers and files, and any bounds. They assume only
`ConstantsAssumption` (maps are functions, rows of one entry are rows of one lead,
there is at least one member), `DeliveryAssumption` (an event per message, a kind per
event, markers are not members of the sets), `BusAssumption`
and `ArticleAssumption` (bounds are positive, the article is an aggregate),
`EnrollmentAssumption` and `CloneAssumption` (at least one lesson and file, quiz
lessons are lessons, days and bounds are numbers, and the bound on deadlines is not
below the first one).

**Queue.** None of the safety properties is inductive alone: that two commands
exclude each other needs the claims to match the unfinished operations, which needs
that an operation Core has not closed is the one in `operation_id`, which needs that
a worker that settles a row has read a state of Core that is final. `IndInv` is the
conjunction of these facts. The proof has one lemma per kind of change (a row is
postponed, leased, decided, settled, retried; claims are released; Core advances;
a worker moves or ends its pass), and frame lemmas for what the other actions leave
alone. Two monotonicity facts carry the argument about late workers: Core's terminal
states never change, and a step never gives a worker a lease that another one holds.
Theorems: `TypeCorrect`, `Consistent`, `ExclusiveEffectHolds`,
`OneEffectPerRowHolds`, `EpochFenceHolds`, `ClaimsMatchHolds`, `CursorFrozenHolds`,
`NoStrandedOperationHolds`, `SettledMatchesStateHolds`, `OutcomeFaithfulHolds`,
`CancelStickyHolds`, and `Refinement` (the queue implements `AssignmentSlots`).

Two more rest on `IndInv`. `SingleSuccessPerEntryHolds`: two rows never occupy one
entry in the partial unique index (`EntriesExclusive`), because a row enters the index
only through an admission, an operator's assignment or a retry, which find the entry
free, and every other step keeps or leaves it (`RowsKeptNext`); a row whose operation
succeeded is open, confirmed or kept, and so never leaves it. `TurnsFairHolds`: only a
settlement moves a cursor (`CursorMoves`), and only past the member of its own
decision (`TurnTaken`); `CursorFrozen` makes the order of the plan the order of the
settlement, and arithmetic on `Place` does the rest (`TurnMoves`). It follows that a
member who stays available waits for fewer turns than the group has members.

**Inbox.** `DeliveryInv` relates the counters. A generation is taken before the
lead is read, so every read of a pass with a later generation covers the event of an
earlier one; revisions order the reads (`ObservationsOrdered`). Hence what an
observation overtakes is covered by the version the head then reflects, which is
`NoMissedMove`. `InboxConsistent` ties receipts, leases and reasons to the row
states and gives `ProcessedOnce` and `FinalOnce`; `EntriesNumbered` and
`OneCurrentEntry` give the refinement of `ObservedEntries`. Theorems:
`DeliveryTypeCorrect`, `DeliveryConsistent`, `NoMissedMoveHolds`,
`OneCurrentEntryHolds`, `ProcessedOnceHolds`, `HeadMonotoneHolds`, `FinalOnceHolds`,
`EntriesImplemented`.

**Event bus.** A relay acts on rows that it selected earlier, and a consumer
acknowledges what it handled earlier, so none of the properties is inductive.
`BusInv` adds what the locks preserve: the rows of a batch are pending, in no other
batch, and the earlier rows of their aggregates are settled and stay so
(`BatchesLocked`); events are written in order (`Written`). What a relay has marked
and not committed is in the stream or a dead letter already (`MarksKept`), what a
delivery has reached and not acknowledged is recorded (`DeliveriesKept`), and an
effect is committed together with its entry in `processed_events`
(`EffectsRecorded`). Theorems: `BusInvariance`, `EffectOnceHolds`,
`PublishedInOrderHolds`, `NothingForgottenHolds`, `PublishedFrozenHolds`.
`ReplicationTypeOK` needs that no version runs ahead of the events: the number of the
next event bounds every version (`VersionsBehind`). `LogImplemented` shows that the bus
implements `EventLog`, with three more facts (`LogInv`): rows and aggregates are written
together, only stored events are delivered, and no entry in `processed_events` exists
without its effect. A selection, a rollback, a second copy, a further delivery and a
lost acknowledgement are stuttering steps of the log, a commit is one `Relayed` step for
the rows of the batch, and the publication of a row is in its turn because `BatchesLocked`
keeps the earlier rows of its aggregate settled.

**Enrollment.** The argument has layers. `AccessInv`
relates access, previous access, time of suspension, personal access and activation
in flight: a revoked access has no activation, and a suspended run of a revoked
access remembers nothing that leads to an active one. It gives `SuspensionShapeHolds`
and `RevokedStaysOutHolds`. On top of it, `ProgressInv` relates lessons, progress and
completions: a run that was not activated has no lessons; one in progress has exactly
one current lesson; one that is completed has completed every lesson and was announced
once. It needs `AccessInv` where an activation must find a run that has not begun. The
step that needs an argument is `AfterLesson`: the first unlockable lesson exists because
the natural numbers are well-founded (lemma `Least`), and if there is none, every
lesson is completed. It gives `EnrollmentInvariance`, `CompletedOnceHolds`,
`NeverStrandedHolds` and `NeverBackwardsHolds`.
`DeadlineInv` says from when the days of a run are counted (the suspension of a run
that was active, or now) and that a closed run has a closed access, so that nothing
revives it; `OrderInv` that lessons open in order, because the lesson that opens is
the first one that is not completed. They give `BlockCostsNothingHolds` and
`LoadableHolds`. `OfferedInv` says that an activation which escapes an archive or a
block leaves a run without attempts as long as that lasts, so that no late review can
complete a lesson of it: `LearnsWhileOfferedHolds`. `EnrollmentTypeOK` closes the types:
times never lie ahead of the clock, and a deadline is ahead of the moment from which
days are counted by at most `MaxUntil` (`DaysBounded`), which a suspension, that keeps
the deadline, and a resumption, that moves it, both preserve.

**File copies.** `CloneInv` says that a handler that is not idle is the only one and
that its operation is in progress, or succeeded after an unreported commit; that the
copies of a succeeded operation are recorded and, unless a commit went unreported,
stored (`Kept`); that this also holds for a replica that applies its result and for a
completed job; and that a published version has a completed job. `OneCopierHolds` and
`PublishedIntactHolds` follow.

**Model-checked only.** Liveness (`RowsSettle`, `DeliveriesFinish`, `CloneFinishes`)
is out of the prover's reach. Every invariant and every action property of the passing
runs has a theorem.

## 5. Not modelled

* member lists that change between turns, the availability calculation and the
  observation jobs of `ProcessDistributionObservation`;
* `RegisterDistributionOperationMirror`: no caller outside the tests;
* academy: verification codes and sessions of external learners, campaigns,
  templates, repeated accesses, the editing of outlines, reports; a lesson edited
  while `applyClonedFiles` rewrites its file references; the order of events about
  users (`RecomputeUserAssignmentMembership` compares none);
* files: upload, download and deletion, one call each to the object store;
* company: authentication, refresh tokens, widget sessions, organisation, schedules,
  task control, activity control; notifications; tasks; gateway;
* generated code (protobuf, OpenAPI, sqlc), which is most of the repository's lines;
* DTOs, permission checks, history tables, logging and diagnostics.

`PROJECT.json` gives a reason for each component.

## 6. Plan

1. An abstract specification of the file copies, and the safety facts behind the
   liveness properties: in which states a row, a delivery or a job has a next step.
2. Planning of turns: `nextMemberOrder` and `chooseDistributionPlan` as operators,
   checked against a reference definition, with a member list that changes.
3. `provenDistributionSourceChain` as an operator, checked against the moves of the
   lead in the CRM: a proven re-entry did happen.
4. Observation jobs, and a module that composes inbox and queue for one lead.
5. Refresh tokens and widget sessions of the company service; email deliveries;
   recurrences of tasks; publication and runtime fences of task control.
