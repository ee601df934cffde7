--------------------------- MODULE DistributionQueue ---------------------------
(***************************************************************************)
(* The queue of the company service that assigns CRM leads to employees.   *)
(* Several replicas run the same worker loop over one Postgres database    *)
(* and talk to Core, an external service that owns the CRM connection.     *)
(* A queue row is decided (an operation with a frozen command is saved     *)
(* together with an exclusive claim on the lead and on the group), sent to *)
(* Core, and settled only on Core's terminal evidence.                     *)
(*                                                                         *)
(* One action is one database transaction, one network call or one step of *)
(* Core.  Points in time (next_attempt_at, waiting_deadline_at,            *)
(* validUntil) are sets of the rows for which the moment has come, and a   *)
(* lease ends when lease_until passes: no guard tells an expired lease     *)
(* from none.  The clock may pass each of these points at any time.        *)
(* The four unsettled row states (waiting, requires_configuration,         *)
(* dispatching, uncertain) are one state "open": no guard of the code      *)
(* tells them apart.                                                       *)
(***************************************************************************)
EXTENDS Integers, Sequences

CONSTANTS
    Row,           \* queue rows that may come to exist
    Manual,        \* the rows created by an operator (manual_observation_id)
    Worker,        \* replicas running RunDistributionDelivery
    Lead, Group, Entry,
    LeadOf,        \* row -> lead_id
    GroupOf,       \* row -> group_id; a group has exactly one rule
    EntryOf,       \* row -> entry_id (the observed stay of a lead in a stage)
    Members,       \* number of members of a group; member_ids is 0 .. Members-1
    MaxDecisions,  \* bound: decisions taken for one row
    MaxEpoch,      \* bound: execution mode changes of one rule
    NoRow, NoWorker

ASSUME ConstantsAssumption ==
    /\ Manual \subseteq Row
    /\ LeadOf \in [Row -> Lead]
    /\ GroupOf \in [Row -> Group]
    /\ EntryOf \in [Row -> Entry]
    /\ \A r, s \in Row : EntryOf[r] = EntryOf[s] => LeadOf[r] = LeadOf[s]
    /\ Members \in Nat \ {0}
    /\ MaxDecisions \in Nat \ {0}
    /\ MaxEpoch \in Nat \ {0}
    /\ NoRow \notin Row
    /\ NoWorker \notin Worker

VARIABLES
    state,       \* distribution_queue.state
    settled,     \* rows whose settled flag is set
    op,          \* number of the decision in operation_id/command, 0 for NULL
    decided,     \* number of decisions ever frozen for the row
    kind,        \* decision kind in the frozen command
    planned,     \* planned_employee_id
    epoch,       \* execution_epoch of the row
    cancelReq,   \* rows with cancel_requested
    due,         \* unsettled rows with next_attempt_at <= now
    overdue,     \* rows with waiting_deadline_at <= now
    lapsed,      \* unsettled rows whose command is past its validUntil
    lease,       \* the worker whose token is in an unexpired lease
    admitted,    \* rows in created_at order
    leadClaim,   \* distribution_lead_claims.queue_id
    groupClaim,  \* distribution_group_claims.queue_id
    cursor,      \* distribution_group_claims.cursor_next
    mirror,      \* distribution_operation_mirrors
    mode, ruleEpoch, active,  \* rule of a group; active is rule AND group
    entry,       \* distribution_observed_entries.state
    pc, wrow, wop, seen, seenCancel,  \* a worker's local variables
    core,        \* Core's state of each operation
    coreCancel,  \* unfinished operations with cancelRequestedAt
    basis        \* history: cursor from which the decision was planned

queueVars == <<state, settled, op, cancelReq, due, lapsed, lease>>
planVars == <<decided, kind, planned, basis>>
birthVars == <<epoch, admitted>>
rowVars == <<queueVars, planVars, birthVars, overdue>>
claimVars == <<leadClaim, groupClaim, cursor>>
ruleVars == <<mode, ruleEpoch, active, entry>>
workerVars == <<pc, wrow, wop, seen, seenCancel>>
coreVars == <<core, coreCancel>>
vars == <<rowVars, claimVars, mirror, ruleVars, workerVars, coreVars>>

Decision == 1 .. MaxDecisions
Member == 0 .. Members - 1

RowEnd == {"confirmed", "kept", "cancelled", "failed"}
RowState == {"absent", "open"} \cup RowEnd

(***************************************************************************)
(* Operation states of Core.  Core does not know an operation in state     *)
(* "none" or "transit"; the latter means that an Assign request was        *)
(* transmitted and may arrive at any time.  "queued" includes prechecking, *)
(* and "confirming" includes outcome_unknown.  "declined" is an end        *)
(* without an attempt that invites a new decision: a rejection with one of *)
(* the codes decision_expired, recipient_unavailable, policy_unavailable,  *)
(* or a conflict with the outcome source_changed.  "conflict" is the other *)
(* conflict.  "no_change" has the outcome kept for a decision to keep the  *)
(* owner and already_target for a decision to assign.                      *)
(***************************************************************************)
CoreOpen == {"queued", "applying", "confirming"}
NoAttempt == {"no_change", "declined", "rejected", "cancelled"}
Attempted == {"succeeded", "conflict"}
CoreEnd == NoAttempt \cup Attempted
Unknown == {"none", "transit"}
CoreState == Unknown \cup CoreOpen \cup CoreEnd

(***************************************************************************)
(* Entry states: "ambiguous" is needs_configuration with the evidence      *)
(* ambiguous_reentry, "unproven" is needs_configuration with any other.    *)
(***************************************************************************)
EntryState == {"unseen", "checking", "ambiguous", "unproven", "cancelled"}

PC == {"idle", "plan", "decided", "query", "expire", "gate", "assign", "sent",
       "validate", "apply"}

RowType ==
    /\ state \in [Row -> RowState]
    /\ settled \subseteq Row
    /\ op \in [Row -> 0 .. MaxDecisions]
    /\ cancelReq \subseteq Row
    /\ due \subseteq Row
    /\ lapsed \subseteq Row
    /\ lease \in [Row -> Worker \cup {NoWorker}]
    /\ decided \in [Row -> 0 .. MaxDecisions]
    /\ kind \in [Row -> {"none", "assign", "keep"}]
    /\ planned \in [Row -> Member]
    /\ basis \in [Row -> Member]
    /\ epoch \in [Row -> Nat]
    /\ admitted \in Seq(Row)
    /\ overdue \subseteq Row

ClaimType ==
    /\ leadClaim \in [Lead -> Row \cup {NoRow}]
    /\ groupClaim \in [Group -> Row \cup {NoRow}]
    /\ cursor \in [Group -> Member]

MirrorType ==
    mirror \in [Row -> [Decision -> {"none", "unfinished", "finished"}]]

RuleType ==
    /\ mode \in [Group -> {"live", "observe"}]
    /\ ruleEpoch \in [Group -> Nat]
    /\ active \subseteq Group
    /\ entry \in [Entry -> EntryState]

\* A worker in a pass has a row and, once there is a decision, an operation.
WorkerType ==
    /\ pc \in [Worker -> PC]
    /\ wrow \in [Worker -> Row \cup {NoRow}]
    /\ wop \in [Worker -> 0 .. MaxDecisions]
    /\ seen \in [Worker -> CoreState]
    /\ seenCancel \subseteq Worker
    /\ \A w \in Worker : pc[w] # "idle" => wrow[w] \in Row
    /\ \A w \in Worker : pc[w] \notin {"idle", "plan"} => wop[w] \in Decision

CoreType ==
    /\ core \in [Row -> [Decision -> CoreState]]
    /\ coreCancel \in [Row -> SUBSET Decision]

\* Every variable has its type, and a worker never calls Core without a row and
\* an operation (ProcessDistributionQueue, resumeDistributionAssignment).
TypeOK ==
    RowType /\ ClaimType /\ MirrorType /\ RuleType /\ WorkerType /\ CoreType

Init ==
    /\ state = [r \in Row |-> "absent"]
    /\ settled = {} /\ cancelReq = {} /\ due = {} /\ overdue = {} /\ lapsed = {}
    /\ op = [r \in Row |-> 0]
    /\ decided = [r \in Row |-> 0]
    /\ kind = [r \in Row |-> "none"]
    /\ planned = [r \in Row |-> 0]
    /\ basis = [r \in Row |-> 0]
    /\ epoch = [r \in Row |-> 0]
    /\ lease = [r \in Row |-> NoWorker]
    /\ admitted = << >>
    /\ leadClaim = [l \in Lead |-> NoRow]
    /\ groupClaim = [g \in Group |-> NoRow]
    /\ cursor = [g \in Group |-> 0]
    /\ mirror = [r \in Row |-> [n \in Decision |-> "none"]]
    /\ mode \in [Group -> {"live", "observe"}]
    /\ ruleEpoch = [g \in Group |-> 1]
    /\ active = Group
    /\ entry = [e \in Entry |-> "unseen"]
    /\ pc = [w \in Worker |-> "idle"]
    /\ wrow = [w \in Worker |-> NoRow]
    /\ wop = [w \in Worker |-> 0]
    /\ seen = [w \in Worker |-> "none"]
    /\ seenCancel = {}
    /\ core = [r \in Row |-> [n \in Decision |-> "none"]]
    /\ coreCancel = [r \in Row |-> {}]

--------------------------------------------------------------------------------
(***************************************************************************)
(* Admission, deadlines and the passing of time.                           *)
(***************************************************************************)

ModeOf(r) == IF r \in Manual THEN "observe" ELSE "live"

RuleMatches(r) ==
    /\ mode[GroupOf[r]] = ModeOf(r)
    /\ ruleEpoch[GroupOf[r]] = epoch[r]

\* Mutant: an index over unsettled rows only.
OccupiesEntryUnsettled(r) == state[r] # "absent" /\ r \notin settled

\* The partial unique index distribution_queue_entry_id_key.
OccupiesEntry(r) ==
    /\ state[r] # "absent"
    /\ r \in Manual => (r \notin settled \/ state[r] \notin {"failed", "cancelled"})

EntryFree(r) ==
    \A s \in Row \ {r} : EntryOf[s] = EntryOf[r] => ~OccupiesEntry(s)

InsertRow(r) ==
    /\ state' = [state EXCEPT ![r] = "open"]
    /\ epoch' = [epoch EXCEPT ![r] = ruleEpoch[GroupOf[r]]]
    /\ due' = due \cup {r}
    /\ admitted' = Append(admitted, r)
    /\ UNCHANGED <<settled, op, cancelReq, lapsed, lease, planVars, overdue>>
    /\ UNCHANGED <<claimVars, mirror, ruleVars, workerVars, coreVars>>

AdmitDistributionEntries(r) ==
    /\ r \notin Manual /\ state[r] = "absent"
    /\ entry[EntryOf[r]] = "checking"
    /\ mode[GroupOf[r]] = "live"
    /\ EntryFree(r)
    /\ InsertRow(r)

\* The entry was current when the candidates were read; the insert does not
\* look at it again.
AssignDistributionObservation(r) ==
    /\ r \in Manual /\ state[r] = "absent"
    /\ entry[EntryOf[r]] # "unseen"
    /\ mode[GroupOf[r]] = "observe" /\ GroupOf[r] \in active
    /\ EntryFree(r)
    /\ InsertRow(r)

\* Mutant: the terminal state is written without the settled flag.
SettleRowUnmarked(r, end) ==
    /\ state' = [state EXCEPT ![r] = end]
    /\ lease' = [lease EXCEPT ![r] = NoWorker]
    /\ due' = due \ {r}
    /\ lapsed' = lapsed \ {r}
    /\ UNCHANGED settled

\* SettleDistributionQueue.
SettleRow(r, end) ==
    /\ state' = [state EXCEPT ![r] = end]
    /\ settled' = settled \cup {r}
    /\ lease' = [lease EXCEPT ![r] = NoWorker]
    /\ due' = due \ {r}
    /\ lapsed' = lapsed \ {r}

ExpireUndispatched(r) ==
    /\ state[r] = "open" /\ r \notin settled /\ op[r] = 0
    /\ r \in overdue /\ lease[r] = NoWorker
    /\ SettleRow(r, "cancelled")
    /\ cancelReq' = cancelReq \cup {r}
    /\ UNCHANGED <<op, planVars, birthVars, overdue>>
    /\ UNCHANGED <<claimVars, mirror, ruleVars, workerVars, coreVars>>

RequestExpiredCancellation(r) ==
    /\ state[r] = "open" /\ r \notin settled /\ op[r] # 0
    /\ r \in overdue /\ r \notin cancelReq
    /\ cancelReq' = cancelReq \cup {r}
    /\ due' = due \cup {r}
    /\ UNCHANGED <<state, settled, op, lapsed, lease, planVars, birthVars, overdue>>
    /\ UNCHANGED <<claimVars, mirror, ruleVars, workerVars, coreVars>>

\* next_attempt_at is reached, an availability change wakes the row, or a user
\* asks for a recalculation or a check.
BecomesDue(r) ==
    /\ state[r] = "open" /\ r \notin settled /\ r \notin due
    /\ due' = due \cup {r}
    /\ UNCHANGED <<state, settled, op, cancelReq, lapsed, lease, planVars, birthVars, overdue>>
    /\ UNCHANGED <<claimVars, mirror, ruleVars, workerVars, coreVars>>

LeaseExpires(r) ==
    /\ lease[r] # NoWorker
    /\ lease' = [lease EXCEPT ![r] = NoWorker]
    /\ UNCHANGED <<state, settled, op, cancelReq, due, lapsed, planVars, birthVars, overdue>>
    /\ UNCHANGED <<claimVars, mirror, ruleVars, workerVars, coreVars>>

Holding(r) == op[r] # 0 /\ r \notin settled

\* validUntil never exceeds the waiting deadline, so it has passed as well.
DeadlinePasses(r) ==
    /\ state[r] # "absent" /\ r \notin overdue
    /\ overdue' = overdue \cup {r}
    /\ lapsed' = IF Holding(r) THEN lapsed \cup {r} ELSE lapsed
    /\ UNCHANGED <<state, settled, op, cancelReq, due, lease, planVars, birthVars>>
    /\ UNCHANGED <<claimVars, mirror, ruleVars, workerVars, coreVars>>

ValidityPasses(r) ==
    /\ Holding(r) /\ r \notin lapsed
    /\ lapsed' = lapsed \cup {r}
    /\ UNCHANGED <<state, settled, op, cancelReq, due, lease, planVars, birthVars, overdue>>
    /\ UNCHANGED <<claimVars, mirror, ruleVars, workerVars, coreVars>>

--------------------------------------------------------------------------------
(***************************************************************************)
(* One pass of ProcessDistributionQueue in a worker w.                     *)
(***************************************************************************)

\* LockDistributionQueueLease: the token is still there and has not expired.
Leased(w) == wrow[w] # NoRow /\ lease[wrow[w]] = w

EndPass(w) ==
    /\ pc' = [pc EXCEPT ![w] = "idle"]
    /\ wrow' = [wrow EXCEPT ![w] = NoRow]
    /\ wop' = [wop EXCEPT ![w] = 0]
    /\ seen' = [seen EXCEPT ![w] = "none"]
    /\ seenCancel' = seenCancel \ {w}

Goto(w, label) ==
    /\ pc' = [pc EXCEPT ![w] = label]
    /\ UNCHANGED <<wrow, wop, seen, seenCancel>>

\* Keeps the operation as Core has it after this step.
Observe(w, label) ==
    /\ pc' = [pc EXCEPT ![w] = label]
    /\ seen' = [seen EXCEPT ![w] = core'[wrow[w]][wop[w]]]
    /\ seenCancel' = IF wop[w] \in coreCancel'[wrow[w]]
                     THEN seenCancel \cup {w} ELSE seenCancel \ {w}
    /\ UNCHANGED <<wrow, wop>>

\* queueState with an unsettled target state: ends the lease and postpones the
\* next attempt; writes nothing when the lease was lost.
QueueState(w, cancel) ==
    LET r == wrow[w] IN
    IF Leased(w)
    THEN /\ state' = [state EXCEPT ![r] = "open"]
         /\ due' = due \ {r}
         /\ lease' = [lease EXCEPT ![r] = NoWorker]
         /\ cancelReq' = IF cancel THEN cancelReq \cup {r} ELSE cancelReq
         /\ UNCHANGED <<settled, op, lapsed, planVars, birthVars, overdue>>
    ELSE UNCHANGED rowVars

TakeLease(w, r) ==
    /\ lease' = [lease EXCEPT ![r] = w]
    /\ pc' = [pc EXCEPT ![w] = IF op[r] = 0 THEN "plan" ELSE "query"]
    /\ wrow' = [wrow EXCEPT ![w] = r]
    /\ wop' = [wop EXCEPT ![w] = op[r]]
    /\ UNCHANGED <<seen, seenCancel>>
    /\ UNCHANGED <<state, settled, op, cancelReq, due, lapsed, planVars, birthVars, overdue>>
    /\ UNCHANGED <<claimVars, mirror, ruleVars, coreVars>>

ClaimDistributionManualAssignment(w, r) ==
    /\ pc[w] = "idle"
    /\ r \in Manual /\ state[r] = "open" /\ r \notin settled
    /\ r \in due /\ lease[r] = NoWorker
    /\ TakeLease(w, r)

Older(s, r) ==
    \E i, j \in DOMAIN admitted : i < j /\ admitted[i] = s /\ admitted[j] = r

\* FOR UPDATE SKIP LOCKED may skip the oldest row, so any eligible row is taken.
ClaimDistributionQueue(w, r) ==
    /\ pc[w] = "idle"
    /\ r \notin Manual /\ state[r] = "open"
    /\ r \in due \/ entry[EntryOf[r]] = "cancelled"
    /\ lease[r] = NoWorker
    /\ ~ \E s \in Row \ Manual :
            /\ GroupOf[s] = GroupOf[r] /\ state[s] = "open"
            /\ s \in due \/ lease[s] # NoWorker
            /\ Older(s, r)
    /\ TakeLease(w, r)

\* A crash, a cancelled context or a database error: the pass ends, the lease
\* stays until it expires.
Abandon(w) ==
    /\ pc[w] # "idle"
    /\ EndPass(w)
    /\ UNCHANGED <<rowVars, claimVars, mirror, ruleVars, coreVars>>

\* A transaction that starts with LockDistributionQueueLease finds no row.
LeaseLost(w) ==
    /\ pc[w] \in {"plan", "decided", "gate", "apply"}
    /\ ~Leased(w)
    /\ EndPass(w)
    /\ UNCHANGED <<rowVars, claimVars, mirror, ruleVars, coreVars>>

--------------------------------------------------------------------------------
(***************************************************************************)
(* Planning: the transaction that reads the rule, the group, the entry and *)
(* the lead head under the company lock and freezes one decision.          *)
(***************************************************************************)

PlanExpired(w) ==
    /\ pc[w] = "plan" /\ Leased(w) /\ wrow[w] \in overdue
    /\ SettleRow(wrow[w], "cancelled")
    /\ EndPass(w)
    /\ UNCHANGED <<op, cancelReq, planVars, birthVars, overdue>>
    /\ UNCHANGED <<claimVars, mirror, ruleVars, coreVars>>

\* The lead left the stage as far as the CRM snapshot or the entry tells (the
\* snapshot is arbitrary), or a manual row met any obstacle.  queueState with
\* the target state cancelled settles a row that has no operation.
PlanCancelled(w) ==
    LET r == wrow[w] IN
    /\ pc[w] = "plan" /\ Leased(w) /\ r \notin overdue
    /\ state' = [state EXCEPT ![r] = "cancelled"]
    /\ settled' = IF op[r] = 0 THEN settled \cup {r} ELSE settled
    /\ due' = due \ {r}
    /\ lease' = [lease EXCEPT ![r] = NoWorker]
    /\ UNCHANGED <<op, cancelReq, lapsed, planVars, birthVars, overdue>>
    /\ EndPass(w)
    /\ UNCHANGED <<claimVars, mirror, ruleVars, coreVars>>

\* The CRM is unreachable, the rule or the group blocks, nobody is available,
\* or another row holds a claim.
PlanWait(w) ==
    /\ pc[w] = "plan"
    /\ QueueState(w, FALSE)
    /\ EndPass(w)
    /\ UNCHANGED <<claimVars, mirror, ruleVars, coreVars>>

EntryEligible(r) ==
    entry[EntryOf[r]] \in IF r \in Manual THEN {"checking", "ambiguous"} ELSE {"checking"}

\* nextMemberOrder: the place of member m in the order that begins at c.
Place(c, m) == (m + Members - c) % Members

\* chooseDistributionPlan: m is the first available member in that order.
IsNextAvailable(g, available, m) ==
    /\ m \in available
    /\ \A k \in available : Place(cursor[g], m) <= Place(cursor[g], k)

\* chooseDistributionPlan for an automatic row: keep the owner, or assign the
\* next available member; the operator's choice for a manual one.  Who is
\* available, and who owns the lead, is arbitrary.
Plans(r) ==
    IF r \in Manual
    THEN {"assign"} \X Member
    ELSE ({"keep"} \X Member)
         \cup ({"assign"} \X {m \in Member :
                    \E available \in SUBSET Member : IsNextAvailable(GroupOf[r], available, m)})

\* Mutants: one of the two claims is taken without looking at its holder.
ClaimsAvailableAnyGroup(r) == leadClaim[LeadOf[r]] \in {NoRow, r}
ClaimsAvailableAnyLead(r) == groupClaim[GroupOf[r]] \in {NoRow, r}

\* LockDistributionGroupClaim, ReserveDistributionLeadClaim.
ClaimsAvailable(r) ==
    /\ groupClaim[GroupOf[r]] \in {NoRow, r}
    /\ leadClaim[LeadOf[r]] \in {NoRow, r}

PlanDecide(w) ==
    LET r == wrow[w]
        n == decided[r] + 1
    IN
    /\ pc[w] = "plan" /\ Leased(w) /\ r \notin overdue
    /\ EntryEligible(r) /\ RuleMatches(r) /\ GroupOf[r] \in active
    /\ ClaimsAvailable(r)
    /\ n \in Decision
    /\ \E plan \in Plans(r) :
        /\ kind' = [kind EXCEPT ![r] = plan[1]]
        /\ planned' = [planned EXCEPT ![r] = plan[2]]
    /\ op' = [op EXCEPT ![r] = n]
    /\ decided' = [decided EXCEPT ![r] = n]
    /\ basis' = [basis EXCEPT ![r] = cursor[GroupOf[r]]]
    /\ state' = [state EXCEPT ![r] = "open"]
    /\ groupClaim' = [groupClaim EXCEPT ![GroupOf[r]] = r]
    /\ leadClaim' = [leadClaim EXCEPT ![LeadOf[r]] = r]
    /\ pc' = [pc EXCEPT ![w] = "decided"]
    /\ wop' = [wop EXCEPT ![w] = n]
    /\ UNCHANGED <<settled, cancelReq, due, lapsed, lease, birthVars, overdue,
                   cursor, wrow, seen, seenCancel, mirror, ruleVars, coreVars>>

\* The lease is read once more, outside the transaction, before Core is called.
RelockLease(w) ==
    /\ pc[w] = "decided" /\ Leased(w)
    /\ Goto(w, "query")
    /\ UNCHANGED <<rowVars, claimVars, mirror, ruleVars, coreVars>>

--------------------------------------------------------------------------------
(***************************************************************************)
(* resumeDistributionAssignment: Core is asked about the frozen operation; *)
(* an unknown one is admitted or, after validUntil, expired.               *)
(***************************************************************************)

QueryFound(w) ==
    /\ pc[w] = "query" /\ core[wrow[w]][wop[w]] \notin Unknown
    /\ UNCHANGED <<rowVars, claimVars, mirror, ruleVars, coreVars>>
    /\ Observe(w, "validate")

\* Mutant: an expired command is treated like any other unknown one.
QueryMissingGateOnly(w) ==
    /\ pc[w] = "query" /\ core[wrow[w]][wop[w]] \in Unknown
    /\ Goto(w, "gate")
    /\ UNCHANGED <<rowVars, claimVars, mirror, ruleVars, coreVars>>

QueryMissing(w) ==
    /\ pc[w] = "query" /\ core[wrow[w]][wop[w]] \in Unknown
    /\ Goto(w, IF wrow[w] \in lapsed THEN "expire" ELSE "gate")
    /\ UNCHANGED <<rowVars, claimVars, mirror, ruleVars, coreVars>>

\* Operation returns an error other than 404.
QueryFails(w) ==
    /\ pc[w] = "query"
    /\ QueueState(w, FALSE)
    /\ EndPass(w)
    /\ UNCHANGED <<claimVars, mirror, ruleVars, coreVars>>

\* Core stores a terminal rejection for an operation it has never admitted,
\* and leaves an admitted one alone.
Tombstone(r, n) ==
    [core EXCEPT ![r][n] = IF @ \in Unknown THEN "declined" ELSE @]

\* Mutant: the end is inferred from 404 and expiry, without asking Core.
ExpireAssignmentInferred(w) ==
    /\ pc[w] = "expire"
    /\ pc' = [pc EXCEPT ![w] = "validate"]
    /\ seen' = [seen EXCEPT ![w] = "declined"]
    /\ UNCHANGED <<wrow, wop, seenCancel>>
    /\ UNCHANGED <<rowVars, claimVars, mirror, ruleVars, coreVars>>

ExpireAssignment(w) ==
    /\ pc[w] = "expire"
    /\ core' = Tombstone(wrow[w], wop[w])
    /\ UNCHANGED coreCancel
    /\ Observe(w, "validate")
    /\ UNCHANGED <<rowVars, claimVars, mirror, ruleVars>>

\* The answer is lost; the request may have been executed or not.
ExpireFails(w) ==
    /\ pc[w] = "expire"
    /\ core' \in {core, Tombstone(wrow[w], wop[w])}
    /\ QueueState(w, FALSE)
    /\ EndPass(w)
    /\ UNCHANGED <<claimVars, mirror, ruleVars, coreCancel>>

\* distributionAssignmentAdmissionGate; it does not look at cancel_requested.
GateOpen(r, n) ==
    /\ r \notin overdue
    /\ op[r] = n /\ r \notin settled
    /\ RuleMatches(r)
    /\ GroupOf[r] \in active
    /\ r \notin lapsed

GateAllows(w) ==
    /\ pc[w] = "gate" /\ Leased(w) /\ GateOpen(wrow[w], wop[w])
    /\ Goto(w, "assign")
    /\ UNCHANGED <<rowVars, claimVars, mirror, ruleVars, coreVars>>

GateDenies(w) ==
    /\ pc[w] = "gate" /\ Leased(w) /\ ~GateOpen(wrow[w], wop[w])
    /\ QueueState(w, FALSE)
    /\ EndPass(w)
    /\ UNCHANGED <<claimVars, mirror, ruleVars, coreVars>>

\* The request leaves the worker; Core admits it later, if ever.
SendAssign(w) ==
    /\ pc[w] = "assign"
    /\ core' = [core EXCEPT ![wrow[w]][wop[w]] = IF @ = "none" THEN "transit" ELSE @]
    /\ Goto(w, "sent")
    /\ UNCHANGED <<rowVars, claimVars, mirror, ruleVars, coreCancel>>

\* Assign was acknowledged and the operation is read back.
AssignReply(w) ==
    /\ pc[w] = "sent" /\ core[wrow[w]][wop[w]] \notin Unknown
    /\ UNCHANGED <<rowVars, claimVars, mirror, ruleVars, coreVars>>
    /\ Observe(w, "validate")

\* No acknowledgement: the request is lost, refused or still under way.
AssignFails(w) ==
    /\ pc[w] = "sent"
    /\ QueueState(w, FALSE)
    /\ EndPass(w)
    /\ UNCHANGED <<claimVars, mirror, ruleVars, coreVars>>

\* What must hold for a decision to be validated, here or by Core right before
\* it acts.  Revisions of settings, mappings and schedules are not modelled: a
\* validation may also fail when all of this holds.
ValidateDistributionDecision(r, n) ==
    /\ r \notin lapsed
    /\ op[r] = n /\ r \notin settled /\ r \notin cancelReq
    /\ RuleMatches(r) /\ GroupOf[r] \in active
    /\ groupClaim[GroupOf[r]] = r /\ leadClaim[LeadOf[r]] = r
    /\ EntryEligible(r)
    /\ r \notin overdue

\* Nothing to cancel: allowed, or Core has finished or is already cancelling.
\* A cancellation known when the row was claimed is still there or the
\* operation has been replaced, so the validation covers row.CancelRequested.
ValidatePasses(w) ==
    /\ pc[w] = "validate"
    /\ \/ ValidateDistributionDecision(wrow[w], wop[w])
       \/ seen[w] \in CoreEnd
       \/ w \in seenCancel
    /\ Goto(w, "apply")
    /\ UNCHANGED <<rowVars, claimVars, mirror, ruleVars, coreVars>>

\* Core accepts a control request only for the result version it names, i.e.
\* when the operation has not moved since the worker read it; a queued operation
\* may be cancelled at once.
CancelAccepted(w) ==
    LET r == wrow[w]
        n == wop[w]
    IN
    /\ core[r][n] = seen[w] /\ seen[w] \in CoreOpen
    /\ \/ /\ coreCancel' = [coreCancel EXCEPT ![r] = @ \cup {n}]
          /\ UNCHANGED core
       \/ /\ seen[w] = "queued"
          /\ core' = [core EXCEPT ![r][n] = "cancelled"]
          /\ UNCHANGED coreCancel

\* The decision is denied, for one of the reasons above or for another.
CancelWanted(w) ==
    /\ pc[w] = "validate"
    /\ seen[w] \notin CoreEnd /\ w \notin seenCancel

ControlCancel(w) ==
    /\ CancelWanted(w)
    /\ CancelAccepted(w)
    /\ Observe(w, "apply")
    /\ UNCHANGED <<rowVars, claimVars, mirror, ruleVars>>

\* Core refuses, or the answer is lost.
ControlCancelFails(w) ==
    /\ CancelWanted(w)
    /\ CancelAccepted(w) \/ UNCHANGED coreVars
    /\ QueueState(w, TRUE)
    /\ EndPass(w)
    /\ UNCHANGED <<claimVars, mirror, ruleVars>>

\* The reconcile request returns a newer state; its failure is ignored.
ControlReconcile(w) ==
    /\ pc[w] = "apply" /\ seen[w] = "confirming"
    /\ core[wrow[w]][wop[w]] # "confirming"
    /\ UNCHANGED <<rowVars, claimVars, mirror, ruleVars, coreVars>>
    /\ Observe(w, "apply")

--------------------------------------------------------------------------------
(***************************************************************************)
(* settleRuntimeOperation: the terminal state st of operation n of row r.  *)
(***************************************************************************)

\* Mutant: the deadline is looked at before the outcome.
EndStateDeadlineFirst(r, st) ==
    IF r \in overdue \/ st = "cancelled" THEN "cancelled"
    ELSE IF kind[r] = "assign" /\ st \in {"succeeded", "no_change"} THEN "confirmed"
    ELSE IF kind[r] = "keep" /\ st = "no_change" THEN "kept"
    ELSE "failed"

EndState(r, st) ==
    IF kind[r] = "assign" /\ st \in {"succeeded", "no_change"} THEN "confirmed"
    ELSE IF kind[r] = "keep" /\ st = "no_change" THEN "kept"
    ELSE IF st = "cancelled" \/ r \in overdue THEN "cancelled"
    ELSE "failed"

\* Mutant: a pending cancellation is not looked at.
RecalculatesCancelled(r, st) ==
    /\ st \in {"cancelled", "declined"}
    /\ r \notin Manual /\ r \notin overdue
    /\ entry[EntryOf[r]] = "checking"

Recalculates(r, st) ==
    /\ st \in {"cancelled", "declined"}
    /\ r \notin Manual
    /\ r \notin overdue /\ r \notin cancelReq
    /\ entry[EntryOf[r]] = "checking"

\* The columns that ResetDistributionQueueDecision and RetryDistributionQueueUI
\* both clear.
ClearDecision(r) ==
    /\ op' = [op EXCEPT ![r] = 0]
    /\ kind' = [kind EXCEPT ![r] = "none"]
    /\ planned' = [planned EXCEPT ![r] = 0]
    /\ basis' = [basis EXCEPT ![r] = 0]
    /\ cancelReq' = cancelReq \ {r}
    /\ lapsed' = lapsed \ {r}
    /\ state' = [state EXCEPT ![r] = "open"]
    /\ lease' = [lease EXCEPT ![r] = NoWorker]
    /\ UNCHANGED decided

\* Mutant: the lead stays claimed.
ReleaseDistributionLeadClaimNever(r) == UNCHANGED leadClaim

ReleaseDistributionLeadClaim(r) ==
    leadClaim' = [l \in Lead |-> IF leadClaim[l] = r THEN NoRow ELSE leadClaim[l]]

\* Mutant: the cursor does not wrap around.
ReleaseDistributionGroupClaimNoWrap(r, end) ==
    /\ groupClaim' = [groupClaim EXCEPT ![GroupOf[r]] = NoRow]
    /\ cursor' = IF end = "confirmed" THEN [cursor EXCEPT ![GroupOf[r]] = planned[r] + 1]
                 ELSE cursor

\* Mutant: the cursor makes one step, whoever took the turn.
ReleaseDistributionGroupClaimOneStep(r, end) ==
    LET g == GroupOf[r] IN
    IF groupClaim[g] = r
    THEN /\ groupClaim' = [groupClaim EXCEPT ![g] = NoRow]
         /\ cursor' = IF end = "confirmed" /\ r \notin Manual
                      THEN [cursor EXCEPT ![g] = (cursor[g] + 1) % Members]
                      ELSE cursor
    ELSE UNCHANGED <<groupClaim, cursor>>

\* The cursor moves past the planned member only on a confirmed automatic
\* assignment, and only together with the release of the row's own claim.
ReleaseDistributionGroupClaim(r, end) ==
    LET g == GroupOf[r] IN
    IF groupClaim[g] = r
    THEN /\ groupClaim' = [groupClaim EXCEPT ![g] = NoRow]
         /\ cursor' = IF end = "confirmed" /\ r \notin Manual
                      THEN [cursor EXCEPT ![g] = (planned[r] + 1) % Members]
                      ELSE cursor
    ELSE UNCHANGED <<groupClaim, cursor>>

\* Mutant: a row that a worker is processing is left to that worker.
SettleRuntimeOperationUnleased(r, n, st) ==
    IF op[r] = n /\ r \notin settled /\ lease[r] = NoWorker
    THEN /\ SettleRow(r, EndState(r, st))
         /\ ReleaseDistributionLeadClaim(r)
         /\ ReleaseDistributionGroupClaim(r, EndState(r, st))
         /\ UNCHANGED <<op, cancelReq, planVars, birthVars, overdue>>
    ELSE UNCHANGED <<rowVars, claimVars>>

SettleRuntimeOperation(r, n, st) ==
    IF op[r] = n /\ r \notin settled
    THEN /\ IF Recalculates(r, st)
            THEN ClearDecision(r) /\ due' = due \ {r} /\ UNCHANGED settled
            ELSE SettleRow(r, EndState(r, st)) /\ UNCHANGED <<op, cancelReq, planVars>>
         /\ ReleaseDistributionLeadClaim(r)
         /\ ReleaseDistributionGroupClaim(r, EndState(r, st))
         /\ UNCHANGED <<birthVars, overdue>>
    ELSE UNCHANGED <<rowVars, claimVars>>

\* The operation is registered in the mirror and stays unfinished.
ApplyUnfinished(w) ==
    LET r == wrow[w]
        n == wop[w]
    IN
    /\ pc[w] = "apply" /\ Leased(w) /\ seen[w] \notin CoreEnd
    /\ IF r \in settled
       THEN UNCHANGED <<rowVars, mirror>>
       ELSE /\ mirror' = [mirror EXCEPT ![r][n] = IF @ = "none" THEN "unfinished" ELSE @]
            /\ QueueState(w, w \in seenCancel)
    /\ EndPass(w)
    /\ UNCHANGED <<claimVars, ruleVars, coreVars>>

\* A result version that is already mirrored is not applied a second time.
ApplyTerminal(w) ==
    LET r == wrow[w]
        n == wop[w]
    IN
    /\ pc[w] = "apply" /\ Leased(w) /\ seen[w] \in CoreEnd
    /\ IF r \in settled \/ mirror[r][n] = "finished"
       THEN UNCHANGED <<rowVars, claimVars, mirror>>
       ELSE /\ mirror' = [mirror EXCEPT ![r][n] = "finished"]
            /\ SettleRuntimeOperation(r, n, seen[w])
    /\ EndPass(w)
    /\ UNCHANGED <<ruleVars, coreVars>>

\* A terminal result reaches a registered operation through the result inbox
\* or through ReconcileDistributionOperations; neither holds the row's lease.
ApplyOperationResult(r, n) ==
    /\ mirror[r][n] = "unfinished" /\ core[r][n] \in CoreEnd
    /\ mirror' = [mirror EXCEPT ![r][n] = "finished"]
    /\ SettleRuntimeOperation(r, n, core[r][n])
    /\ UNCHANGED <<ruleVars, workerVars, coreVars>>

--------------------------------------------------------------------------------
(***************************************************************************)
(* Users: DistributionQueueAction and the settings of a rule.              *)
(***************************************************************************)

\* cancel: settles an undecided row, otherwise only asks for cancellation.
UserCancel(r) ==
    /\ state[r] # "absent" /\ lease[r] = NoWorker
    /\ r \notin settled /\ r \notin cancelReq
    /\ cancelReq' = cancelReq \cup {r}
    /\ IF op[r] = 0
       THEN SettleRow(r, "cancelled")
       ELSE due' = due \cup {r} /\ UNCHANGED <<state, settled, lapsed, lease>>
    /\ UNCHANGED <<op, planVars, birthVars, overdue>>
    /\ UNCHANGED <<claimVars, mirror, ruleVars, workerVars, coreVars>>

\* Mutant: any failed row may be retried, also after an attempt.
DistributionRetrySafeAttempted(r) ==
    r \notin overdue /\ r \in settled /\ state[r] = "failed"

DistributionRetrySafe(r) ==
    /\ r \notin overdue /\ r \in settled /\ state[r] = "failed"
    /\ op[r] # 0 => mirror[r][op[r]] = "finished" /\ core[r][op[r]] \in NoAttempt

\* retry: a manual row re-enters the unique index over entries.
UserRetry(r) ==
    /\ lease[r] = NoWorker
    /\ DistributionRetrySafe(r)
    /\ EntryFree(r)
    /\ ClearDecision(r)
    /\ settled' = settled \ {r}
    /\ due' = due \cup {r}
    /\ UNCHANGED <<birthVars, overdue>>
    /\ UNCHANGED <<claimVars, mirror, ruleVars, workerVars, coreVars>>

\* Mutant: only rows in the hands of a worker count.
DistributionRuleLeased(g) ==
    \E r \in Row : GroupOf[r] = g /\ lease[r] # NoWorker

DistributionRuleUnsettled(g) ==
    \E r \in Row : GroupOf[r] = g /\ state[r] # "absent" /\ r \notin settled

\* A rule gets another mode, or another source (UpdateDistributionRulePoint) and
\* keeps its mode: both begin a new epoch.
UpdateDistributionExecutionMode(g) ==
    /\ ruleEpoch[g] < MaxEpoch
    /\ ~DistributionRuleUnsettled(g)
    /\ \E m \in {"live", "observe"} : mode' = [mode EXCEPT ![g] = m]
    /\ ruleEpoch' = [ruleEpoch EXCEPT ![g] = @ + 1]
    /\ UNCHANGED <<active, entry>>
    /\ UNCHANGED <<rowVars, claimVars, mirror, workerVars, coreVars>>

PauseGroup(g) ==
    /\ g \in active
    /\ active' = active \ {g}
    /\ UNCHANGED <<mode, ruleEpoch, entry>>
    /\ UNCHANGED <<rowVars, claimVars, mirror, workerVars, coreVars>>

\* Re-activating a rule is refused while an operation of its stage is unfinished;
\* re-activating its group is not, so the pair has no guard.
ResumeGroup(g) ==
    /\ g \notin active
    /\ active' = active \cup {g}
    /\ UNCHANGED <<mode, ruleEpoch, entry>>
    /\ UNCHANGED <<rowVars, claimVars, mirror, workerVars, coreVars>>

--------------------------------------------------------------------------------
(***************************************************************************)
(* Observed entries, as processDistributionEvent leaves them: a lead has   *)
(* one current entry, and a new one cancels its predecessor.               *)
(***************************************************************************)

SameLead(e, f) ==
    \E r, s \in Row : EntryOf[r] = e /\ EntryOf[s] = f /\ LeadOf[r] = LeadOf[s]

EntryObserved(e, st) ==
    /\ entry[e] = "unseen"
    /\ entry' = [f \in Entry |->
                    IF f = e THEN st
                    ELSE IF SameLead(e, f) /\ entry[f] # "unseen" THEN "cancelled"
                    ELSE entry[f]]
    /\ UNCHANGED <<mode, ruleEpoch, active>>
    /\ UNCHANGED <<rowVars, claimVars, mirror, workerVars, coreVars>>

CancelDistributionObservedEntry(e) ==
    /\ entry[e] \notin {"unseen", "cancelled"}
    /\ entry' = [entry EXCEPT ![e] = "cancelled"]
    /\ UNCHANGED <<mode, ruleEpoch, active>>
    /\ UNCHANGED <<rowVars, claimVars, mirror, workerVars, coreVars>>

PauseDistributionObservedEntry(e) ==
    /\ entry[e] \in {"checking", "unproven"}
    /\ entry' = [entry EXCEPT ![e] = "ambiguous"]
    /\ UNCHANGED <<mode, ruleEpoch, active>>
    /\ UNCHANGED <<rowVars, claimVars, mirror, workerVars, coreVars>>

--------------------------------------------------------------------------------
(***************************************************************************)
(* Core (external), as the company service relies on it: an operation is   *)
(* created once per operation id, validated by the company service before  *)
(* it acts, and its terminal states are final.                             *)
(***************************************************************************)

CoreStep(r, n, st) ==
    /\ core' = [core EXCEPT ![r][n] = st]
    /\ coreCancel' = IF st \in CoreEnd
                     THEN [coreCancel EXCEPT ![r] = @ \ {n}] ELSE coreCancel
    /\ UNCHANGED <<rowVars, claimVars, mirror, ruleVars, workerVars>>

\* A transmitted request arrives, possibly long after its sender gave up.
CoreAdmit(r, n) ==
    /\ core[r][n] = "transit"
    /\ CoreStep(r, n, "queued")

CoreStart(r, n) ==
    /\ core[r][n] = "queued" /\ n \notin coreCancel[r]
    /\ kind[r] = "assign" /\ ValidateDistributionDecision(r, n)
    /\ CoreStep(r, n, "applying")

\* Ends an operation before anything was sent to the CRM.
CoreClose(r, n, st) ==
    /\ core[r][n] = "queued" \/ (core[r][n] = "applying" /\ st # "no_change")
    /\ st = "cancelled" => n \in coreCancel[r]
    /\ CoreStep(r, n, st)

\* The PATCH request to the CRM: the external effect.
CorePatch(r, n) ==
    /\ core[r][n] = "applying"
    /\ CoreStep(r, n, "confirming")

CoreResolve(r, n, st) ==
    /\ core[r][n] = "confirming"
    /\ CoreStep(r, n, st)

--------------------------------------------------------------------------------
\* A pass that the surroundings do not disturb ...
PassNext(w) ==
    \/ \E r \in Row : ClaimDistributionManualAssignment(w, r)
    \/ \E r \in Row : ClaimDistributionQueue(w, r)
    \/ LeaseLost(w)
    \/ PlanExpired(w) \/ PlanCancelled(w) \/ PlanWait(w) \/ PlanDecide(w)
    \/ RelockLease(w)
    \/ QueryFound(w) \/ QueryMissing(w) \/ ExpireAssignment(w)
    \/ GateAllows(w) \/ GateDenies(w)
    \/ SendAssign(w) \/ AssignReply(w) \/ AssignFails(w)
    \/ ValidatePasses(w) \/ ControlCancel(w) \/ ControlCancelFails(w)
    \/ ControlReconcile(w) \/ ApplyUnfinished(w) \/ ApplyTerminal(w)

\* ... and the disturbances: a crash, or no answer from Core.
PassFault(w) == Abandon(w) \/ QueryFails(w) \/ ExpireFails(w)

RowNext(r) ==
    \/ AdmitDistributionEntries(r) \/ AssignDistributionObservation(r)
    \/ ExpireUndispatched(r) \/ RequestExpiredCancellation(r)
    \/ BecomesDue(r) \/ LeaseExpires(r) \/ DeadlinePasses(r) \/ ValidityPasses(r)
    \/ UserCancel(r) \/ UserRetry(r)

OperationNext(r, n) ==
    \/ ApplyOperationResult(r, n)
    \/ CoreAdmit(r, n) \/ CoreStart(r, n) \/ CorePatch(r, n)
    \/ \E st \in NoAttempt : CoreClose(r, n, st)
    \/ \E st \in Attempted : CoreResolve(r, n, st)

SettingsNext ==
    \/ \E g \in Group : UpdateDistributionExecutionMode(g) \/ PauseGroup(g) \/ ResumeGroup(g)
    \/ \E e \in Entry, st \in {"checking", "unproven"} : EntryObserved(e, st)
    \/ \E e \in Entry : CancelDistributionObservedEntry(e) \/ PauseDistributionObservedEntry(e)

Next ==
    \/ \E w \in Worker : PassNext(w) \/ PassFault(w)
    \/ \E r \in Row : RowNext(r)
    \/ \E r \in Row, n \in Decision : OperationNext(r, n)
    \/ SettingsNext

Spec == Init /\ [][Next]_vars

--------------------------------------------------------------------------------
(***************************************************************************)
(* Properties.                                                             *)
(***************************************************************************)

\* A frozen command can still change the CRM until Core has closed it, whether
\* or not the request was sent, lost or delayed.
MayTakeEffect(r, n) == n <= decided[r] /\ core[r][n] \notin CoreEnd

\* Two commands that can still change the CRM never concern the same lead or
\* the same group: a lookup that answers 404, an expired command, a lost lease or
\* a cancelled row does not free the claims of distribution_lead_claims and
\* distribution_group_claims.
ExclusiveEffect ==
    \A r, s \in Row, m, n \in Decision :
        (MayTakeEffect(r, m) /\ MayTakeEffect(s, n) /\ <<r, m>> # <<s, n>>)
        => LeadOf[r] # LeadOf[s] /\ GroupOf[r] # GroupOf[s]

\* The claims are exactly those of the rows with an unfinished operation: none
\* is leaked by settleRuntimeOperation or the retry paths, none is missing.
ClaimsMatch ==
    /\ \A l \in Lead, r \in Row :
        leadClaim[l] = r <=> LeadOf[r] = l /\ Holding(r)
    /\ \A g \in Group, r \in Row :
        groupClaim[g] = r <=> GroupOf[r] = g /\ Holding(r)

Patched(r) == {n \in Decision : core[r][n] \in {"confirming"} \cup Attempted}

\* One queue row sends at most one PATCH to the CRM over all its decisions,
\* recalculations (settleRuntimeOperation) and user retries (retrySafe).
OneEffectPerRow == \A r \in Row : \A m, n \in Patched(r) : m = n

\* One stay of a lead in a stage is assigned successfully at most once, over
\* automatic and manual rows and retries (the partial unique index on entry_id).
SingleSuccessPerEntry ==
    \A r, s \in Row, m, n \in Decision :
        (EntryOf[r] = EntryOf[s] /\ core[r][m] = "succeeded" /\ core[s][n] = "succeeded")
        => r = s /\ m = n

\* While an automatic decision is unfinished the round-robin cursor it was
\* planned from does not move, so no turn is skipped or given twice.
CursorFrozen ==
    \A r \in Row : Holding(r) => basis[r] = cursor[GroupOf[r]]

\* A turn is fair, although it was planned long before it is confirmed, and rows
\* of the same group were planned, cancelled and recalculated in between: it
\* belongs to an automatic decision, sends the member who took it to the end of
\* the order, and brings everyone nearer to a turn who came after that member
\* when it was planned.  So the turns of others that a member waits for while
\* available are fewer than the members.
TurnsFair ==
    [][\A g \in Group : cursor'[g] # cursor[g] =>
          \E r \in Row \ Manual :
              /\ GroupOf[r] = g /\ Holding(r) /\ kind[r] = "assign"
              /\ \A m \in Member :
                    /\ Place(cursor'[g], m) <= Place(cursor'[g], planned[r])
                    /\ Place(basis[r], planned[r]) < Place(basis[r], m) =>
                          Place(cursor'[g], m) < Place(cursor[g], m)]_vars

\* A command that can still change the CRM belongs to the current execution
\* mode and epoch of its rule: the mode cannot be switched under it.
EpochFence ==
    \A r \in Row, n \in Decision : MayTakeEffect(r, n) => RuleMatches(r)

\* A settled row reports what happened: confirmed or kept exactly when Core
\* confirmed the target, even when the deadline passed or a cancellation was
\* requested in the meantime.
OutcomeFaithful ==
    \A r \in settled : op[r] # 0 =>
        /\ core[r][op[r]] \in CoreEnd
        /\ state[r] \in {"confirmed", "kept"} <=> core[r][op[r]] \in {"succeeded", "no_change"}

\* A result that was mirrored once is not applied again, so the row must have
\* been settled in the same transaction; otherwise it would wait forever.
NoStrandedOperation ==
    \A r \in Row : Holding(r) => mirror[r][op[r]] # "finished"

\* The settled flag and the terminal states agree: the claim query looks at one,
\* the guards of the rule settings and of the user actions at the other.
SettledMatchesState ==
    \A r \in Row : r \in settled <=> state[r] \in RowEnd

\* A requested cancellation is forgotten only when a user retries a settled row;
\* in particular an automatic recalculation never drops it.
CancelSticky ==
    [][\A r \in cancelReq : r \notin cancelReq' => r \in settled]_vars

--------------------------------------------------------------------------------
(***************************************************************************)
(* The inductive invariant behind the safety properties.                   *)
(***************************************************************************)

\* A row carries no operation or its latest one, and only an open row is leased.
RowsConsistent ==
    \A r \in Row :
        /\ op[r] \in {0, decided[r]}
        /\ op[r] # 0 => state[r] # "absent" /\ kind[r] # "none"
        /\ lease[r] # NoWorker => state[r] = "open"

\* Core knows only frozen commands; the one command of a row that it has not
\* closed, or has acted on, is the one in operation_id.
OperationsConsistent ==
    \A r \in Row, n \in Decision :
        /\ n > decided[r] => core[r][n] = "none" /\ mirror[r][n] = "none"
        /\ MayTakeEffect(r, n) => op[r] = n /\ r \notin settled
        /\ core[r][n] \in {"applying", "confirming"} \cup Attempted
            => op[r] = n /\ kind[r] = "assign"

\* A worker plans only undecided rows, and the end that it has read is final.
WorkerConsistent(w) ==
    /\ pc[w] = "plan" /\ Leased(w) => op[wrow[w]] = 0
    /\ pc[w] \notin {"idle", "plan"} => wop[w] <= decided[wrow[w]]
    /\ seen[w] \in CoreEnd
        => pc[w] \in {"validate", "apply"} /\ core[wrow[w]][wop[w]] = seen[w]

WorkersConsistent == \A w \in Worker : WorkerConsistent(w)

\* The rule of a row with an unfinished operation has not changed its mode.
HoldersFenced == \A r \in Row : Holding(r) => RuleMatches(r)

\* The invariant is inductive: a lost lease, a late worker, the result inbox or a
\* user action cannot leave it from any state that satisfies it, reachable or not.
IndInv ==
    /\ TypeOK /\ SettledMatchesState
    /\ RowsConsistent /\ OperationsConsistent /\ WorkersConsistent
    /\ ClaimsMatch /\ HoldersFenced /\ CursorFrozen
    /\ NoStrandedOperation /\ OutcomeFaithful

--------------------------------------------------------------------------------
Slots == INSTANCE AssignmentSlots WITH
    leadHolder <- leadClaim, groupHolder <- groupClaim,
    touched <- {r \in Row : Patched(r) # {}}

\* The queue implements AssignmentSlots: the claims are the slots, and the PATCH
\* request of Core is the change of the lead.
ImplementsSlots == Slots!Spec
================================================================================
