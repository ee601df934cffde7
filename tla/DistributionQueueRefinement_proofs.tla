------------------- MODULE DistributionQueueRefinement_proofs -------------------
(***************************************************************************)
(* DistributionQueue implements AssignmentSlots: freezing a decision       *)
(* acquires the slots, Core's PATCH touches the lead, settling an          *)
(* operation releases them, and every other step is a stutter.             *)
(***************************************************************************)
EXTENDS DistributionQueueSafety_proofs

\* The states of Core in which the CRM may have been changed.
PatchedState == {"confirming"} \cup Attempted

\* The rows that have changed their lead.
TouchedRows == {r \in Row : Patched(r) # {}}

\* No operation enters or leaves the states of PatchedState.
PatchesKept ==
    \A r \in Row, n \in Decision : core'[r][n] \in PatchedState <=> core[r][n] \in PatchedState

\* Without a PATCH no row is touched.
LEMMA TouchedKept ==
    ASSUME PatchesKept
    PROVE  TouchedRows' = TouchedRows
<1>1. \A r \in Row : Patched(r)' = Patched(r)
  BY DEF PatchesKept, PatchedState, Patched
<1> QED
  BY <1>1 DEF TouchedRows

\* A step that moves one operation between states on the same side.
LEMMA PatchesKeptStep ==
    ASSUME TypeOK, NEW r \in Row, NEW n \in Decision, NEW st,
           core' = [core EXCEPT ![r][n] = st],
           st \in PatchedState <=> core[r][n] \in PatchedState
    PROVE  PatchesKept
<1>1. \A s \in Row, m \in Decision :
        core'[s][m] = IF s = r /\ m = n THEN st ELSE core[s][m]
  BY DEF TypeOK, CoreType
<1> QED
  BY <1>1 DEF PatchesKept

\* No call of a worker to Core is a PATCH.
LEMMA CallsPatchNothing ==
    ASSUME IndInv, NEW w \in Worker, pc[w] \notin {"idle", "plan"},
           \/ UNCHANGED core
           \/ core' = Tombstone(wrow[w], wop[w])
           \/ core' = [core EXCEPT ![wrow[w]][wop[w]] = IF @ = "none" THEN "transit" ELSE @]
           \/ CancelAccepted(w)
    PROVE  PatchesKept
<1>1. TypeOK /\ wrow[w] \in Row /\ wop[w] \in Decision
  BY DEF IndInv, TypeOK, WorkerType
<1>2. PICK r \in Row, n \in Decision : r = wrow[w] /\ n = wop[w]
  BY <1>1
<1>3. CASE UNCHANGED core
  BY <1>3 DEF PatchesKept
<1>4. CASE core' = Tombstone(r, n)
  <2>1. core' = [core EXCEPT ![r][n] = IF core[r][n] \in Unknown THEN "declined" ELSE core[r][n]]
    BY <1>4 DEF Tombstone
  <2>2. (IF core[r][n] \in Unknown THEN "declined" ELSE core[r][n]) \in PatchedState
        <=> core[r][n] \in PatchedState
    BY DEF Unknown, PatchedState, Attempted
  <2> QED
    BY <1>1, <2>1, <2>2, PatchesKeptStep
<1>5. CASE core' = [core EXCEPT ![r][n] = IF @ = "none" THEN "transit" ELSE @]
  <2>1. (IF core[r][n] = "none" THEN "transit" ELSE core[r][n]) \in PatchedState
        <=> core[r][n] \in PatchedState
    BY DEF PatchedState, Attempted
  <2> QED
    BY <1>1, <1>5, <2>1, PatchesKeptStep
<1>6. CASE core[r][n] = "queued" /\ core' = [core EXCEPT ![r][n] = "cancelled"]
  <2>1. "cancelled" \in PatchedState <=> core[r][n] \in PatchedState
    BY <1>6 DEF PatchedState, Attempted
  <2> QED
    BY <1>1, <1>6, <2>1, PatchesKeptStep
<1> QED
  BY <1>2, <1>3, <1>4, <1>5, <1>6 DEF CancelAccepted

\* A step that changes neither the claims nor what is patched is a stutter.
LEMMA SlotsStutter ==
    ASSUME UNCHANGED claimVars, PatchesKept
    PROVE  UNCHANGED Slots!slotVars
<1>1. TouchedRows' = TouchedRows
  BY TouchedKept
<1> QED
  BY <1>1 DEF Slots!slotVars, claimVars, TouchedRows

\* Freezing a decision acquires the slots of an untouched row.
LEMMA DecideAcquires ==
    ASSUME IndInv, NEW w \in Worker, PlanDecide(w)
    PROVE  Slots!Next
<1>1. PICK r \in Row : r = wrow[w]
  BY DEF IndInv, TypeOK, WorkerType, PlanDecide
<1>2. op[r] = 0
  BY <1>1 DEF IndInv, WorkersConsistent, WorkerConsistent, PlanDecide
<1>3. leadClaim[LeadOf[r]] = NoRow /\ groupClaim[GroupOf[r]] = NoRow
  BY <1>1, <1>2, ConstantsAssumption DEF IndInv, ClaimsMatch, Holding, PlanDecide, ClaimsAvailable
<1>4. r \notin TouchedRows
  BY <1>2, ConstantsAssumption
    DEF IndInv, OperationsConsistent, TouchedRows, Patched, Decision
<1>5. TouchedRows' = TouchedRows
  BY TouchedKept DEF PlanDecide, coreVars, PatchesKept
<1>6. Slots!Acquire(r)
  BY <1>1, <1>3, <1>4, <1>5 DEF Slots!Acquire, PlanDecide, TouchedRows
<1> QED
  BY <1>6 DEF Slots!Next

\* The PATCH of Core touches a row that holds its slots and was not touched.
LEMMA PatchTouches ==
    ASSUME IndInv, NEW r \in Row, NEW n \in Decision, CorePatch(r, n)
    PROVE  Slots!Next
<1>1. TypeOK /\ core[r][n] = "applying" /\ core' = [core EXCEPT ![r][n] = "confirming"]
      /\ UNCHANGED claimVars
  BY DEF CorePatch, CoreStep, IndInv
<1>2. op[r] = n /\ Holding(r)
  <2>1. ~(n > decided[r])
    BY <1>1 DEF IndInv, OperationsConsistent
  <2>2. n <= decided[r] /\ n # 0
    BY <1>1, <2>1, ConstantsAssumption DEF TypeOK, RowType, Decision
  <2>3. core[r][n] \notin CoreEnd
    BY <1>1 DEF CoreEnd, NoAttempt, Attempted
  <2> QED
    BY <2>2, <2>3 DEF IndInv, OperationsConsistent, MayTakeEffect, Holding
<1>3. Slots!Holds(r)
  BY <1>2, ConstantsAssumption DEF Slots!Holds, IndInv, ClaimsMatch
<1>4. r \notin TouchedRows
  BY <1>1, <1>2 DEF IndInv, OperationsConsistent, TouchedRows, Patched, Attempted
<1>5. TouchedRows' = TouchedRows \cup {r}
  <2>1. \A s \in Row, m \in Decision :
          core'[s][m] = IF s = r /\ m = n THEN "confirming" ELSE core[s][m]
    BY <1>1 DEF TypeOK, CoreType
  <2>2. \A s \in Row \ {r} : Patched(s)' = Patched(s)
    BY <2>1 DEF Patched
  <2>3. n \in Patched(r)'
    BY <2>1 DEF Patched
  <2> QED
    BY <2>2, <2>3 DEF TouchedRows
<1>6. Slots!Touch(r)
  BY <1>1, <1>3, <1>4, <1>5 DEF Slots!Touch, claimVars, TouchedRows
<1> QED
  BY <1>6 DEF Slots!Next

\* Settling an operation releases both slots of its row, or changes nothing.
LEMMA SettleReleases ==
    ASSUME IndInv, NEW r \in Row, NEW n \in Decision, NEW st,
           SettleRuntimeOperation(r, n, st), UNCHANGED core
    PROVE  Slots!Next \/ UNCHANGED Slots!slotVars
<1>1. PatchesKept
  BY DEF PatchesKept
<1>2. CASE ~(op[r] = n /\ r \notin settled)
  BY <1>1, <1>2, SlotsStutter DEF SettleRuntimeOperation
<1>3. CASE op[r] = n /\ r \notin settled
  <2>1. Holding(r)
    BY <1>3, ConstantsAssumption DEF Holding, Decision
  <2>2. /\ leadClaim' = [leadClaim EXCEPT ![LeadOf[r]] = NoRow]
        /\ groupClaim' = [groupClaim EXCEPT ![GroupOf[r]] = NoRow]
        /\ leadClaim[LeadOf[r]] = r /\ groupClaim[GroupOf[r]] = r
    BY <1>3, <2>1, ClaimsReleased DEF SettleRuntimeOperation
  <2>3. TouchedRows' = TouchedRows
    BY <1>1, TouchedKept
  <2>4. Slots!Release(r)
    BY <2>2, <2>3 DEF Slots!Release, Slots!Holds, TouchedRows
  <2> QED
    BY <2>4 DEF Slots!Next
<1> QED
  BY <1>2, <1>3

\* Every step of the queue is a step of the slots or a stutter.
LEMMA SlotsNext ==
    ASSUME IndInv, [Next]_vars
    PROVE  [Slots!Next]_(Slots!slotVars)
<1>1. ASSUME NEW w \in Worker, PassNext(w) \/ PassFault(w)
      PROVE  Slots!Next \/ UNCHANGED Slots!slotVars
  <2>1. CASE PlanDecide(w)
    BY <2>1, DecideAcquires
  <2>2. CASE ApplyTerminal(w)
    <3>1. wrow[w] \in Row /\ wop[w] \in Decision /\ UNCHANGED core
      BY <2>2 DEF ApplyTerminal, IndInv, TypeOK, WorkerType, coreVars
    <3>2. CASE UNCHANGED claimVars
      BY <3>1, <3>2, SlotsStutter DEF PatchesKept
    <3>3. CASE SettleRuntimeOperation(wrow[w], wop[w], seen[w])
      <4>1. PICK r \in Row, n \in Decision : r = wrow[w] /\ n = wop[w]
        BY <3>1
      <4>2. PICK st : st = seen[w]
        OBVIOUS
      <4>3. SettleRuntimeOperation(r, n, st)
        BY <3>3, <4>1, <4>2
      <4> QED
        BY <3>1, <4>3, SettleReleases
    <3> QED
      BY <2>2, <3>2, <3>3 DEF ApplyTerminal
  <2>3. CASE \/ \E r \in Row : ClaimDistributionManualAssignment(w, r)
             \/ \E r \in Row : ClaimDistributionQueue(w, r)
             \/ LeaseLost(w) \/ Abandon(w) \/ RelockLease(w)
             \/ PlanExpired(w) \/ PlanCancelled(w) \/ PlanWait(w) \/ ApplyUnfinished(w)
    <3>1. UNCHANGED claimVars /\ UNCHANGED core
      BY <2>3 DEF ClaimDistributionManualAssignment, ClaimDistributionQueue, TakeLease,
        LeaseLost, Abandon, RelockLease, PlanExpired, PlanCancelled, PlanWait,
        ApplyUnfinished, coreVars
    <3> QED
      BY <3>1, SlotsStutter DEF PatchesKept
  <2>4. CASE \/ QueryFound(w) \/ QueryMissing(w) \/ QueryFails(w)
             \/ ExpireAssignment(w) \/ ExpireFails(w) \/ GateAllows(w) \/ GateDenies(w)
             \/ SendAssign(w) \/ AssignReply(w) \/ AssignFails(w)
             \/ ValidatePasses(w) \/ ControlCancel(w) \/ ControlCancelFails(w)
             \/ ControlReconcile(w)
    <3>1. /\ pc[w] \notin {"idle", "plan"} /\ UNCHANGED claimVars
          /\ \/ UNCHANGED core
             \/ core' = Tombstone(wrow[w], wop[w])
             \/ core' = [core EXCEPT ![wrow[w]][wop[w]] = IF @ = "none" THEN "transit" ELSE @]
             \/ CancelAccepted(w)
      BY <2>4 DEF QueryFound, QueryMissing, QueryFails, ExpireAssignment, ExpireFails,
        GateAllows, GateDenies, SendAssign, AssignReply, AssignFails, ValidatePasses,
        ControlCancel, ControlCancelFails, ControlReconcile, CancelWanted, coreVars
    <3> QED
      BY <3>1, CallsPatchNothing, SlotsStutter
  <2> QED
    BY <1>1, <2>1, <2>2, <2>3, <2>4 DEF PassNext, PassFault
<1>2. ASSUME NEW r \in Row, RowNext(r) PROVE UNCHANGED Slots!slotVars
  <2>1. UNCHANGED claimVars /\ UNCHANGED core
    BY <1>2 DEF RowNext, AdmitDistributionEntries, AssignDistributionObservation, InsertRow,
      ExpireUndispatched, RequestExpiredCancellation, BecomesDue, LeaseExpires,
      DeadlinePasses, ValidityPasses, UserCancel, UserRetry, coreVars
  <2> QED
    BY <2>1, SlotsStutter DEF PatchesKept
<1>3. ASSUME NEW r \in Row, NEW n \in Decision, OperationNext(r, n)
      PROVE  Slots!Next \/ UNCHANGED Slots!slotVars
  <2>1. CASE CorePatch(r, n)
    BY <2>1, PatchTouches
  <2>2. CASE ApplyOperationResult(r, n)
    <3>1. PICK st : st = core[r][n]
      OBVIOUS
    <3>2. SettleRuntimeOperation(r, n, st) /\ UNCHANGED core
      BY <2>2, <3>1 DEF ApplyOperationResult, coreVars
    <3> QED
      BY <3>2, SettleReleases
  <2>3. ASSUME NEW st, CoreStep(r, n, st), st \in PatchedState <=> core[r][n] \in PatchedState
        PROVE  UNCHANGED Slots!slotVars
    BY <2>3, PatchesKeptStep, SlotsStutter DEF IndInv, CoreStep
  <2>4. CASE \/ CoreAdmit(r, n) \/ CoreStart(r, n)
             \/ \E st \in NoAttempt : CoreClose(r, n, st)
             \/ \E st \in Attempted : CoreResolve(r, n, st)
    <3>1. \E st : CoreStep(r, n, st) /\ (st \in PatchedState <=> core[r][n] \in PatchedState)
      BY <2>4 DEF CoreAdmit, CoreStart, CoreClose, CoreResolve, PatchedState, NoAttempt,
        Attempted
    <3> QED
      BY <2>3, <3>1
  <2> QED
    BY <1>3, <2>1, <2>2, <2>4 DEF OperationNext
<1>4. CASE SettingsNext \/ UNCHANGED vars
  <2>1. UNCHANGED claimVars /\ UNCHANGED core
    BY <1>4 DEF SettingsNext, UpdateDistributionExecutionMode, PauseGroup, ResumeGroup,
      EntryObserved, CancelDistributionObservedEntry, PauseDistributionObservedEntry,
      vars, coreVars
  <2> QED
    BY <2>1, SlotsStutter DEF PatchesKept
<1> QED
  BY <1>1, <1>2, <1>3, <1>4 DEF Next

\* Initially no slot is held and no lead has been changed.
LEMMA SlotsInit ==
    ASSUME Init
    PROVE  Slots!Init
<1>1. TouchedRows = {}
  BY DEF Init, TouchedRows, Patched, Attempted
<1> QED
  BY <1>1 DEF Init, Slots!Init, TouchedRows

\* The queue, with all its workers, faults and retries, implements the abstract
\* specification: a row changes its lead at most once, and only while it alone
\* holds the lead and the group.
THEOREM Refinement == Spec => ImplementsSlots
<1>1. Init => Slots!Init
  BY SlotsInit
<1>2. IndInv /\ [Next]_vars => [Slots!Next]_(Slots!slotVars)
  BY SlotsNext
<1> QED
  BY <1>1, <1>2, Consistent, PTL DEF Spec, ImplementsSlots, Slots!Spec
================================================================================
