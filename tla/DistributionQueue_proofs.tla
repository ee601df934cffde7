------------------------ MODULE DistributionQueue_proofs ------------------------
(***************************************************************************)
(* Proofs about DistributionQueue.                                         *)
(***************************************************************************)
EXTENDS DistributionQueue, TLAPS

--------------------------------------------------------------------------------
(***************************************************************************)
(* Type correctness.  The type invariant is split by the tuples of         *)
(* variables that actions leave unchanged together.                        *)
(***************************************************************************)

\* What is not changed keeps its type.
LEMMA TypeFrame ==
    /\ RowType /\ UNCHANGED rowVars => RowType'
    /\ ClaimType /\ UNCHANGED claimVars => ClaimType'
    /\ MirrorType /\ UNCHANGED mirror => MirrorType'
    /\ RuleType /\ UNCHANGED ruleVars => RuleType'
    /\ WorkerType /\ UNCHANGED workerVars => WorkerType'
    /\ CoreType /\ UNCHANGED coreVars => CoreType'
<1>1. RowType /\ UNCHANGED rowVars => RowType'
  BY DEF RowType, rowVars, queueVars, planVars, birthVars
<1>2. ClaimType /\ UNCHANGED claimVars => ClaimType'
  BY DEF ClaimType, claimVars
<1>3. MirrorType /\ UNCHANGED mirror => MirrorType'
  BY DEF MirrorType
<1>4. RuleType /\ UNCHANGED ruleVars => RuleType'
  BY DEF RuleType, ruleVars
<1>5. WorkerType /\ UNCHANGED workerVars => WorkerType'
  BY DEF WorkerType, workerVars
<1>6. CoreType /\ UNCHANGED coreVars => CoreType'
  BY DEF CoreType, coreVars
<1> QED
  BY <1>1, <1>2, <1>3, <1>4, <1>5, <1>6

\* A pass that ends leaves an idle worker.
LEMMA EndPassType ==
    ASSUME WorkerType, NEW w \in Worker, EndPass(w)
    PROVE  WorkerType'
BY ConstantsAssumption DEF WorkerType, EndPass, PC, CoreState, Unknown

\* A jump inside a pass keeps the worker's row and operation.
LEMMA GotoType ==
    ASSUME WorkerType, NEW w \in Worker, NEW label \in PC,
           pc[w] \notin {"idle", "plan"}, Goto(w, label)
    PROVE  WorkerType'
BY DEF WorkerType, Goto

\* What a worker reads from Core is a state of Core.
LEMMA ObserveType ==
    ASSUME WorkerType, CoreType', NEW w \in Worker, NEW label \in PC,
           pc[w] \notin {"idle", "plan"}, Observe(w, label)
    PROVE  WorkerType'
<1>1. wrow[w] \in Row /\ wop[w] \in Decision
  BY DEF WorkerType
<1>2. core'[wrow[w]][wop[w]] \in CoreState
  BY <1>1 DEF CoreType
<1> QED
  BY <1>2 DEF WorkerType, Observe

\* Postponing a row keeps the types of its columns.
LEMMA QueueStateType ==
    ASSUME RowType, WorkerType, NEW w \in Worker, NEW cancel \in BOOLEAN,
           pc[w] # "idle", QueueState(w, cancel)
    PROVE  RowType'
<1>1. wrow[w] \in Row
  BY DEF WorkerType
<1>2. CASE Leased(w)
  BY <1>1, <1>2 DEF RowType, QueueState, RowState, planVars, birthVars
<1>3. CASE ~Leased(w)
  BY <1>3, TypeFrame DEF QueueState
<1> QED
  BY <1>2, <1>3

\* Settling a row keeps the types of its columns.
LEMMA SettleRowType ==
    ASSUME RowType, NEW r \in Row, NEW end \in RowEnd, SettleRow(r, end),
           op' \in [Row -> 0 .. MaxDecisions], cancelReq' \subseteq Row,
           UNCHANGED <<planVars, birthVars, overdue>>
    PROVE  RowType'
BY DEF RowType, SettleRow, RowState, planVars, birthVars

\* A cleared decision leaves a row without an operation.
LEMMA ClearDecisionType ==
    ASSUME RowType, NEW r \in Row, ClearDecision(r),
           due' \subseteq Row, settled' \subseteq Row,
           UNCHANGED <<birthVars, overdue>>
    PROVE  RowType'
<1>1. 0 \in Member /\ 0 \in 0 .. MaxDecisions
  BY ConstantsAssumption DEF Member
<1> QED
  BY <1>1 DEF RowType, ClearDecision, RowState, birthVars

\* A plan names a kind and a member.
LEMMA PlansType ==
    ASSUME NEW r, NEW plan \in Plans(r)
    PROVE  plan[1] \in {"assign", "keep"} /\ plan[2] \in Member
BY DEF Plans

\* Settling an operation keeps the types of the rows and of the claims.
LEMMA SettleRuntimeOperationType ==
    ASSUME RowType, ClaimType, NEW r \in Row, NEW n, NEW st,
           SettleRuntimeOperation(r, n, st)
    PROVE  RowType' /\ ClaimType'
<1>1. CASE ~(op[r] = n /\ r \notin settled)
  BY <1>1, TypeFrame DEF SettleRuntimeOperation, rowVars, claimVars
<1>2. CASE op[r] = n /\ r \notin settled
  <2>1. EndState(r, st) \in RowEnd
    BY DEF EndState, RowEnd
  <2>2. RowType'
    <3>1. CASE Recalculates(r, st)
      BY <1>2, <3>1, ClearDecisionType DEF SettleRuntimeOperation, RowType
    <3>2. CASE ~Recalculates(r, st)
      BY <1>2, <2>1, <3>2, SettleRowType DEF SettleRuntimeOperation, RowType
    <3> QED
      BY <3>1, <3>2
  <2>3. leadClaim' \in [Lead -> Row \cup {NoRow}]
    BY <1>2 DEF ClaimType, SettleRuntimeOperation, ReleaseDistributionLeadClaim
  <2>4. (planned[r] + 1) % Members \in Member
    BY ConstantsAssumption DEF RowType, Member
  <2>5. groupClaim' \in [Group -> Row \cup {NoRow}] /\ cursor' \in [Group -> Member]
    BY <1>2, <2>4 DEF ClaimType, SettleRuntimeOperation, ReleaseDistributionGroupClaim
  <2> QED
    BY <2>2, <2>3, <2>5 DEF ClaimType
<1> QED
  BY <1>1, <1>2

\* The claim and planning steps of a pass preserve the type invariant.
LEMMA TypeOKPlan ==
    ASSUME TypeOK, NEW w \in Worker,
           \/ \E r \in Row : ClaimDistributionManualAssignment(w, r)
           \/ \E r \in Row : ClaimDistributionQueue(w, r)
           \/ LeaseLost(w) \/ Abandon(w)
           \/ PlanExpired(w) \/ PlanCancelled(w) \/ PlanWait(w) \/ PlanDecide(w)
           \/ RelockLease(w)
    PROVE  TypeOK'
<1> USE TypeFrame
<1>1. ASSUME NEW r \in Row, TakeLease(w, r) PROVE TypeOK'
  <2>1. RowType'
    BY <1>1 DEF TypeOK, TakeLease, RowType, planVars, birthVars
  <2>2. WorkerType'
    BY <1>1 DEF TypeOK, TakeLease, WorkerType, RowType, PC, Decision
  <2> QED
    BY <1>1, <2>1, <2>2 DEF TypeOK, TakeLease
<1>2. CASE \E r \in Row : ClaimDistributionManualAssignment(w, r)
  BY <1>1, <1>2 DEF ClaimDistributionManualAssignment
<1>3. CASE \E r \in Row : ClaimDistributionQueue(w, r)
  BY <1>1, <1>3 DEF ClaimDistributionQueue
<1>4. CASE LeaseLost(w) \/ Abandon(w)
  BY <1>4, EndPassType DEF TypeOK, LeaseLost, Abandon
<1>5. CASE PlanExpired(w)
  <2>1. wrow[w] \in Row /\ "cancelled" \in RowEnd
    BY <1>5 DEF TypeOK, WorkerType, PlanExpired, RowEnd
  <2>2. RowType'
    BY <1>5, <2>1, SettleRowType DEF TypeOK, PlanExpired, RowType
  <2> QED
    BY <1>5, <2>2, EndPassType DEF TypeOK, PlanExpired
<1>6. CASE PlanCancelled(w)
  <2>1. wrow[w] \in Row
    BY <1>6 DEF TypeOK, WorkerType, PlanCancelled
  <2>2. RowType'
    BY <1>6, <2>1 DEF TypeOK, PlanCancelled, RowType, RowState, RowEnd, planVars, birthVars
  <2> QED
    BY <1>6, <2>2, EndPassType DEF TypeOK, PlanCancelled
<1>7. CASE PlanWait(w)
  BY <1>7, EndPassType, QueueStateType DEF TypeOK, PlanWait
<1>8. CASE PlanDecide(w)
  <2>1. PICK plan \in Plans(wrow[w]) :
          /\ kind' = [kind EXCEPT ![wrow[w]] = plan[1]]
          /\ planned' = [planned EXCEPT ![wrow[w]] = plan[2]]
    BY <1>8 DEF PlanDecide
  <2>2. plan[1] \in {"assign", "keep"} /\ plan[2] \in Member
    BY <2>1, PlansType
  <2>3. /\ wrow[w] \in Row
        /\ GroupOf[wrow[w]] \in Group
        /\ cursor[GroupOf[wrow[w]]] \in Member
    BY <1>8, ConstantsAssumption DEF PlanDecide, TypeOK, WorkerType, ClaimType
  <2>4. decided[wrow[w]] + 1 \in 0 .. MaxDecisions /\ decided[wrow[w]] + 1 \in Decision
    BY <1>8 DEF PlanDecide, Decision
  <2>5. RowType'
    BY <1>8, <2>1, <2>2, <2>3, <2>4 DEF TypeOK, RowType, PlanDecide, RowState, birthVars
  <2>6. ClaimType'
    BY <1>8, <2>3 DEF TypeOK, ClaimType, PlanDecide
  <2>7. WorkerType'
    BY <1>8, <2>3, <2>4 DEF TypeOK, WorkerType, PlanDecide, PC
  <2> QED
    BY <1>8, <2>5, <2>6, <2>7 DEF TypeOK, PlanDecide
<1>9. CASE RelockLease(w)
  BY <1>9, GotoType DEF TypeOK, RelockLease, PC
<1> QED
  BY <1>2, <1>3, <1>4, <1>5, <1>6, <1>7, <1>8, <1>9

\* The conversation with Core preserves the type invariant.
LEMMA TypeOKResume ==
    ASSUME TypeOK, NEW w \in Worker,
           \/ QueryFound(w) \/ QueryMissing(w) \/ QueryFails(w)
           \/ ExpireAssignment(w) \/ ExpireFails(w)
           \/ GateAllows(w) \/ GateDenies(w)
           \/ SendAssign(w) \/ AssignReply(w) \/ AssignFails(w)
           \/ ValidatePasses(w) \/ ControlCancel(w) \/ ControlCancelFails(w)
           \/ ControlReconcile(w)
    PROVE  TypeOK'
<1> USE TypeFrame
<1>a. /\ "expire" \in PC /\ "gate" \in PC /\ "assign" \in PC /\ "sent" \in PC
      /\ "validate" \in PC /\ "apply" \in PC
  BY DEF PC
<1>b. pc[w] \notin {"idle", "plan"} => wrow[w] \in Row /\ wop[w] \in Decision
  BY DEF TypeOK, WorkerType
<1>c. ASSUME pc[w] \notin {"idle", "plan"},
             core' \in {core, Tombstone(wrow[w], wop[w])}, UNCHANGED coreCancel
      PROVE  CoreType'
  <2>1. wrow[w] \in Row /\ wop[w] \in Decision /\ CoreType
    BY <1>b, <1>c DEF TypeOK
  <2>2. "declined" \in CoreState
    BY DEF CoreState, CoreEnd, NoAttempt
  <2>3. CASE core' = core
    BY <1>c, <2>1, <2>3 DEF CoreType
  <2>4. CASE core' = Tombstone(wrow[w], wop[w])
    BY <1>c, <2>1, <2>2, <2>4 DEF CoreType, Tombstone
  <2> QED
    BY <1>c, <2>3, <2>4
<1>d. ASSUME pc[w] \notin {"idle", "plan"}, CancelAccepted(w)
      PROVE  CoreType'
  <2>1. wrow[w] \in Row /\ wop[w] \in Decision /\ CoreType
    BY <1>b, <1>d DEF TypeOK
  <2>2. "cancelled" \in CoreState
    BY DEF CoreState, CoreEnd, NoAttempt
  <2>3. CASE /\ coreCancel' = [coreCancel EXCEPT ![wrow[w]] = @ \cup {wop[w]}]
             /\ UNCHANGED core
    BY <2>1, <2>3 DEF CoreType
  <2>4. CASE /\ core' = [core EXCEPT ![wrow[w]][wop[w]] = "cancelled"]
             /\ UNCHANGED coreCancel
    BY <2>1, <2>2, <2>4 DEF CoreType
  <2> QED
    BY <1>d, <2>3, <2>4 DEF CancelAccepted
<1>1. CASE QueryFound(w) \/ AssignReply(w) \/ ControlReconcile(w)
  BY <1>1, <1>a, ObserveType DEF TypeOK, QueryFound, AssignReply, ControlReconcile
<1>2. CASE QueryMissing(w) \/ GateAllows(w) \/ ValidatePasses(w)
  BY <1>2, <1>a, GotoType DEF TypeOK, QueryMissing, GateAllows, ValidatePasses
<1>3. CASE QueryFails(w) \/ GateDenies(w) \/ AssignFails(w)
  BY <1>3, QueueStateType, EndPassType DEF TypeOK, QueryFails, GateDenies, AssignFails
<1>4. CASE ExpireAssignment(w)
  <2>1. CoreType'
    BY <1>4, <1>c DEF ExpireAssignment
  <2> QED
    BY <1>4, <2>1, <1>a, ObserveType DEF TypeOK, ExpireAssignment
<1>5. CASE ExpireFails(w)
  <2>1. CoreType'
    BY <1>5, <1>c DEF ExpireFails
  <2> QED
    BY <1>5, <2>1, QueueStateType, EndPassType DEF TypeOK, ExpireFails
<1>6. CASE SendAssign(w)
  <2>1. CoreType'
    BY <1>6, <1>b DEF TypeOK, CoreType, SendAssign, CoreState, Unknown
  <2> QED
    BY <1>6, <2>1, <1>a, GotoType DEF TypeOK, SendAssign
<1>7. CASE ControlCancel(w)
  <2>1. CoreType'
    BY <1>7, <1>d DEF ControlCancel, CancelWanted
  <2> QED
    BY <1>7, <2>1, <1>a, ObserveType DEF TypeOK, ControlCancel, CancelWanted
<1>8. CASE ControlCancelFails(w)
  <2>1. CoreType'
    BY <1>8, <1>d DEF ControlCancelFails, CancelWanted, TypeOK
  <2> QED
    BY <1>8, <2>1, QueueStateType, EndPassType DEF TypeOK, ControlCancelFails, CancelWanted
<1> QED
  BY <1>1, <1>2, <1>3, <1>4, <1>5, <1>6, <1>7, <1>8

\* Applying a result preserves the type invariant.
LEMMA TypeOKApply ==
    ASSUME TypeOK,
           \/ \E w \in Worker : ApplyUnfinished(w) \/ ApplyTerminal(w)
           \/ \E r \in Row, n \in Decision : ApplyOperationResult(r, n)
    PROVE  TypeOK'
<1> USE TypeFrame
<1>1. ASSUME NEW w \in Worker, ApplyUnfinished(w) PROVE TypeOK'
  <2>1. wrow[w] \in Row /\ wop[w] \in Decision
    BY <1>1 DEF TypeOK, WorkerType, ApplyUnfinished
  <2>2. MirrorType'
    BY <1>1, <2>1 DEF TypeOK, MirrorType, ApplyUnfinished
  <2>3. RowType'
    <3>1. CASE wrow[w] \in settled
      BY <1>1, <3>1 DEF TypeOK, ApplyUnfinished
    <3>2. CASE wrow[w] \notin settled
      <4>1. QueueState(w, w \in seenCancel) /\ pc[w] # "idle"
        BY <1>1, <3>2 DEF ApplyUnfinished
      <4>2. (w \in seenCancel) \in BOOLEAN
        OBVIOUS
      <4> QED
        BY <4>1, <4>2, QueueStateType DEF TypeOK
    <3> QED
      BY <3>1, <3>2
  <2> QED
    BY <1>1, <2>2, <2>3, EndPassType DEF TypeOK, ApplyUnfinished
<1>2. ASSUME NEW w \in Worker, ApplyTerminal(w) PROVE TypeOK'
  <2>1. wrow[w] \in Row /\ wop[w] \in Decision
    BY <1>2 DEF TypeOK, WorkerType, ApplyTerminal
  <2>2. MirrorType'
    BY <1>2, <2>1 DEF TypeOK, MirrorType, ApplyTerminal
  <2>3. RowType' /\ ClaimType'
    BY <1>2, <2>1, SettleRuntimeOperationType DEF TypeOK, ApplyTerminal, rowVars, claimVars
  <2> QED
    BY <1>2, <2>2, <2>3, EndPassType DEF TypeOK, ApplyTerminal
<1>3. ASSUME NEW r \in Row, NEW n \in Decision, ApplyOperationResult(r, n) PROVE TypeOK'
  <2>1. MirrorType'
    BY <1>3 DEF TypeOK, MirrorType, ApplyOperationResult
  <2>2. RowType' /\ ClaimType'
    BY <1>3, SettleRuntimeOperationType DEF TypeOK, ApplyOperationResult
  <2> QED
    BY <1>3, <2>1, <2>2 DEF TypeOK, ApplyOperationResult
<1> QED
  BY <1>1, <1>2, <1>3

\* Time, users, settings and Core preserve the type invariant.
LEMMA TypeOKEnvironment ==
    ASSUME TypeOK,
           \/ \E r \in Row : RowNext(r)
           \/ \E r \in Row, n \in Decision :
                \/ CoreAdmit(r, n) \/ CoreStart(r, n) \/ CorePatch(r, n)
                \/ \E st \in NoAttempt : CoreClose(r, n, st)
                \/ \E st \in Attempted : CoreResolve(r, n, st)
           \/ SettingsNext
    PROVE  TypeOK'
<1> USE TypeFrame
<1>1. ASSUME NEW r \in Row, InsertRow(r) PROVE TypeOK'
  <2>1. ruleEpoch[GroupOf[r]] \in Nat
    BY ConstantsAssumption DEF TypeOK, RuleType
  <2>2. RowType'
    BY <1>1, <2>1 DEF TypeOK, InsertRow, RowType, RowState, planVars
  <2> QED
    BY <1>1, <2>2 DEF TypeOK, InsertRow
<1>2. ASSUME NEW r \in Row, RowNext(r) PROVE TypeOK'
  <2>1. CASE AdmitDistributionEntries(r) \/ AssignDistributionObservation(r)
    BY <1>1, <2>1 DEF AdmitDistributionEntries, AssignDistributionObservation
  <2>2. CASE ExpireUndispatched(r)
    <3>1. RowType'
      BY <2>2, SettleRowType DEF TypeOK, ExpireUndispatched, RowType, RowEnd
    <3> QED
      BY <2>2, <3>1 DEF TypeOK, ExpireUndispatched
  <2>3. CASE RequestExpiredCancellation(r) \/ BecomesDue(r) \/ LeaseExpires(r)
             \/ DeadlinePasses(r) \/ ValidityPasses(r)
    <3>1. RowType'
      BY <2>3 DEF TypeOK, RequestExpiredCancellation, BecomesDue, LeaseExpires,
        DeadlinePasses, ValidityPasses, RowType, planVars, birthVars
    <3> QED
      BY <2>3, <3>1 DEF TypeOK, RequestExpiredCancellation, BecomesDue, LeaseExpires,
        DeadlinePasses, ValidityPasses
  <2>4. CASE UserCancel(r)
    <3>1. CASE op[r] = 0
      BY <2>4, <3>1, SettleRowType DEF TypeOK, UserCancel, RowType, RowEnd
    <3>2. CASE op[r] # 0
      <4>1. RowType'
        BY <2>4, <3>2 DEF TypeOK, UserCancel, RowType, planVars, birthVars
      <4> QED
        BY <2>4, <4>1 DEF TypeOK, UserCancel
    <3> QED
      BY <3>1, <3>2
  <2>5. CASE UserRetry(r)
    BY <2>5, ClearDecisionType DEF TypeOK, UserRetry, RowType
  <2> QED
    BY <1>2, <2>1, <2>2, <2>3, <2>4, <2>5 DEF RowNext
<1>3. ASSUME NEW r \in Row, NEW n \in Decision, NEW st \in CoreState, CoreStep(r, n, st)
      PROVE  TypeOK'
  <2>1. CoreType'
    BY <1>3 DEF TypeOK, CoreType, CoreStep
  <2> QED
    BY <1>3, <2>1 DEF TypeOK, CoreStep
<1>4. ASSUME NEW r \in Row, NEW n \in Decision,
             \/ CoreAdmit(r, n) \/ CoreStart(r, n) \/ CorePatch(r, n)
             \/ \E st \in NoAttempt : CoreClose(r, n, st)
             \/ \E st \in Attempted : CoreResolve(r, n, st)
      PROVE  TypeOK'
  BY <1>3, <1>4 DEF CoreAdmit, CoreStart, CorePatch, CoreClose, CoreResolve, CoreState,
    CoreOpen, CoreEnd, NoAttempt, Attempted
<1>5. ASSUME SettingsNext PROVE TypeOK'
  <2>1. RuleType'
    BY <1>5 DEF TypeOK, RuleType, SettingsNext, UpdateDistributionExecutionMode, PauseGroup,
      ResumeGroup, EntryObserved, CancelDistributionObservedEntry,
      PauseDistributionObservedEntry, EntryState
  <2> QED
    BY <1>5, <2>1 DEF TypeOK, SettingsNext, UpdateDistributionExecutionMode, PauseGroup,
      ResumeGroup, EntryObserved, CancelDistributionObservedEntry,
      PauseDistributionObservedEntry
<1> QED
  BY <1>2, <1>4, <1>5

\* Every step preserves the type invariant.
LEMMA TypeOKNext ==
    ASSUME TypeOK, [Next]_vars
    PROVE  TypeOK'
<1>1. CASE UNCHANGED vars
  BY <1>1, TypeFrame DEF TypeOK, vars
<1>2. ASSUME NEW w \in Worker, PassNext(w) \/ PassFault(w) PROVE TypeOK'
  BY <1>2, TypeOKPlan, TypeOKResume, TypeOKApply DEF PassNext, PassFault
<1>3. ASSUME NEW r \in Row, RowNext(r) PROVE TypeOK'
  BY <1>3, TypeOKEnvironment
<1>4. ASSUME NEW r \in Row, NEW n \in Decision, OperationNext(r, n) PROVE TypeOK'
  BY <1>4, TypeOKApply, TypeOKEnvironment DEF OperationNext
<1>5. CASE SettingsNext
  BY <1>5, TypeOKEnvironment
<1> QED
  BY <1>1, <1>2, <1>3, <1>4, <1>5 DEF Next

\* The initial values have their types.
LEMMA TypeOKInit ==
    ASSUME Init
    PROVE  TypeOK
<1>1. 0 \in Member /\ 0 \in 0 .. MaxDecisions
  BY ConstantsAssumption DEF Member
<1>2. RowType
  BY <1>1 DEF Init, RowType, RowState
<1>3. ClaimType /\ MirrorType /\ RuleType
  BY <1>1 DEF Init, ClaimType, MirrorType, RuleType, EntryState
<1>4. WorkerType /\ CoreType
  BY <1>1 DEF Init, WorkerType, CoreType, PC, CoreState, Unknown
<1> QED
  BY <1>2, <1>3, <1>4 DEF TypeOK

\* TypeOK is an invariant of the queue, for any rows, workers and bounds.
THEOREM TypeCorrect == Spec => []TypeOK
<1>1. Init => TypeOK
  BY TypeOKInit
<1>2. TypeOK /\ [Next]_vars => TypeOK'
  BY TypeOKNext
<1> QED
  BY <1>1, <1>2, PTL DEF Spec
================================================================================
