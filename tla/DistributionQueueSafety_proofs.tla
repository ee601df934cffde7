--------------------- MODULE DistributionQueueSafety_proofs ---------------------
(***************************************************************************)
(* The inductive invariant of DistributionQueue and the safety properties  *)
(* that follow from it, for any rows, workers, leads, groups and bounds.   *)
(* The order of the lemmas is that of the argument: what a step leaves     *)
(* alone, what happens to the workers, to Core's operations, to the rows.  *)
(* SingleSuccessPerEntry needs the unique index in addition, and the       *)
(* action properties CancelSticky and TurnsFair look at single steps.      *)
(***************************************************************************)
EXTENDS DistributionQueue_proofs

--------------------------------------------------------------------------------
\* A part of the invariant whose variables do not change is preserved.
LEMMA IndFrame ==
    /\ SettledMatchesState /\ UNCHANGED <<state, settled>> => SettledMatchesState'
    /\ RowsConsistent /\ UNCHANGED <<op, decided, kind, state, lease>> => RowsConsistent'
    /\ OperationsConsistent /\ UNCHANGED <<decided, core, mirror, op, settled, kind>>
        => OperationsConsistent'
    /\ ClaimsMatch /\ UNCHANGED <<leadClaim, groupClaim, op, settled>> => ClaimsMatch'
    /\ HoldersFenced /\ UNCHANGED <<op, settled, mode, ruleEpoch, epoch>> => HoldersFenced'
    /\ CursorFrozen /\ UNCHANGED <<op, settled, basis, cursor>> => CursorFrozen'
    /\ NoStrandedOperation /\ UNCHANGED <<op, settled, mirror>> => NoStrandedOperation'
    /\ OutcomeFaithful /\ UNCHANGED <<op, settled, core, state>> => OutcomeFaithful'
<1>1. SettledMatchesState /\ UNCHANGED <<state, settled>> => SettledMatchesState'
  BY DEF SettledMatchesState
<1>2. RowsConsistent /\ UNCHANGED <<op, decided, kind, state, lease>> => RowsConsistent'
  BY DEF RowsConsistent
<1>3. OperationsConsistent /\ UNCHANGED <<decided, core, mirror, op, settled, kind>>
        => OperationsConsistent'
  BY DEF OperationsConsistent, MayTakeEffect
<1>4. ClaimsMatch /\ UNCHANGED <<leadClaim, groupClaim, op, settled>> => ClaimsMatch'
  BY DEF ClaimsMatch, Holding
<1>5. HoldersFenced /\ UNCHANGED <<op, settled, mode, ruleEpoch, epoch>> => HoldersFenced'
  BY DEF HoldersFenced, Holding, RuleMatches
<1>6. CursorFrozen /\ UNCHANGED <<op, settled, basis, cursor>> => CursorFrozen'
  BY DEF CursorFrozen, Holding
<1>7. NoStrandedOperation /\ UNCHANGED <<op, settled, mirror>> => NoStrandedOperation'
  BY DEF NoStrandedOperation, Holding
<1>8. OutcomeFaithful /\ UNCHANGED <<op, settled, core, state>> => OutcomeFaithful'
  BY DEF OutcomeFaithful
<1> QED
  BY <1>1, <1>2, <1>3, <1>4, <1>5, <1>6, <1>7, <1>8

--------------------------------------------------------------------------------
(***************************************************************************)
(* Workers.                                                                *)
(***************************************************************************)

\* What Core has closed stays as it is.
CoreMonotone ==
    \A r \in Row, n \in Decision : core[r][n] \in CoreEnd => core'[r][n] = core[r][n]

\* Nobody but w gains a lease, and the rows of the others are not decided.
LeasesShrink(w) ==
    /\ \A x \in Worker \ {w}, r \in Row :
        lease'[r] = x => lease[r] = x /\ op'[r] \in {op[r], 0}
    /\ \A r \in Row : decided'[r] \in Nat /\ decided[r] <= decided'[r]

\* A step in which worker x takes no part keeps what x knows.
LEMMA OtherWorker ==
    ASSUME TypeOK, WorkersConsistent, NEW w, NEW x \in Worker \ {w},
           pc'[x] = pc[x], wrow'[x] = wrow[x], wop'[x] = wop[x], seen'[x] = seen[x],
           LeasesShrink(w), CoreMonotone
    PROVE  WorkerConsistent(x)'
<1>1. WorkerConsistent(x) /\ x \in Worker
  BY DEF WorkersConsistent
<1>2. pc[x] # "idle" => wrow[x] \in Row
  BY DEF TypeOK, WorkerType
<1>3. pc[x] \notin {"idle", "plan"} => wop[x] \in Decision
  BY DEF TypeOK, WorkerType
<1>4. (pc[x] = "plan" /\ Leased(x) => op[wrow[x]] = 0)'
  <2> SUFFICES ASSUME pc[x] = "plan", Leased(x)' PROVE op'[wrow[x]] = 0
    BY Zenon
  <2>1. lease[wrow[x]] = x /\ op'[wrow[x]] \in {op[wrow[x]], 0}
    BY <1>1, <1>2 DEF Leased, LeasesShrink
  <2> QED
    BY <1>1, <1>2, <2>1, ConstantsAssumption DEF Leased, WorkerConsistent
<1>5. (pc[x] \notin {"idle", "plan"} => wop[x] <= decided[wrow[x]])'
  <2> SUFFICES ASSUME pc[x] \notin {"idle", "plan"} PROVE wop[x] <= decided'[wrow[x]]
    BY Zenon
  <2>1. decided[wrow[x]] \in Nat /\ wop[x] \in Nat /\ wop[x] <= decided[wrow[x]]
    BY <1>1, <1>2, <1>3, ConstantsAssumption
      DEF TypeOK, RowType, Decision, WorkerConsistent
  <2>2. decided'[wrow[x]] \in Nat /\ decided[wrow[x]] <= decided'[wrow[x]]
    BY <1>2 DEF LeasesShrink
  <2> QED
    BY <2>1, <2>2
<1>6. (seen[x] \in CoreEnd => pc[x] \in {"validate", "apply"}
                              /\ core[wrow[x]][wop[x]] = seen[x])'
  BY <1>1, <1>2, <1>3 DEF WorkerConsistent, CoreMonotone
<1> QED
  BY <1>4, <1>5, <1>6 DEF WorkerConsistent

\* A step of no worker keeps what the workers know.
LEMMA WorkersIdle ==
    ASSUME TypeOK, WorkersConsistent, UNCHANGED workerVars,
           LeasesShrink(NoWorker), CoreMonotone
    PROVE  WorkersConsistent'
<1> SUFFICES ASSUME NEW x \in Worker PROVE WorkerConsistent(x)'
  BY DEF WorkersConsistent
<1>1. x \in Worker \ {NoWorker}
  BY ConstantsAssumption
<1> QED
  BY <1>1, OtherWorker DEF workerVars

\* A pass that ends leaves nothing to know about its worker.
LEMMA PassEnds ==
    ASSUME TypeOK, WorkersConsistent, NEW w \in Worker, EndPass(w),
           LeasesShrink(w), CoreMonotone
    PROVE  WorkersConsistent'
<1>1. WorkerConsistent(w)'
  BY DEF TypeOK, WorkerType, EndPass, WorkerConsistent, CoreEnd, NoAttempt, Attempted
<1>2. ASSUME NEW x \in Worker \ {w} PROVE WorkerConsistent(x)'
  <2>1. pc'[x] = pc[x] /\ wrow'[x] = wrow[x] /\ wop'[x] = wop[x] /\ seen'[x] = seen[x]
    BY DEF EndPass, TypeOK, WorkerType
  <2> QED
    BY <2>1, OtherWorker
<1> QED
  BY <1>1, <1>2 DEF WorkersConsistent

\* A pass that moves on keeps its row and its operation.
LEMMA PassMoves ==
    ASSUME TypeOK, WorkersConsistent, NEW w \in Worker, NEW label,
           pc[w] \notin {"idle", "plan"},
           \/ /\ Goto(w, label)
              /\ label \in {"query", "expire", "gate", "assign", "sent", "apply"}
              /\ pc[w] \in {"validate", "apply"} => label = "apply"
           \/ Observe(w, label) /\ label \in {"validate", "apply"},
           UNCHANGED <<lease, op, decided>>, CoreMonotone
    PROVE  WorkersConsistent'
<1>1. WorkerConsistent(w) /\ wrow[w] \in Row /\ wop[w] \in Decision
  BY DEF WorkersConsistent, TypeOK, WorkerType
<1>2. LeasesShrink(w)
  BY ConstantsAssumption DEF LeasesShrink, TypeOK, RowType
<1>3. WorkerConsistent(w)'
  <2>1. CASE Goto(w, label) /\ label \in {"query", "expire", "gate", "assign", "sent", "apply"}
             /\ (pc[w] \in {"validate", "apply"} => label = "apply")
    BY <1>1, <2>1 DEF Goto, WorkerConsistent, CoreMonotone, TypeOK, WorkerType
  <2>2. CASE Observe(w, label) /\ label \in {"validate", "apply"}
    BY <1>1, <2>2 DEF Observe, WorkerConsistent, TypeOK, WorkerType
  <2> QED
    BY <2>1, <2>2
<1>4. ASSUME NEW x \in Worker \ {w} PROVE WorkerConsistent(x)'
  <2>1. pc'[x] = pc[x] /\ wrow'[x] = wrow[x] /\ wop'[x] = wop[x] /\ seen'[x] = seen[x]
    BY DEF Goto, Observe, TypeOK, WorkerType
  <2> QED
    BY <1>2, <2>1, OtherWorker
<1> QED
  BY <1>3, <1>4 DEF WorkersConsistent

--------------------------------------------------------------------------------
(***************************************************************************)
(* Operations of Core.                                                     *)
(***************************************************************************)

\* An operation that is not closed belongs to its row, so it may advance.
LEMMA OperationAdvances ==
    ASSUME TypeOK, OperationsConsistent, NEW r \in Row, NEW n \in Decision, NEW st,
           core' = [core EXCEPT ![r][n] = st],
           n <= decided[r], core[r][n] \notin CoreEnd,
           st \in {"applying", "confirming"} \cup Attempted => kind[r] = "assign",
           UNCHANGED <<decided, op, settled, kind, mirror>>
    PROVE  OperationsConsistent' /\ CoreMonotone
<1>1. \A s \in Row, m \in Decision :
        core'[s][m] = IF s = r /\ m = n THEN st ELSE core[s][m]
  BY DEF TypeOK, CoreType
<1>2. CoreMonotone
  BY <1>1 DEF CoreMonotone
<1>3. MayTakeEffect(r, n) /\ op[r] = n /\ r \notin settled
  BY DEF MayTakeEffect, OperationsConsistent
<1>4. decided[r] \in Nat /\ n \in Nat
  BY ConstantsAssumption DEF TypeOK, RowType, Decision
<1>5. ASSUME NEW s \in Row, NEW m \in Decision, ~(s = r /\ m = n)
      PROVE  /\ m > decided'[s] => core'[s][m] = "none" /\ mirror'[s][m] = "none"
             /\ MayTakeEffect(s, m)' => op'[s] = m /\ s \notin settled'
             /\ core'[s][m] \in {"applying", "confirming"} \cup Attempted
                 => op'[s] = m /\ kind'[s] = "assign"
  BY <1>1, <1>5 DEF MayTakeEffect, OperationsConsistent
<1>6. /\ n > decided'[r] => core'[r][n] = "none" /\ mirror'[r][n] = "none"
      /\ MayTakeEffect(r, n)' => op'[r] = n /\ r \notin settled'
      /\ core'[r][n] \in {"applying", "confirming"} \cup Attempted
          => op'[r] = n /\ kind'[r] = "assign"
  BY <1>1, <1>3, <1>4
<1>7. OperationsConsistent'
  BY <1>5, <1>6 DEF OperationsConsistent
<1> QED
  BY <1>2, <1>7

\* An unchanged Core.
LEMMA CoreStill ==
    ASSUME UNCHANGED core
    PROVE  CoreMonotone
BY DEF CoreMonotone

\* Outcomes of settled rows do not depend on what Core still does.
LEMMA OutcomeKept ==
    ASSUME TypeOK, OutcomeFaithful, UNCHANGED <<op, settled>>, CoreMonotone,
           \A r \in settled : state'[r] = state[r]
    PROVE  OutcomeFaithful'
<1> SUFFICES ASSUME NEW r \in settled, op[r] # 0
             PROVE  /\ core'[r][op[r]] \in CoreEnd
                    /\ state'[r] \in {"confirmed", "kept"}
                        <=> core'[r][op[r]] \in {"succeeded", "no_change"}
  BY DEF OutcomeFaithful
<1>1. r \in Row /\ op[r] \in Decision
  BY ConstantsAssumption DEF TypeOK, RowType, Decision
<1>2. core'[r][op[r]] = core[r][op[r]] /\ core[r][op[r]] \in CoreEnd
  BY <1>1 DEF OutcomeFaithful, CoreMonotone
<1> QED
  BY <1>2 DEF OutcomeFaithful

\* The calls of a worker to Core: expiring, sending and cancelling.
LEMMA WorkerCallsCore ==
    ASSUME IndInv, NEW w \in Worker, pc[w] \notin {"idle", "plan"},
           \/ UNCHANGED core
           \/ core' = Tombstone(wrow[w], wop[w])
           \/ core' = [core EXCEPT ![wrow[w]][wop[w]] = IF @ = "none" THEN "transit" ELSE @]
           \/ CancelAccepted(w),
           UNCHANGED <<decided, op, settled, kind, mirror>>
    PROVE  OperationsConsistent' /\ CoreMonotone
<1> DEFINE r == wrow[w]
           n == wop[w]
<1>1. TypeOK /\ OperationsConsistent
  BY DEF IndInv
<1>2. r \in Row /\ n \in Decision /\ n <= decided[r]
  BY DEF IndInv, TypeOK, WorkerType, WorkersConsistent, WorkerConsistent
<1>3. core \in [Row -> [Decision -> CoreState]]
  BY DEF IndInv, TypeOK, CoreType
<1>4. CASE UNCHANGED core
  BY <1>1, <1>4, CoreStill, IndFrame
<1>5. CASE core[r][n] \in Unknown /\ core' = [core EXCEPT ![r][n] = "declined"]
  <2>1. core[r][n] \notin CoreEnd /\ "declined" \notin {"applying", "confirming"} \cup Attempted
    BY <1>5 DEF Unknown, CoreEnd, NoAttempt, Attempted
  <2> QED
    BY <1>1, <1>2, <1>5, <2>1, OperationAdvances
<1>6. CASE core[r][n] = "none" /\ core' = [core EXCEPT ![r][n] = "transit"]
  <2>1. core[r][n] \notin CoreEnd /\ "transit" \notin {"applying", "confirming"} \cup Attempted
    BY <1>6 DEF CoreEnd, NoAttempt, Attempted
  <2> QED
    BY <1>1, <1>2, <1>6, <2>1, OperationAdvances
<1>7. CASE core[r][n] = "queued" /\ core' = [core EXCEPT ![r][n] = "cancelled"]
  <2>1. core[r][n] \notin CoreEnd /\ "cancelled" \notin {"applying", "confirming"} \cup Attempted
    BY <1>7 DEF CoreEnd, NoAttempt, Attempted
  <2> QED
    BY <1>1, <1>2, <1>7, <2>1, OperationAdvances
<1>8. core' = Tombstone(r, n) =>
        \/ UNCHANGED core
        \/ core[r][n] \in Unknown /\ core' = [core EXCEPT ![r][n] = "declined"]
  <2>1. CASE core[r][n] \in Unknown
    BY <2>1 DEF Tombstone
  <2>2. CASE core[r][n] \notin Unknown
    <3>1. Tombstone(r, n) = [core EXCEPT ![r][n] = core[r][n]]
      BY <2>2 DEF Tombstone
    <3>2. Tombstone(r, n) = core
      BY <1>2, <1>3, <3>1
    <3> QED
      BY <3>2
  <2> QED
    BY <2>1, <2>2
<1>9. core' = [core EXCEPT ![r][n] = IF @ = "none" THEN "transit" ELSE @] =>
        \/ UNCHANGED core
        \/ core[r][n] = "none" /\ core' = [core EXCEPT ![r][n] = "transit"]
  <2>1. CASE core[r][n] = "none"
    BY <2>1
  <2>2. CASE core[r][n] # "none"
    <3>1. [core EXCEPT ![r][n] = IF @ = "none" THEN "transit" ELSE @]
            = [core EXCEPT ![r][n] = core[r][n]]
      BY <2>2
    <3>2. [core EXCEPT ![r][n] = core[r][n]] = core
      BY <1>2, <1>3
    <3> QED
      BY <3>1, <3>2
  <2> QED
    BY <2>1, <2>2
<1>10. CancelAccepted(w) =>
        \/ UNCHANGED core
        \/ core[r][n] = "queued" /\ core' = [core EXCEPT ![r][n] = "cancelled"]
  BY DEF CancelAccepted
<1> QED
  BY <1>4, <1>5, <1>6, <1>7, <1>8, <1>9, <1>10

\* The steps of Core itself.
LEMMA CoreMoves ==
    ASSUME IndInv, NEW r \in Row, NEW n \in Decision,
           \/ CoreAdmit(r, n) \/ CoreStart(r, n) \/ CorePatch(r, n)
           \/ \E st \in NoAttempt : CoreClose(r, n, st)
           \/ \E st \in Attempted : CoreResolve(r, n, st)
    PROVE  OperationsConsistent' /\ CoreMonotone
<1>1. TypeOK /\ OperationsConsistent
  BY DEF IndInv
<1>2. PICK st :
        /\ CoreStep(r, n, st)
        /\ core[r][n] \in {"transit", "queued", "applying", "confirming"}
        /\ st \in {"applying", "confirming"} \cup Attempted =>
            kind[r] = "assign" \/ core[r][n] \in {"applying", "confirming"}
  BY DEF CoreAdmit, CoreStart, CorePatch, CoreClose, CoreResolve, NoAttempt, Attempted
<1>3. core[r][n] \notin CoreEnd /\ core[r][n] # "none"
  BY <1>2 DEF CoreEnd, NoAttempt, Attempted
<1>4. n <= decided[r]
  <2>1. ~(n > decided[r])
    BY <1>1, <1>3 DEF OperationsConsistent
  <2>2. n \in Int /\ decided[r] \in Int
    BY <1>1, ConstantsAssumption DEF TypeOK, RowType, Decision
  <2> QED
    BY <2>1, <2>2
<1>5. st \in {"applying", "confirming"} \cup Attempted => kind[r] = "assign"
  BY <1>1, <1>2 DEF OperationsConsistent
<1>6. /\ core' = [core EXCEPT ![r][n] = st]
      /\ UNCHANGED <<decided, op, settled, kind, mirror>>
  BY <1>2 DEF CoreStep, rowVars, queueVars, planVars
<1> QED
  BY <1>1, <1>3, <1>4, <1>5, <1>6, OperationAdvances

--------------------------------------------------------------------------------
(***************************************************************************)
(* Rows and claims.  SafeInv is IndInv without the type invariant.         *)
(***************************************************************************)

SafeInv ==
    /\ SettledMatchesState
    /\ RowsConsistent /\ OperationsConsistent /\ WorkersConsistent
    /\ ClaimsMatch /\ HoldersFenced /\ CursorFrozen
    /\ NoStrandedOperation /\ OutcomeFaithful

\* A step that leaves the rows and the claims alone.
LEMMA RowsStill ==
    ASSUME IndInv,
           UNCHANGED <<state, settled, op, lease, decided, kind, basis, epoch, claimVars,
                       mirror, mode, ruleEpoch>>,
           OperationsConsistent', CoreMonotone, WorkersConsistent'
    PROVE  SafeInv'
<1>1. SettledMatchesState' /\ RowsConsistent' /\ ClaimsMatch' /\ HoldersFenced'
      /\ CursorFrozen' /\ NoStrandedOperation'
  BY IndFrame DEF IndInv, claimVars
<1>2. OutcomeFaithful'
  BY OutcomeKept DEF IndInv
<1> QED
  BY <1>1, <1>2 DEF SafeInv

\* A leased row is open, and so not settled.
LEMMA LeasedOpen ==
    ASSUME IndInv, NEW r \in Row, lease[r] # NoWorker
    PROVE  state[r] = "open" /\ r \notin settled
BY DEF IndInv, RowsConsistent, SettledMatchesState, RowEnd

\* A pass that ends by postponing its row.
LEMMA RowPostponed ==
    ASSUME IndInv, NEW w \in Worker, NEW cancel, pc[w] # "idle",
           QueueState(w, cancel), EndPass(w),
           UNCHANGED <<claimVars, mirror, ruleVars>>,
           OperationsConsistent', CoreMonotone
    PROVE  SafeInv'
<1> DEFINE r == wrow[w]
<1>1. TypeOK /\ r \in Row
  BY DEF IndInv, TypeOK, WorkerType
<1>2. UNCHANGED <<settled, op, decided, kind, basis, epoch>>
  BY DEF QueueState, rowVars, queueVars, planVars, birthVars
<1>3. /\ \A s \in Row : lease'[s] \in {lease[s], NoWorker}
      /\ \A s \in Row : state'[s] = state[s] \/ (lease[s] # NoWorker /\ state'[s] = "open")
  <2>1. CASE Leased(w)
    BY <1>1, <2>1, ConstantsAssumption DEF QueueState, TypeOK, RowType, Leased
  <2>2. CASE ~Leased(w)
    BY <2>2 DEF QueueState, rowVars, queueVars
  <2> QED
    BY <2>1, <2>2
<1>4. \A s \in Row : state'[s] = state[s]
  BY <1>3, LeasedOpen
<1>5. SettledMatchesState' /\ RowsConsistent'
  BY <1>2, <1>3, <1>4 DEF IndInv, SettledMatchesState, RowsConsistent
<1>6. ClaimsMatch' /\ HoldersFenced' /\ CursorFrozen' /\ NoStrandedOperation'
  BY <1>2, IndFrame DEF IndInv, claimVars, ruleVars
<1>7. OutcomeFaithful'
  BY <1>1, <1>2, <1>4, OutcomeKept DEF IndInv, TypeOK, RowType
<1>8. LeasesShrink(w)
  BY <1>1, <1>2, <1>3, ConstantsAssumption DEF LeasesShrink, TypeOK, RowType
<1>9. WorkersConsistent'
  BY <1>8, PassEnds DEF IndInv
<1> QED
  BY <1>5, <1>6, <1>7, <1>9 DEF SafeInv

\* A row without an operation may be settled at any time.
LEMMA UndecidedSettles ==
    ASSUME IndInv, NEW r \in Row, NEW end \in RowEnd, op[r] = 0,
           state' = [state EXCEPT ![r] = end],
           settled' = settled \cup {r},
           lease' = [lease EXCEPT ![r] = NoWorker],
           UNCHANGED <<op, planVars, birthVars, claimVars, mirror, ruleVars, core>>,
           WorkersConsistent'
    PROVE  SafeInv'
<1>1. TypeOK /\ RowType
  BY DEF IndInv, TypeOK
<1>2. SettledMatchesState'
  BY <1>1 DEF IndInv, SettledMatchesState, RowType
<1>3. RowsConsistent'
  BY <1>1 DEF IndInv, RowsConsistent, RowType, planVars, RowEnd
<1>4. \A s \in Row : Holding(s)' <=> Holding(s)
  BY DEF Holding
<1>5. OperationsConsistent'
  <2>1. \A n \in Decision : ~MayTakeEffect(r, n)
    BY ConstantsAssumption DEF IndInv, OperationsConsistent, Decision
  <2> QED
    BY <2>1 DEF IndInv, OperationsConsistent, MayTakeEffect, planVars
<1>6. ClaimsMatch'
  BY <1>4 DEF IndInv, ClaimsMatch, claimVars
<1>7. HoldersFenced' /\ CursorFrozen' /\ NoStrandedOperation'
  BY <1>4 DEF IndInv, HoldersFenced, CursorFrozen, NoStrandedOperation, RuleMatches,
    claimVars, ruleVars, planVars, birthVars
<1>8. OutcomeFaithful'
  BY <1>1 DEF IndInv, OutcomeFaithful, RowType
<1> QED
  BY <1>2, <1>3, <1>5, <1>6, <1>7, <1>8 DEF SafeInv

\* A row is inserted.
LEMMA RowInserted ==
    ASSUME IndInv, NEW r \in Row, state[r] = "absent", InsertRow(r)
    PROVE  SafeInv'
<1>1. TypeOK /\ RowType
  BY DEF IndInv, TypeOK
<1>2. op[r] = 0 /\ r \notin settled
  BY DEF IndInv, RowsConsistent, SettledMatchesState, RowEnd
<1>3. UNCHANGED <<op, settled, lease, decided, kind, basis, claimVars, mirror, ruleVars, core>>
  BY DEF InsertRow, planVars, coreVars
<1>4. SettledMatchesState' /\ RowsConsistent'
  BY <1>1, <1>2, <1>3 DEF InsertRow, IndInv, SettledMatchesState, RowsConsistent, RowType, RowEnd
<1>5. OperationsConsistent' /\ ClaimsMatch' /\ CursorFrozen' /\ NoStrandedOperation'
  BY <1>3, IndFrame DEF IndInv, claimVars
<1>6. HoldersFenced'
  BY <1>1, <1>2, <1>3 DEF IndInv, HoldersFenced, Holding, RuleMatches, InsertRow, RowType, ruleVars
<1>7. OutcomeFaithful'
  BY <1>1, <1>2, <1>3 DEF IndInv, OutcomeFaithful, InsertRow, RowType
<1>8. LeasesShrink(NoWorker)
  BY <1>1, <1>3, ConstantsAssumption DEF LeasesShrink, RowType
<1>9. WorkersConsistent'
  BY <1>1, <1>3, <1>8, CoreStill, WorkersIdle DEF InsertRow, IndInv
<1> QED
  BY <1>4, <1>5, <1>6, <1>7, <1>9 DEF SafeInv

\* A worker claims an open row.
LEMMA LeaseTaken ==
    ASSUME IndInv, NEW w \in Worker, NEW r \in Row, pc[w] = "idle", state[r] = "open",
           TakeLease(w, r)
    PROVE  SafeInv'
<1>1. TypeOK /\ RowType /\ WorkerType
  BY DEF IndInv, TypeOK
<1>2. UNCHANGED <<state, op, settled, decided, kind, basis, epoch, claimVars, mirror, ruleVars,
                  core>>
  BY DEF TakeLease, planVars, birthVars, coreVars
<1>3. /\ SettledMatchesState' /\ OperationsConsistent' /\ ClaimsMatch' /\ HoldersFenced'
      /\ CursorFrozen' /\ NoStrandedOperation' /\ OutcomeFaithful'
  BY <1>2, IndFrame DEF IndInv, claimVars, ruleVars
<1>4. RowsConsistent'
  BY <1>1, <1>2 DEF IndInv, RowsConsistent, TakeLease, RowType
<1>5. op[r] \in Nat /\ decided[r] \in Nat /\ op[r] <= decided[r]
  BY <1>1, ConstantsAssumption DEF IndInv, RowsConsistent, RowType
<1>6. WorkerConsistent(w)'
  <2>1. WorkerConsistent(w)
    BY DEF IndInv, WorkersConsistent
  <2> QED
    BY <1>1, <1>2, <1>5, <2>1 DEF WorkerConsistent, TakeLease, WorkerType
<1>7. LeasesShrink(w)
  BY <1>1, <1>2, ConstantsAssumption DEF LeasesShrink, RowType, TakeLease
<1>8. ASSUME NEW x \in Worker \ {w} PROVE WorkerConsistent(x)'
  <2>1. pc'[x] = pc[x] /\ wrow'[x] = wrow[x] /\ wop'[x] = wop[x] /\ seen'[x] = seen[x]
    BY <1>1 DEF TakeLease, WorkerType
  <2> QED
    BY <1>1, <1>2, <1>7, <2>1, CoreStill, OtherWorker DEF IndInv
<1> QED
  BY <1>3, <1>4, <1>6, <1>8 DEF SafeInv, WorkersConsistent

\* A decision is frozen together with its claims.
LEMMA DecisionFrozen ==
    ASSUME IndInv, NEW w \in Worker, PlanDecide(w)
    PROVE  SafeInv'
<1>a. PICK r \in Row : r = wrow[w]
  BY DEF IndInv, TypeOK, WorkerType, PlanDecide
<1>b. PICK n \in Decision : n = decided[r] + 1
  BY <1>a DEF PlanDecide
<1>1. /\ TypeOK /\ RowType /\ WorkerType /\ ClaimType
      /\ r \in Row /\ r # NoRow /\ pc[w] = "plan" /\ lease[r] = w /\ w # NoWorker
  BY <1>a, ConstantsAssumption DEF IndInv, TypeOK, PlanDecide, Leased
<1>2. op[r] = 0 /\ state[r] = "open" /\ r \notin settled
  BY <1>a, <1>1, LeasedOpen DEF IndInv, WorkersConsistent, WorkerConsistent, PlanDecide
<1>3. n \in Decision /\ n \in Nat /\ n # 0 /\ decided[r] \in Nat
  BY <1>b, <1>1, ConstantsAssumption DEF Decision, RowType
<1>4. /\ op' = [op EXCEPT ![r] = n] /\ decided' = [decided EXCEPT ![r] = n]
      /\ basis' = [basis EXCEPT ![r] = cursor[GroupOf[r]]]
      /\ state' = [state EXCEPT ![r] = "open"]
      /\ groupClaim' = [groupClaim EXCEPT ![GroupOf[r]] = r]
      /\ leadClaim' = [leadClaim EXCEPT ![LeadOf[r]] = r]
      /\ UNCHANGED <<settled, lease, epoch, cursor, mirror, mode, ruleEpoch, core>>
  BY <1>a, <1>b DEF PlanDecide, birthVars, ruleVars, coreVars
<1>5. kind'[r] # "none" /\ \A s \in Row \ {r} : kind'[s] = kind[s]
  <2>1. PICK plan \in Plans(r) : kind' = [kind EXCEPT ![r] = plan[1]]
    BY <1>a DEF PlanDecide
  <2>2. plan[1] \in {"assign", "keep"}
    BY PlansType
  <2> QED
    BY <1>1, <2>1, <2>2 DEF RowType
<1>6. SettledMatchesState' /\ RowsConsistent'
  BY <1>1, <1>2, <1>3, <1>4, <1>5
    DEF IndInv, SettledMatchesState, RowsConsistent, RowType, RowEnd
<1>7. \A m \in Decision : /\ ~MayTakeEffect(r, m)
                          /\ core[r][m] \notin {"applying", "confirming"} \cup Attempted
  BY <1>1, <1>2, ConstantsAssumption DEF IndInv, OperationsConsistent, Decision
<1>8. core[r][n] = "none" /\ mirror[r][n] = "none"
  BY <1>b, <1>1, <1>3 DEF IndInv, OperationsConsistent
<1>9. OperationsConsistent'
  <2>1. ASSUME NEW m \in Decision
        PROVE  /\ m > decided'[r] => core'[r][m] = "none" /\ mirror'[r][m] = "none"
               /\ MayTakeEffect(r, m)' => op'[r] = m /\ r \notin settled'
               /\ core'[r][m] \notin {"applying", "confirming"} \cup Attempted
    <3>1. decided'[r] = n /\ op'[r] = n /\ m \in Nat
      BY <1>1, <1>4, ConstantsAssumption DEF RowType, Decision
    <3>2. m > n => core[r][m] = "none" /\ mirror[r][m] = "none"
      BY <1>b, <1>1, <1>3, <3>1 DEF IndInv, OperationsConsistent
    <3>3. m <= n /\ core[r][m] \notin CoreEnd => m = n
      BY <1>b, <1>3, <1>7, <3>1 DEF MayTakeEffect
    <3> QED
      BY <1>2, <1>4, <1>7, <3>1, <3>2, <3>3 DEF MayTakeEffect
  <2>2. ASSUME NEW s \in Row \ {r}
        PROVE  decided'[s] = decided[s] /\ op'[s] = op[s] /\ kind'[s] = kind[s]
    BY <1>1, <1>4, <1>5 DEF RowType
  <2> QED
    BY <1>4, <2>1, <2>2 DEF IndInv, OperationsConsistent, MayTakeEffect
<1>10. /\ Holding(r)' /\ ~Holding(r)
       /\ \A s \in Row \ {r} : Holding(s)' <=> Holding(s)
  BY <1>1, <1>2, <1>3, <1>4 DEF Holding, RowType
<1>11. /\ leadClaim[LeadOf[r]] = NoRow /\ groupClaim[GroupOf[r]] = NoRow
       /\ LeadOf[r] \in Lead /\ GroupOf[r] \in Group
  BY <1>a, <1>1, <1>10, ConstantsAssumption DEF IndInv, ClaimsMatch, PlanDecide, ClaimsAvailable
<1>12. ClaimsMatch'
  <2>1. ASSUME NEW l \in Lead, NEW s \in Row
        PROVE  leadClaim'[l] = s <=> LeadOf[s] = l /\ Holding(s)'
    BY <1>1, <1>4, <1>10, <1>11, ConstantsAssumption DEF IndInv, ClaimsMatch, ClaimType
  <2>2. ASSUME NEW g \in Group, NEW s \in Row
        PROVE  groupClaim'[g] = s <=> GroupOf[s] = g /\ Holding(s)'
    BY <1>1, <1>4, <1>10, <1>11, ConstantsAssumption DEF IndInv, ClaimsMatch, ClaimType
  <2> QED
    BY <2>1, <2>2 DEF ClaimsMatch
<1>13. HoldersFenced' /\ CursorFrozen'
  BY <1>a, <1>1, <1>4, <1>10
    DEF IndInv, HoldersFenced, CursorFrozen, RuleMatches, PlanDecide, RowType
<1>14. NoStrandedOperation'
  BY <1>1, <1>4, <1>8, <1>10 DEF IndInv, NoStrandedOperation, RowType
<1>15. OutcomeFaithful'
  BY <1>1, <1>2, <1>4 DEF IndInv, OutcomeFaithful, RowType
<1>16. WorkerConsistent(w)'
  <2>1. seen[w] \notin CoreEnd
    BY <1>1 DEF IndInv, WorkersConsistent, WorkerConsistent
  <2>2. pc'[w] = "decided" /\ wop'[w] = n /\ wrow' = wrow /\ seen' = seen /\ decided'[r] = n
    BY <1>a, <1>b, <1>1, <1>4 DEF PlanDecide, WorkerType, RowType
  <2> QED
    BY <1>a, <1>3, <2>1, <2>2 DEF WorkerConsistent
<1>17. LeasesShrink(w)
  <2>1. \A s \in Row : s # r => op'[s] = op[s] /\ decided'[s] = decided[s]
    BY <1>1, <1>4 DEF RowType
  <2>2. \A s \in Row : decided[s] \in Nat
    BY <1>1, ConstantsAssumption DEF RowType
  <2>3. decided'[r] = n
    BY <1>1, <1>4 DEF RowType
  <2> QED
    BY <1>b, <1>1, <1>3, <1>4, <2>1, <2>2, <2>3 DEF LeasesShrink
<1>18. ASSUME NEW x \in Worker \ {w} PROVE WorkerConsistent(x)'
  <2>1. pc'[x] = pc[x] /\ wrow'[x] = wrow[x] /\ wop'[x] = wop[x] /\ seen'[x] = seen[x]
    BY <1>1 DEF PlanDecide, WorkerType
  <2> QED
    BY <1>1, <1>4, <1>17, <2>1, CoreStill, OtherWorker DEF IndInv
<1> QED
  BY <1>6, <1>9, <1>12, <1>13, <1>14, <1>15, <1>16, <1>18 DEF SafeInv, WorkersConsistent

\* A user retries a settled row that Core never acted on.
LEMMA RowRetried ==
    ASSUME IndInv, NEW r \in Row, UserRetry(r)
    PROVE  SafeInv'
<1>1. TypeOK /\ RowType /\ r \in settled
  BY DEF IndInv, TypeOK, UserRetry, DistributionRetrySafe
<1>2. /\ op' = [op EXCEPT ![r] = 0] /\ kind' = [kind EXCEPT ![r] = "none"]
      /\ state' = [state EXCEPT ![r] = "open"] /\ lease' = [lease EXCEPT ![r] = NoWorker]
      /\ basis' = [basis EXCEPT ![r] = 0] /\ settled' = settled \ {r}
      /\ UNCHANGED <<decided, epoch, claimVars, mirror, ruleVars, workerVars, core>>
  BY DEF UserRetry, ClearDecision, birthVars, coreVars
<1>3. SettledMatchesState' /\ RowsConsistent'
  BY <1>1, <1>2 DEF IndInv, SettledMatchesState, RowsConsistent, RowType, RowEnd
<1>4. \A m \in Decision : /\ ~MayTakeEffect(r, m)
                          /\ core[r][m] \notin {"applying", "confirming"} \cup Attempted
  <2>1. \A m \in Decision : ~MayTakeEffect(r, m)
    BY <1>1 DEF IndInv, OperationsConsistent
  <2>2. ASSUME NEW m \in Decision, core[r][m] \in {"applying", "confirming"} \cup Attempted
        PROVE  FALSE
    <3>1. op[r] = m /\ op[r] # 0
      BY <2>2, ConstantsAssumption DEF IndInv, OperationsConsistent, Decision
    <3>2. core[r][m] \in NoAttempt
      BY <3>1 DEF UserRetry, DistributionRetrySafe
    <3> QED
      BY <2>2, <3>2 DEF NoAttempt, Attempted
  <2> QED
    BY <2>1, <2>2
<1>5. OperationsConsistent'
  <2>1. ASSUME NEW m \in Decision
        PROVE  /\ m > decided'[r] => core'[r][m] = "none" /\ mirror'[r][m] = "none"
               /\ ~MayTakeEffect(r, m)'
               /\ core'[r][m] \notin {"applying", "confirming"} \cup Attempted
    BY <1>2, <1>4 DEF IndInv, OperationsConsistent, MayTakeEffect
  <2>2. ASSUME NEW s \in Row \ {r}
        PROVE  op'[s] = op[s] /\ kind'[s] = kind[s] /\ (s \in settled' <=> s \in settled)
    BY <1>1, <1>2 DEF RowType
  <2> QED
    BY <1>2, <2>1, <2>2 DEF IndInv, OperationsConsistent, MayTakeEffect
<1>6. \A s \in Row : Holding(s)' <=> Holding(s)
  BY <1>1, <1>2 DEF Holding, RowType
<1>7. ClaimsMatch'
  BY <1>2, <1>6 DEF IndInv, ClaimsMatch, claimVars
<1>8. \A s \in Row : Holding(s) => s # r /\ op'[s] = op[s] /\ basis'[s] = basis[s]
  BY <1>1, <1>2 DEF Holding, RowType
<1>9. HoldersFenced' /\ CursorFrozen' /\ NoStrandedOperation'
  BY <1>2, <1>6, <1>8 DEF IndInv, HoldersFenced, CursorFrozen, NoStrandedOperation,
    RuleMatches, claimVars, ruleVars
<1>10. OutcomeFaithful'
  BY <1>1, <1>2 DEF IndInv, OutcomeFaithful, RowType
<1>11. LeasesShrink(NoWorker)
  BY <1>1, <1>2, ConstantsAssumption DEF LeasesShrink, RowType
<1>12. WorkersConsistent'
  BY <1>2, <1>11, CoreStill, WorkersIdle DEF IndInv
<1> QED
  BY <1>3, <1>5, <1>7, <1>9, <1>10, <1>12 DEF SafeInv

\* settleRuntimeOperation releases exactly the claims of its row.
LEMMA ClaimsReleased ==
    ASSUME IndInv, NEW r \in Row, NEW end, Holding(r),
           ReleaseDistributionLeadClaim(r), ReleaseDistributionGroupClaim(r, end)
    PROVE  /\ leadClaim' = [leadClaim EXCEPT ![LeadOf[r]] = NoRow]
           /\ groupClaim' = [groupClaim EXCEPT ![GroupOf[r]] = NoRow]
           /\ leadClaim[LeadOf[r]] = r /\ groupClaim[GroupOf[r]] = r
           /\ \A g \in Group \ {GroupOf[r]} : cursor'[g] = cursor[g]
<1>1. /\ ClaimType /\ ClaimsMatch /\ r # NoRow
      /\ LeadOf[r] \in Lead /\ GroupOf[r] \in Group
  BY ConstantsAssumption DEF IndInv, TypeOK
<1>2. leadClaim[LeadOf[r]] = r /\ groupClaim[GroupOf[r]] = r
  BY <1>1 DEF ClaimsMatch
<1>3. \A l \in Lead \ {LeadOf[r]} : leadClaim[l] # r
  BY <1>1 DEF ClaimsMatch
<1>4. leadClaim' = [leadClaim EXCEPT ![LeadOf[r]] = NoRow]
  BY <1>1, <1>2, <1>3 DEF ReleaseDistributionLeadClaim, ClaimType
<1>5. /\ groupClaim' = [groupClaim EXCEPT ![GroupOf[r]] = NoRow]
      /\ \A g \in Group \ {GroupOf[r]} : cursor'[g] = cursor[g]
  BY <1>1, <1>2 DEF ReleaseDistributionGroupClaim, ClaimType
<1> QED
  BY <1>2, <1>4, <1>5

\* settleRuntimeOperation for the operation that the row holds: the row is
\* settled, or it is open again and undecided.
LEMMA OperationSettled ==
    ASSUME IndInv, NEW r \in Row, NEW n \in Decision, NEW st \in CoreEnd,
           core[r][n] = st, op[r] = n, r \notin settled,
           SettleRuntimeOperation(r, n, st),
           mirror' = [mirror EXCEPT ![r][n] = "finished"],
           UNCHANGED <<core, mode, ruleEpoch>>
    PROVE  /\ SettledMatchesState' /\ RowsConsistent' /\ OperationsConsistent'
           /\ ClaimsMatch' /\ HoldersFenced' /\ CursorFrozen'
           /\ NoStrandedOperation' /\ OutcomeFaithful'
           /\ \A w : LeasesShrink(w)
<1> DEFINE end == EndState(r, st)
<1>1. TypeOK /\ RowType /\ ClaimType /\ MirrorType /\ n # 0 /\ n \in Nat
  BY ConstantsAssumption DEF IndInv, TypeOK, Decision
<1>2. Holding(r) /\ state[r] \notin RowEnd /\ kind[r] \in {"assign", "keep"} /\ decided[r] = n
  BY <1>1 DEF Holding, IndInv, SettledMatchesState, RowsConsistent, RowType
<1>3. UNCHANGED <<decided, epoch>>
  BY DEF SettleRuntimeOperation, ClearDecision, planVars, birthVars
<1>4. \/ /\ Recalculates(r, st)
         /\ op' = [op EXCEPT ![r] = 0] /\ kind' = [kind EXCEPT ![r] = "none"]
         /\ basis' = [basis EXCEPT ![r] = 0]
         /\ state' = [state EXCEPT ![r] = "open"]
         /\ lease' = [lease EXCEPT ![r] = NoWorker] /\ settled' = settled
      \/ /\ UNCHANGED <<op, kind, basis>>
         /\ state' = [state EXCEPT ![r] = end]
         /\ lease' = [lease EXCEPT ![r] = NoWorker] /\ settled' = settled \cup {r}
  BY DEF SettleRuntimeOperation, ClearDecision, SettleRow, planVars
<1>5. /\ leadClaim' = [leadClaim EXCEPT ![LeadOf[r]] = NoRow]
      /\ groupClaim' = [groupClaim EXCEPT ![GroupOf[r]] = NoRow]
      /\ leadClaim[LeadOf[r]] = r /\ groupClaim[GroupOf[r]] = r
      /\ \A g \in Group \ {GroupOf[r]} : cursor'[g] = cursor[g]
  BY <1>2, ClaimsReleased DEF SettleRuntimeOperation
<1>6. \A s \in Row \ {r} : /\ op'[s] = op[s] /\ kind'[s] = kind[s] /\ basis'[s] = basis[s]
                           /\ state'[s] = state[s] /\ lease'[s] = lease[s]
                           /\ mirror'[s] = mirror[s]
                           /\ s \in settled' <=> s \in settled
  BY <1>1, <1>4 DEF RowType, MirrorType
<1>7. end \in RowEnd
  BY DEF EndState, RowEnd
<1>8. ~Holding(r)' /\ \A s \in Row \ {r} : Holding(s)' <=> Holding(s)
  BY <1>1, <1>4, <1>6 DEF Holding, RowType
<1>9. SettledMatchesState'
  BY <1>1, <1>4, <1>6, <1>7 DEF IndInv, SettledMatchesState, RowType, RowEnd
<1>10. RowsConsistent'
  <2>1. /\ op'[r] \in {0, decided'[r]}
        /\ op'[r] # 0 => state'[r] # "absent" /\ kind'[r] # "none"
        /\ lease'[r] = NoWorker
    BY <1>1, <1>2, <1>3, <1>4, <1>7 DEF RowType, RowEnd
  <2> QED
    BY <1>3, <1>6, <2>1 DEF IndInv, RowsConsistent
<1>11. OperationsConsistent'
  <2>1. ASSUME NEW m \in Decision
        PROVE  /\ ~MayTakeEffect(r, m)
               /\ core[r][m] \in {"applying", "confirming"} \cup Attempted => m = n
    BY DEF IndInv, OperationsConsistent, MayTakeEffect
  <2>2. ASSUME NEW m \in Decision
        PROVE  /\ m > decided'[r] => core'[r][m] = "none" /\ mirror'[r][m] = "none"
               /\ ~MayTakeEffect(r, m)'
               /\ core'[r][m] \in {"applying", "confirming"} \cup Attempted
                   => op'[r] = m /\ kind'[r] = "assign"
    <3>1. m > decided'[r] => core'[r][m] = "none" /\ mirror'[r][m] = "none"
      <4>1. m > n => m # n
        BY <1>1
      <4> QED
        BY <1>1, <1>2, <1>3, <4>1 DEF IndInv, OperationsConsistent, MirrorType
    <3>2. ~MayTakeEffect(r, m)'
      BY <1>3, <2>1 DEF MayTakeEffect
    <3>3. CASE Recalculates(r, st)
      BY <2>1, <3>1, <3>2, <3>3 DEF Recalculates, Attempted
    <3>4. CASE UNCHANGED <<op, kind>>
      BY <2>1, <3>1, <3>2, <3>4 DEF IndInv, OperationsConsistent
    <3> QED
      BY <1>4, <3>3, <3>4
  <2> QED
    BY <1>3, <1>6, <2>2 DEF IndInv, OperationsConsistent, MayTakeEffect
<1>12. ClaimsMatch'
  <2>1. ASSUME NEW l \in Lead, NEW s \in Row
        PROVE  leadClaim'[l] = s <=> LeadOf[s] = l /\ Holding(s)'
    BY <1>1, <1>5, <1>8, ConstantsAssumption DEF IndInv, ClaimsMatch, ClaimType
  <2>2. ASSUME NEW g \in Group, NEW s \in Row
        PROVE  groupClaim'[g] = s <=> GroupOf[s] = g /\ Holding(s)'
    BY <1>1, <1>5, <1>8, ConstantsAssumption DEF IndInv, ClaimsMatch, ClaimType
  <2> QED
    BY <2>1, <2>2 DEF ClaimsMatch
<1>13. HoldersFenced' /\ NoStrandedOperation'
  BY <1>3, <1>6, <1>8 DEF IndInv, HoldersFenced, NoStrandedOperation, RuleMatches
<1>14. CursorFrozen'
  <2> SUFFICES ASSUME NEW s \in Row, Holding(s)' PROVE basis'[s] = cursor'[GroupOf[s]]
    BY DEF CursorFrozen
  <2>1. s # r /\ Holding(s) /\ GroupOf[s] \in Group
    BY <1>8, ConstantsAssumption
  <2>2. GroupOf[s] # GroupOf[r]
    BY <1>5, <2>1 DEF IndInv, ClaimsMatch
  <2> QED
    BY <1>5, <1>6, <2>1, <2>2 DEF IndInv, CursorFrozen
<1>15. OutcomeFaithful'
  <2>1. ASSUME r \in settled', op'[r] # 0
        PROVE  /\ core'[r][op'[r]] \in CoreEnd
               /\ state'[r] \in {"confirmed", "kept"}
                   <=> core'[r][op'[r]] \in {"succeeded", "no_change"}
    <3>1. op'[r] = n /\ state'[r] = end
      BY <1>1, <1>4, <2>1 DEF RowType
    <3>2. st = "succeeded" => kind[r] = "assign"
      BY DEF IndInv, OperationsConsistent, Attempted
    <3> QED
      BY <1>2, <3>1, <3>2 DEF EndState
  <2>2. settled' \subseteq Row
    BY <1>1, <1>4 DEF RowType
  <2>3. ASSUME NEW s \in settled', s # r, op'[s] # 0
        PROVE  /\ core'[s][op'[s]] \in CoreEnd
               /\ state'[s] \in {"confirmed", "kept"}
                   <=> core'[s][op'[s]] \in {"succeeded", "no_change"}
    <3>1. s \in settled /\ op'[s] = op[s] /\ state'[s] = state[s]
      BY <1>6, <2>2, <2>3
    <3> QED
      BY <2>3, <3>1 DEF IndInv, OutcomeFaithful
  <2> QED
    BY <2>1, <2>3 DEF OutcomeFaithful
<1>16. ASSUME NEW w PROVE LeasesShrink(w)
  <2>1. lease'[r] = NoWorker
    BY <1>1, <1>4 DEF RowType
  <2> QED
    BY <1>1, <1>3, <1>6, <2>1, ConstantsAssumption DEF LeasesShrink, RowType
<1> QED
  BY <1>9, <1>10, <1>11, <1>12, <1>13, <1>14, <1>15, <1>16

\* A terminal result, applied by a worker or by the result inbox.
LEMMA ResultApplied ==
    ASSUME IndInv, NEW r \in Row, NEW n \in Decision, NEW st \in CoreEnd,
           core[r][n] = st, n <= decided[r],
           SettleRuntimeOperation(r, n, st),
           mirror' = [mirror EXCEPT ![r][n] = "finished"],
           UNCHANGED <<core, mode, ruleEpoch>>
    PROVE  /\ SettledMatchesState' /\ RowsConsistent' /\ OperationsConsistent'
           /\ ClaimsMatch' /\ HoldersFenced' /\ CursorFrozen'
           /\ NoStrandedOperation' /\ OutcomeFaithful'
           /\ \A w : LeasesShrink(w)
<1>1. CASE op[r] = n /\ r \notin settled
  BY <1>1, OperationSettled
<1>2. CASE ~(op[r] = n /\ r \notin settled)
  <2>1. /\ UNCHANGED <<state, settled, op, lease, decided, kind, basis, epoch>>
        /\ UNCHANGED claimVars
    BY <1>2 DEF SettleRuntimeOperation, rowVars, queueVars, planVars, birthVars
  <2>2. /\ SettledMatchesState' /\ RowsConsistent' /\ ClaimsMatch' /\ HoldersFenced'
        /\ CursorFrozen' /\ OutcomeFaithful'
    BY <2>1, IndFrame DEF IndInv, claimVars
  <2>3. \A s \in Row, m \in Decision :
          mirror'[s][m] = IF s = r /\ m = n THEN "finished" ELSE mirror[s][m]
    BY DEF IndInv, TypeOK, MirrorType
  <2>4. NoStrandedOperation'
    <3>1. \A s \in Row : Holding(s) => op[s] \in Decision
      BY ConstantsAssumption DEF IndInv, TypeOK, RowType, Holding, Decision
    <3> QED
      BY <1>2, <2>1, <2>3, <3>1 DEF IndInv, NoStrandedOperation, Holding
  <2>5. OperationsConsistent'
    <3>1. ~(n > decided[r])
      BY ConstantsAssumption DEF IndInv, TypeOK, RowType, Decision
    <3> QED
      BY <2>1, <2>3, <3>1 DEF IndInv, OperationsConsistent, MayTakeEffect
  <2>6. \A w : LeasesShrink(w)
    BY <2>1, ConstantsAssumption DEF LeasesShrink, IndInv, TypeOK, RowType
  <2> QED
    BY <2>2, <2>4, <2>5, <2>6
<1> QED
  BY <1>1, <1>2

--------------------------------------------------------------------------------
(***************************************************************************)
(* One lemma per group of actions.                                         *)
(***************************************************************************)

\* Claiming and planning.
LEMMA SafePlan ==
    ASSUME IndInv, NEW w \in Worker,
           \/ \E r \in Row : ClaimDistributionManualAssignment(w, r)
           \/ \E r \in Row : ClaimDistributionQueue(w, r)
           \/ LeaseLost(w) \/ Abandon(w)
           \/ PlanExpired(w) \/ PlanCancelled(w) \/ PlanWait(w) \/ PlanDecide(w)
           \/ RelockLease(w)
    PROVE  SafeInv'
<1>1. CASE \E r \in Row : ClaimDistributionManualAssignment(w, r)
  BY <1>1, LeaseTaken DEF ClaimDistributionManualAssignment
<1>2. CASE \E r \in Row : ClaimDistributionQueue(w, r)
  BY <1>2, LeaseTaken DEF ClaimDistributionQueue
<1>3. CASE LeaseLost(w) \/ Abandon(w) \/ RelockLease(w)
  <2>1. /\ UNCHANGED <<state, settled, op, lease, decided, kind, basis, epoch, claimVars,
                       mirror, mode, ruleEpoch, core>>
        /\ pc[w] # "idle"
    BY <1>3 DEF LeaseLost, Abandon, RelockLease, rowVars, queueVars, planVars, birthVars,
      ruleVars, coreVars
  <2>2. CoreMonotone /\ OperationsConsistent'
    BY <2>1, CoreStill, IndFrame DEF IndInv
  <2>3. LeasesShrink(w)
    BY <2>1, ConstantsAssumption DEF LeasesShrink, IndInv, TypeOK, RowType
  <2>4. WorkersConsistent'
    <3>1. CASE EndPass(w)
      BY <2>2, <2>3, <3>1, PassEnds DEF IndInv
    <3>2. CASE RelockLease(w)
      BY <2>1, <2>2, <3>2, PassMoves DEF IndInv, RelockLease
    <3> QED
      BY <1>3, <3>1, <3>2 DEF LeaseLost, Abandon
  <2> QED
    BY <2>1, <2>2, <2>4, RowsStill
<1>4. CASE PlanExpired(w) \/ PlanCancelled(w)
  <2>1. PICK r \in Row : r = wrow[w] /\ lease[r] = w /\ op[r] = 0 /\ pc[w] = "plan"
    BY <1>4 DEF IndInv, TypeOK, WorkerType, WorkersConsistent, WorkerConsistent, Leased,
      PlanExpired, PlanCancelled
  <2>2. /\ state' = [state EXCEPT ![r] = "cancelled"]
        /\ settled' = settled \cup {r}
        /\ lease' = [lease EXCEPT ![r] = NoWorker]
        /\ UNCHANGED <<op, planVars, birthVars, claimVars, mirror, ruleVars, core>>
        /\ EndPass(w)
    BY <1>4, <2>1 DEF PlanExpired, PlanCancelled, SettleRow, coreVars
  <2>3. LeasesShrink(w)
    BY <2>1, <2>2, ConstantsAssumption DEF LeasesShrink, IndInv, TypeOK, RowType, planVars
  <2>4. WorkersConsistent'
    BY <2>2, <2>3, CoreStill, PassEnds DEF IndInv
  <2>5. "cancelled" \in RowEnd
    BY DEF RowEnd
  <2> QED
    BY <2>1, <2>2, <2>4, <2>5, UndecidedSettles
<1>5. CASE PlanWait(w)
  <2>1. CoreMonotone /\ OperationsConsistent'
    BY <1>5, CoreStill, IndFrame DEF IndInv, PlanWait, QueueState, rowVars, queueVars,
      planVars, coreVars
  <2> QED
    BY <1>5, <2>1, RowPostponed DEF PlanWait
<1>6. CASE PlanDecide(w)
  BY <1>6, DecisionFrozen
<1> QED
  BY <1>1, <1>2, <1>3, <1>4, <1>5, <1>6

\* The conversation with Core.
LEMMA SafeResume ==
    ASSUME IndInv, NEW w \in Worker,
           \/ QueryFound(w) \/ QueryMissing(w) \/ QueryFails(w)
           \/ ExpireAssignment(w) \/ ExpireFails(w)
           \/ GateAllows(w) \/ GateDenies(w)
           \/ SendAssign(w) \/ AssignReply(w) \/ AssignFails(w)
           \/ ValidatePasses(w) \/ ControlCancel(w) \/ ControlCancelFails(w)
           \/ ControlReconcile(w)
    PROVE  SafeInv'
<1>1. /\ pc[w] \notin {"idle", "plan"}
      /\ UNCHANGED <<claimVars, mirror, ruleVars>>
      /\ UNCHANGED <<settled, op, decided, kind, basis, epoch>>
  BY DEF QueryFound, QueryMissing, QueryFails, ExpireAssignment, ExpireFails, GateAllows,
    GateDenies, SendAssign, AssignReply, AssignFails, ValidatePasses, ControlCancel,
    ControlCancelFails, ControlReconcile, CancelWanted, QueueState,
    rowVars, queueVars, planVars, birthVars
<1>2. \/ UNCHANGED core
      \/ core' = Tombstone(wrow[w], wop[w])
      \/ core' = [core EXCEPT ![wrow[w]][wop[w]] = IF @ = "none" THEN "transit" ELSE @]
      \/ CancelAccepted(w)
  BY DEF QueryFound, QueryMissing, QueryFails, ExpireAssignment, ExpireFails, GateAllows,
    GateDenies, SendAssign, AssignReply, AssignFails, ValidatePasses, ControlCancel,
    ControlCancelFails, ControlReconcile, coreVars
<1>3. OperationsConsistent' /\ CoreMonotone
  BY <1>1, <1>2, WorkerCallsCore
<1>4. CASE QueryFails(w) \/ ExpireFails(w) \/ GateDenies(w) \/ AssignFails(w)
           \/ ControlCancelFails(w)
  <2>1. EndPass(w) /\ \E cancel \in BOOLEAN : QueueState(w, cancel)
    BY <1>4 DEF QueryFails, ExpireFails, GateDenies, AssignFails, ControlCancelFails
  <2> QED
    BY <1>1, <1>3, <2>1, RowPostponed
<1>5. CASE QueryFound(w) \/ QueryMissing(w) \/ ExpireAssignment(w) \/ GateAllows(w)
           \/ SendAssign(w) \/ AssignReply(w) \/ ValidatePasses(w) \/ ControlCancel(w)
           \/ ControlReconcile(w)
  <2>1. UNCHANGED <<state, settled, op, lease, decided, kind, basis, epoch>>
    BY <1>5 DEF QueryFound, QueryMissing, ExpireAssignment, GateAllows, SendAssign,
      AssignReply, ValidatePasses, ControlCancel, ControlReconcile,
      rowVars, queueVars, planVars, birthVars
  <2>2. \/ Observe(w, "validate") \/ Observe(w, "apply")
        \/ Goto(w, "apply")
        \/ /\ pc[w] \notin {"validate", "apply"}
           /\ Goto(w, "expire") \/ Goto(w, "gate") \/ Goto(w, "assign") \/ Goto(w, "sent")
    BY <1>5 DEF QueryFound, QueryMissing, ExpireAssignment, GateAllows, SendAssign,
      AssignReply, ValidatePasses, ControlCancel, ControlReconcile
  <2>3. WorkersConsistent'
    <3>1. \E label :
            \/ /\ Goto(w, label)
               /\ label \in {"query", "expire", "gate", "assign", "sent", "apply"}
               /\ pc[w] \in {"validate", "apply"} => label = "apply"
            \/ Observe(w, label) /\ label \in {"validate", "apply"}
      BY <2>2
    <3> QED
      BY <1>1, <1>3, <2>1, <3>1, PassMoves DEF IndInv
  <2> QED
    BY <1>1, <1>3, <2>1, <2>3, RowsStill DEF ruleVars
<1> QED
  BY <1>4, <1>5

\* An unfinished operation is registered and its row postponed.
LEMMA SafeApplyUnfinished ==
    ASSUME IndInv, NEW w \in Worker, ApplyUnfinished(w)
    PROVE  SafeInv'
<1>1. PICK r \in Row, n \in Decision : r = wrow[w] /\ n = wop[w]
  BY DEF IndInv, TypeOK, WorkerType, ApplyUnfinished
<1>2. /\ lease[r] # NoWorker /\ n <= decided[r] /\ pc[w] # "idle"
      /\ UNCHANGED <<claimVars, ruleVars, core>> /\ EndPass(w)
  BY <1>1, ConstantsAssumption DEF ApplyUnfinished, Leased, IndInv, WorkersConsistent,
    WorkerConsistent, coreVars
<1>3. r \notin settled
  BY <1>2, LeasedOpen
<1>4. /\ mirror' = [mirror EXCEPT ![r][n] = IF @ = "none" THEN "unfinished" ELSE @]
      /\ QueueState(w, w \in seenCancel)
  BY <1>1, <1>3 DEF ApplyUnfinished
<1>5. \A s \in Row, m \in Decision :
        mirror'[s][m] = IF s = r /\ m = n /\ mirror[r][n] = "none"
                        THEN "unfinished" ELSE mirror[s][m]
  BY <1>4 DEF IndInv, TypeOK, MirrorType
<1>6. UNCHANGED <<settled, op, decided, kind, basis, epoch>>
  BY <1>4 DEF QueueState, rowVars, queueVars, planVars, birthVars
<1>7. OperationsConsistent'
  <2>1. ~(n > decided[r])
    BY <1>2, ConstantsAssumption DEF IndInv, TypeOK, RowType, Decision
  <2> QED
    BY <1>2, <1>5, <1>6, <2>1 DEF IndInv, OperationsConsistent, MayTakeEffect
<1>8. NoStrandedOperation'
  <2>1. \A s \in Row : Holding(s) => op[s] \in Decision
    BY ConstantsAssumption DEF IndInv, TypeOK, RowType, Holding, Decision
  <2> QED
    BY <1>5, <1>6, <2>1 DEF IndInv, NoStrandedOperation, Holding
<1>9. /\ \A s \in Row : lease'[s] \in {lease[s], NoWorker}
      /\ \A s \in Row : state'[s] = state[s]
  <2>1. r # NoRow /\ lease[r] = w /\ state[r] = "open"
    BY <1>1, <1>2, LeasedOpen, ConstantsAssumption DEF ApplyUnfinished, Leased
  <2> QED
    BY <1>1, <1>4, <2>1 DEF QueueState, Leased, IndInv, TypeOK, RowType
<1>10. SettledMatchesState' /\ RowsConsistent'
  BY <1>6, <1>9 DEF IndInv, SettledMatchesState, RowsConsistent
<1>11. ClaimsMatch' /\ HoldersFenced' /\ CursorFrozen'
  BY <1>2, <1>6, IndFrame DEF IndInv, claimVars, ruleVars
<1>12. OutcomeFaithful'
  BY <1>2, <1>6, <1>9, CoreStill, OutcomeKept DEF IndInv, TypeOK, RowType
<1>13. LeasesShrink(w)
  BY <1>6, <1>9, ConstantsAssumption DEF LeasesShrink, IndInv, TypeOK, RowType
<1>14. WorkersConsistent'
  BY <1>2, <1>13, CoreStill, PassEnds DEF IndInv
<1> QED
  BY <1>7, <1>8, <1>10, <1>11, <1>12, <1>14 DEF SafeInv

\* A terminal result is applied under the lease of a worker.
LEMMA SafeApplyTerminal ==
    ASSUME IndInv, NEW w \in Worker, ApplyTerminal(w)
    PROVE  SafeInv'
<1>1. PICK r \in Row, n \in Decision : r = wrow[w] /\ n = wop[w]
  BY DEF IndInv, TypeOK, WorkerType, ApplyTerminal
<1>2. /\ seen[w] \in CoreEnd /\ core[r][n] = seen[w] /\ n <= decided[r]
      /\ UNCHANGED <<ruleVars, core>> /\ EndPass(w)
  BY <1>1 DEF ApplyTerminal, IndInv, WorkersConsistent, WorkerConsistent, coreVars
<1>3. CASE r \in settled \/ mirror[r][n] = "finished"
  <2>1. UNCHANGED <<state, settled, op, lease, decided, kind, basis, epoch, claimVars,
                    mirror, mode, ruleEpoch>>
    BY <1>1, <1>2, <1>3 DEF ApplyTerminal, rowVars, queueVars, planVars, birthVars, ruleVars
  <2>2. OperationsConsistent' /\ CoreMonotone
    BY <1>2, <2>1, CoreStill, IndFrame DEF IndInv
  <2>3. LeasesShrink(w)
    BY <2>1, ConstantsAssumption DEF LeasesShrink, IndInv, TypeOK, RowType
  <2>4. WorkersConsistent'
    BY <1>2, <2>2, <2>3, PassEnds DEF IndInv
  <2> QED
    BY <2>1, <2>2, <2>4, RowsStill
<1>4. CASE ~(r \in settled \/ mirror[r][n] = "finished")
  <2>1. /\ mirror' = [mirror EXCEPT ![r][n] = "finished"]
        /\ SettleRuntimeOperation(r, n, core[r][n])
        /\ core[r][n] \in CoreEnd
        /\ UNCHANGED <<core, mode, ruleEpoch>>
    BY <1>1, <1>2, <1>4 DEF ApplyTerminal, ruleVars
  <2>2. /\ SettledMatchesState' /\ RowsConsistent' /\ OperationsConsistent'
        /\ ClaimsMatch' /\ HoldersFenced' /\ CursorFrozen'
        /\ NoStrandedOperation' /\ OutcomeFaithful'
        /\ LeasesShrink(w)
    BY <1>2, <2>1, ResultApplied
  <2>3. WorkersConsistent'
    BY <1>2, <2>2, CoreStill, PassEnds DEF IndInv
  <2> QED
    BY <2>2, <2>3 DEF SafeInv
<1> QED
  BY <1>3, <1>4

\* A terminal result is applied by the result inbox.
LEMMA SafeApplyOperationResult ==
    ASSUME IndInv, NEW r \in Row, NEW n \in Decision, ApplyOperationResult(r, n)
    PROVE  SafeInv'
<1>1. /\ mirror' = [mirror EXCEPT ![r][n] = "finished"]
      /\ SettleRuntimeOperation(r, n, core[r][n])
      /\ core[r][n] \in CoreEnd
      /\ UNCHANGED <<core, mode, ruleEpoch, workerVars>>
  BY DEF ApplyOperationResult, ruleVars, coreVars
<1>2. n <= decided[r]
  <2>1. ~(n > decided[r])
    BY DEF ApplyOperationResult, IndInv, OperationsConsistent
  <2> QED
    BY <2>1, ConstantsAssumption DEF IndInv, TypeOK, RowType, Decision
<1>3. /\ SettledMatchesState' /\ RowsConsistent' /\ OperationsConsistent'
      /\ ClaimsMatch' /\ HoldersFenced' /\ CursorFrozen'
      /\ NoStrandedOperation' /\ OutcomeFaithful'
      /\ LeasesShrink(NoWorker)
  BY <1>1, <1>2, ResultApplied
<1>4. WorkersConsistent'
  BY <1>1, <1>3, CoreStill, WorkersIdle DEF IndInv
<1> QED
  BY <1>3, <1>4 DEF SafeInv

\* Time, users and Core's own steps.
LEMMA SafeRow ==
    ASSUME IndInv, NEW r \in Row, RowNext(r)
    PROVE  SafeInv'
<1>1. CASE AdmitDistributionEntries(r) \/ AssignDistributionObservation(r)
  BY <1>1, RowInserted DEF AdmitDistributionEntries, AssignDistributionObservation
<1>2. CASE ExpireUndispatched(r) \/ (UserCancel(r) /\ op[r] = 0)
  <2>1. /\ op[r] = 0 /\ state' = [state EXCEPT ![r] = "cancelled"]
        /\ settled' = settled \cup {r} /\ lease' = [lease EXCEPT ![r] = NoWorker]
        /\ UNCHANGED <<op, planVars, birthVars, claimVars, mirror, ruleVars, workerVars, core>>
    BY <1>2 DEF ExpireUndispatched, UserCancel, SettleRow, coreVars
  <2>2. LeasesShrink(NoWorker)
    BY <2>1, ConstantsAssumption DEF LeasesShrink, IndInv, TypeOK, RowType, planVars
  <2>3. WorkersConsistent'
    BY <2>1, <2>2, CoreStill, WorkersIdle DEF IndInv
  <2>4. "cancelled" \in RowEnd
    BY DEF RowEnd
  <2> QED
    BY <2>1, <2>3, <2>4, UndecidedSettles
<1>3. CASE RequestExpiredCancellation(r) \/ BecomesDue(r) \/ LeaseExpires(r)
           \/ DeadlinePasses(r) \/ ValidityPasses(r) \/ (UserCancel(r) /\ op[r] # 0)
  <2>1. /\ UNCHANGED <<state, settled, op, decided, kind, basis, epoch, claimVars, mirror,
                       ruleVars, workerVars, core>>
        /\ lease' = lease \/ lease' = [lease EXCEPT ![r] = NoWorker]
    BY <1>3 DEF RequestExpiredCancellation, BecomesDue, LeaseExpires, DeadlinePasses,
      ValidityPasses, UserCancel, planVars, birthVars, coreVars
  <2>2. LeasesShrink(NoWorker)
    BY <2>1, ConstantsAssumption DEF LeasesShrink, IndInv, TypeOK, RowType
  <2>3. WorkersConsistent'
    BY <2>1, <2>2, CoreStill, WorkersIdle DEF IndInv
  <2>4. RowsConsistent'
    BY <2>1 DEF IndInv, RowsConsistent, TypeOK, RowType
  <2>5. /\ SettledMatchesState' /\ OperationsConsistent' /\ ClaimsMatch' /\ HoldersFenced'
        /\ CursorFrozen' /\ NoStrandedOperation' /\ OutcomeFaithful'
    BY <2>1, IndFrame DEF IndInv, claimVars, ruleVars
  <2> QED
    BY <2>3, <2>4, <2>5 DEF SafeInv
<1>4. CASE UserRetry(r)
  BY <1>4, RowRetried
<1> QED
  BY <1>1, <1>2, <1>3, <1>4 DEF RowNext

\* Core's own steps.
LEMMA SafeCore ==
    ASSUME IndInv, NEW r \in Row, NEW n \in Decision,
           \/ CoreAdmit(r, n) \/ CoreStart(r, n) \/ CorePatch(r, n)
           \/ \E st \in NoAttempt : CoreClose(r, n, st)
           \/ \E st \in Attempted : CoreResolve(r, n, st)
    PROVE  SafeInv'
<1>1. OperationsConsistent' /\ CoreMonotone
  BY CoreMoves
<1>2. UNCHANGED <<state, settled, op, lease, decided, kind, basis, epoch, claimVars, mirror,
                  mode, ruleEpoch, workerVars>>
  BY DEF CoreAdmit, CoreStart, CorePatch, CoreClose, CoreResolve, CoreStep, rowVars,
    queueVars, planVars, birthVars, ruleVars
<1>3. LeasesShrink(NoWorker)
  BY <1>2, ConstantsAssumption DEF LeasesShrink, IndInv, TypeOK, RowType
<1>4. WorkersConsistent'
  BY <1>1, <1>2, <1>3, WorkersIdle DEF IndInv
<1> QED
  BY <1>1, <1>2, <1>4, RowsStill

\* A change of settings or of an observed entry; the mode of a rule changes only
\* when no row of the rule is unsettled.
LEMMA SafeSettings ==
    ASSUME IndInv, SettingsNext \/ UNCHANGED vars
    PROVE  SafeInv'
<1>1. UNCHANGED <<state, settled, op, lease, decided, kind, basis, epoch, claimVars, mirror,
                  workerVars, core>>
  BY DEF SettingsNext, UpdateDistributionExecutionMode, PauseGroup, ResumeGroup,
    EntryObserved, CancelDistributionObservedEntry, PauseDistributionObservedEntry,
    vars, rowVars, queueVars, planVars, birthVars, coreVars
<1>2. LeasesShrink(NoWorker) /\ CoreMonotone
  BY <1>1, CoreStill, ConstantsAssumption DEF LeasesShrink, IndInv, TypeOK, RowType
<1>3. WorkersConsistent'
  BY <1>1, <1>2, WorkersIdle DEF IndInv
<1>4. /\ SettledMatchesState' /\ RowsConsistent' /\ OperationsConsistent' /\ ClaimsMatch'
      /\ CursorFrozen' /\ NoStrandedOperation' /\ OutcomeFaithful'
  BY <1>1, IndFrame DEF IndInv, claimVars
<1>5. HoldersFenced'
  <2>1. CASE UNCHANGED <<mode, ruleEpoch>>
    BY <1>1, <2>1, IndFrame DEF IndInv
  <2>2. ASSUME NEW g \in Group, UpdateDistributionExecutionMode(g) PROVE HoldersFenced'
    <3>1. \A r \in Row : Holding(r) => GroupOf[r] # g
      BY <2>2 DEF UpdateDistributionExecutionMode, DistributionRuleUnsettled, Holding,
        IndInv, RowsConsistent
    <3>2. \A r \in Row : Holding(r) => /\ mode'[GroupOf[r]] = mode[GroupOf[r]]
                                       /\ ruleEpoch'[GroupOf[r]] = ruleEpoch[GroupOf[r]]
      BY <2>2, <3>1, ConstantsAssumption
        DEF UpdateDistributionExecutionMode, IndInv, TypeOK, RuleType
    <3> QED
      BY <1>1, <3>2 DEF IndInv, HoldersFenced, Holding, RuleMatches
  <2> QED
    BY <2>1, <2>2 DEF SettingsNext, PauseGroup, ResumeGroup, EntryObserved,
      CancelDistributionObservedEntry, PauseDistributionObservedEntry, vars, ruleVars
<1> QED
  BY <1>3, <1>4, <1>5 DEF SafeInv

--------------------------------------------------------------------------------
\* Every step, of whichever actor, preserves the invariant.
LEMMA IndInvNext ==
    ASSUME IndInv, [Next]_vars
    PROVE  IndInv'
<1>1. TypeOK'
  BY TypeOKNext DEF IndInv
<1>2. SafeInv'
  <2>1. ASSUME NEW w \in Worker, PassNext(w) \/ PassFault(w) PROVE SafeInv'
    BY <2>1, SafePlan, SafeResume, SafeApplyUnfinished, SafeApplyTerminal
      DEF PassNext, PassFault
  <2>2. ASSUME NEW r \in Row, RowNext(r) PROVE SafeInv'
    BY <2>2, SafeRow
  <2>3. ASSUME NEW r \in Row, NEW n \in Decision, OperationNext(r, n) PROVE SafeInv'
    BY <2>3, SafeApplyOperationResult, SafeCore DEF OperationNext
  <2>4. CASE SettingsNext \/ UNCHANGED vars
    BY <2>4, SafeSettings
  <2> QED
    BY <2>1, <2>2, <2>3, <2>4 DEF Next
<1> QED
  BY <1>1, <1>2 DEF IndInv, SafeInv

\* Initially there are no rows, no claims and no operations.
LEMMA IndInvInit ==
    ASSUME Init
    PROVE  IndInv
<1>1. TypeOK
  BY TypeOKInit
<1>2. \A r \in Row : op[r] = 0 /\ decided[r] = 0 /\ state[r] = "absent"
                     /\ lease[r] = NoWorker /\ r \notin settled /\ ~Holding(r)
  BY DEF Init, Holding
<1>3. SettledMatchesState /\ RowsConsistent /\ HoldersFenced /\ CursorFrozen
      /\ NoStrandedOperation /\ OutcomeFaithful
  BY <1>1, <1>2 DEF SettledMatchesState, RowsConsistent, HoldersFenced, CursorFrozen,
    NoStrandedOperation, OutcomeFaithful, RowEnd, TypeOK, RowType
<1>4. OperationsConsistent
  BY <1>2, ConstantsAssumption
    DEF Init, OperationsConsistent, MayTakeEffect, Attempted, Decision
<1>5. WorkersConsistent
  BY DEF Init, WorkersConsistent, WorkerConsistent, CoreEnd, NoAttempt, Attempted
<1>6. ClaimsMatch
  BY <1>2, ConstantsAssumption DEF Init, ClaimsMatch
<1> QED
  BY <1>1, <1>3, <1>4, <1>5, <1>6 DEF IndInv

\* IndInv is an inductive invariant of the queue: whatever the interleaving of
\* replicas, Core, the result inbox, users and the clock.
THEOREM Consistent == Spec => []IndInv
<1>1. Init => IndInv
  BY IndInvInit
<1>2. IndInv /\ [Next]_vars => IndInv'
  BY IndInvNext
<1> QED
  BY <1>1, <1>2, PTL DEF Spec

\* Two commands that can still change the CRM never share a lead or a group.
THEOREM ExclusiveEffectHolds == Spec => []ExclusiveEffect
<1>1. IndInv => ExclusiveEffect
  <2> SUFFICES ASSUME IndInv, NEW r \in Row, NEW s \in Row,
                      NEW m \in Decision, NEW n \in Decision,
                      MayTakeEffect(r, m), MayTakeEffect(s, n), <<r, m>> # <<s, n>>
               PROVE  LeadOf[r] # LeadOf[s] /\ GroupOf[r] # GroupOf[s]
    BY DEF ExclusiveEffect
  <2>1. op[r] = m /\ Holding(r) /\ op[s] = n /\ Holding(s)
    BY ConstantsAssumption DEF IndInv, OperationsConsistent, Holding, Decision
  <2>2. r # s
    BY <2>1
  <2>3. LeadOf[r] \in Lead /\ GroupOf[r] \in Group
    BY ConstantsAssumption
  <2> QED
    BY <2>1, <2>2, <2>3 DEF IndInv, ClaimsMatch
<1> QED
  BY <1>1, Consistent, PTL

\* One row sends at most one PATCH to the CRM, over all its decisions and retries.
THEOREM OneEffectPerRowHolds == Spec => []OneEffectPerRow
<1>1. IndInv => OneEffectPerRow
  BY DEF IndInv, OperationsConsistent, OneEffectPerRow, Patched
<1> QED
  BY <1>1, Consistent, PTL

\* A command that can still change the CRM belongs to the current mode and epoch.
THEOREM EpochFenceHolds == Spec => []EpochFence
<1>1. IndInv => EpochFence
  BY ConstantsAssumption DEF IndInv, OperationsConsistent, HoldersFenced, EpochFence, Holding,
    Decision
<1> QED
  BY <1>1, Consistent, PTL

\* The lead and group claims are exactly those of the rows with an unfinished
\* operation: none leaks and none is missing.
THEOREM ClaimsMatchHolds == Spec => []ClaimsMatch
<1>1. IndInv => ClaimsMatch
  BY DEF IndInv
<1> QED
  BY <1>1, Consistent, PTL

\* The cursor that an unfinished decision was planned from does not move.
THEOREM CursorFrozenHolds == Spec => []CursorFrozen
<1>1. IndInv => CursorFrozen
  BY DEF IndInv
<1> QED
  BY <1>1, Consistent, PTL

\* A result that was mirrored has settled its row: no row waits for a result that
\* will not be applied again.
THEOREM NoStrandedOperationHolds == Spec => []NoStrandedOperation
<1>1. IndInv => NoStrandedOperation
  BY DEF IndInv
<1> QED
  BY <1>1, Consistent, PTL

\* The settled flag and the state column, which different statements write, agree.
THEOREM SettledMatchesStateHolds == Spec => []SettledMatchesState
<1>1. IndInv => SettledMatchesState
  BY DEF IndInv
<1> QED
  BY <1>1, Consistent, PTL

\* A settled row says what its operation did to the CRM.
THEOREM OutcomeFaithfulHolds == Spec => []OutcomeFaithful
<1>1. IndInv => OutcomeFaithful
  BY DEF IndInv
<1> QED
  BY <1>1, Consistent, PTL

--------------------------------------------------------------------------------
(***************************************************************************)
(* CancelSticky: an action property.                                       *)
(***************************************************************************)

\* A pending cancellation survives every step on an unsettled row.
LEMMA CancelKept ==
    ASSUME IndInv, [Next]_vars, NEW r \in cancelReq, r \notin settled
    PROVE  r \in cancelReq'
<1>1. ASSUME NEW s, NEW n, NEW st, SettleRuntimeOperation(s, n, st) PROVE r \in cancelReq'
  BY <1>1 DEF SettleRuntimeOperation, ClearDecision, Recalculates, rowVars, queueVars
<1>2. ASSUME NEW w \in Worker, PassNext(w) \/ PassFault(w) PROVE r \in cancelReq'
  <2>1. CASE \E s \in Row : ClaimDistributionManualAssignment(w, s)
                           \/ ClaimDistributionQueue(w, s)
    BY <2>1 DEF ClaimDistributionManualAssignment, ClaimDistributionQueue, TakeLease
  <2>2. CASE PlanExpired(w) \/ PlanCancelled(w) \/ PlanDecide(w)
    BY <2>2 DEF PlanExpired, PlanCancelled, PlanDecide
  <2>3. CASE ApplyTerminal(w)
    BY <1>1, <2>3 DEF ApplyTerminal, rowVars, queueVars
  <2>4. CASE UNCHANGED rowVars \/ \E cancel : QueueState(w, cancel)
    BY <2>4 DEF QueueState, rowVars, queueVars
  <2>5. CASE LeaseLost(w) \/ Abandon(w) \/ RelockLease(w) \/ QueryFound(w) \/ QueryMissing(w)
             \/ ExpireAssignment(w) \/ GateAllows(w) \/ SendAssign(w) \/ AssignReply(w)
             \/ ValidatePasses(w) \/ ControlCancel(w) \/ ControlReconcile(w)
    BY <2>4, <2>5 DEF LeaseLost, Abandon, RelockLease, QueryFound, QueryMissing,
      ExpireAssignment, GateAllows, SendAssign, AssignReply, ValidatePasses, ControlCancel,
      ControlReconcile
  <2>6. CASE PlanWait(w) \/ QueryFails(w) \/ ExpireFails(w) \/ GateDenies(w)
             \/ AssignFails(w) \/ ControlCancelFails(w) \/ ApplyUnfinished(w)
    BY <2>4, <2>6 DEF PlanWait, QueryFails, ExpireFails, GateDenies, AssignFails,
      ControlCancelFails, ApplyUnfinished
  <2> QED
    BY <1>2, <2>1, <2>2, <2>3, <2>5, <2>6 DEF PassNext, PassFault
<1>3. ASSUME NEW s \in Row, RowNext(s) PROVE r \in cancelReq'
  BY <1>3 DEF RowNext, AdmitDistributionEntries, AssignDistributionObservation, InsertRow,
    ExpireUndispatched, RequestExpiredCancellation, BecomesDue, LeaseExpires, DeadlinePasses,
    ValidityPasses, UserCancel, UserRetry, ClearDecision, DistributionRetrySafe
<1>4. ASSUME NEW s \in Row, NEW n \in Decision, OperationNext(s, n) PROVE r \in cancelReq'
  <2>1. CASE ApplyOperationResult(s, n)
    BY <1>1, <2>1 DEF ApplyOperationResult
  <2>2. CASE UNCHANGED rowVars
    BY <2>2 DEF rowVars, queueVars
  <2> QED
    BY <1>4, <2>1, <2>2 DEF OperationNext, CoreAdmit, CoreStart, CorePatch, CoreClose,
      CoreResolve, CoreStep
<1>5. CASE SettingsNext \/ UNCHANGED vars
  BY <1>5 DEF SettingsNext, UpdateDistributionExecutionMode, PauseGroup, ResumeGroup,
    EntryObserved, CancelDistributionObservedEntry, PauseDistributionObservedEntry,
    vars, rowVars, queueVars
<1> QED
  BY <1>2, <1>3, <1>4, <1>5 DEF Next

\* A requested cancellation is forgotten only when a user retries a settled row.
THEOREM CancelStickyHolds == Spec => CancelSticky
<1>1. IndInv /\ [Next]_vars
      => [\A r \in cancelReq : r \notin cancelReq' => r \in settled]_vars
  BY CancelKept
<1> QED
  BY <1>1, Consistent, PTL DEF Spec, CancelSticky

--------------------------------------------------------------------------------
(***************************************************************************)
(* SingleSuccessPerEntry.  A row that succeeded never leaves the unique    *)
(* index again, and a row that comes to or back into the index finds its   *)
(* entry free.                                                             *)
(***************************************************************************)

\* The unique index distribution_queue_entry_id_key.
EntriesExclusive ==
    \A r, s \in Row :
        EntryOf[r] = EntryOf[s] /\ OccupiesEntry(r) /\ OccupiesEntry(s) => r = s

\* No row comes to exist, and settled rows stay as they are.
RowsKept ==
    \A s \in Row :
        /\ state[s] = "absent" => state'[s] = "absent"
        /\ s \in settled => s \in settled' /\ state'[s] = state[s]

\* Every step but the insertion and the retry of a row keeps the settled rows.
LEMMA RowsKeptNext ==
    ASSUME IndInv, [Next]_vars,
           \A r \in Row : /\ ~AdmitDistributionEntries(r)
                          /\ ~AssignDistributionObservation(r)
                          /\ ~UserRetry(r)
    PROVE  RowsKept
<1>1. TypeOK /\ RowType /\ WorkerType
  BY DEF IndInv, TypeOK
<1>2. CASE UNCHANGED <<state, settled>>
  BY <1>2 DEF RowsKept
<1>3. ASSUME NEW r \in Row, NEW st, state' = [state EXCEPT ![r] = st],
             state[r] # "absent", r \notin settled, settled \subseteq settled'
      PROVE  RowsKept
  BY <1>1, <1>3 DEF RowsKept, RowType
<1>4. ASSUME NEW r \in Row, NEW n \in Decision, NEW st, SettleRuntimeOperation(r, n, st)
      PROVE  RowsKept
  <2>1. CASE op[r] = n /\ r \notin settled
    <3>1. state[r] # "absent"
      BY <2>1, ConstantsAssumption DEF IndInv, RowsConsistent, Decision
    <3>2. \E end : state' = [state EXCEPT ![r] = end]
      BY <1>4, <2>1 DEF SettleRuntimeOperation, SettleRow, ClearDecision
    <3>3. settled \subseteq settled'
      BY <1>4, <2>1 DEF SettleRuntimeOperation, SettleRow
    <3> QED
      BY <1>3, <2>1, <3>1, <3>2, <3>3
  <2>2. CASE ~(op[r] = n /\ r \notin settled)
    BY <1>2, <1>4, <2>2 DEF SettleRuntimeOperation, rowVars, queueVars
  <2> QED
    BY <2>1, <2>2
<1>5. ASSUME NEW w \in Worker, PassNext(w) \/ PassFault(w) PROVE RowsKept
  <2>1. Leased(w) /\ pc[w] # "idle" =>
          /\ wrow[w] \in Row /\ state[wrow[w]] = "open" /\ wrow[w] \notin settled
    BY <1>1, LeasedOpen, ConstantsAssumption DEF Leased, WorkerType
  <2>2. CASE \E s \in Row : ClaimDistributionManualAssignment(w, s)
                           \/ ClaimDistributionQueue(w, s)
    BY <1>2, <2>2 DEF ClaimDistributionManualAssignment, ClaimDistributionQueue, TakeLease
  <2>3. CASE PlanExpired(w) \/ PlanCancelled(w) \/ PlanDecide(w)
    <3>1. /\ Leased(w) /\ pc[w] # "idle" /\ settled \subseteq settled'
          /\ \E st : state' = [state EXCEPT ![wrow[w]] = st]
      BY <2>3 DEF PlanExpired, PlanCancelled, PlanDecide, SettleRow
    <3> QED
      BY <1>3, <2>1, <3>1
  <2>4. ASSUME NEW cancel, QueueState(w, cancel), pc[w] # "idle" PROVE RowsKept
    <3>1. CASE Leased(w)
      <4>1. state' = [state EXCEPT ![wrow[w]] = "open"] /\ UNCHANGED settled
        BY <2>4, <3>1 DEF QueueState
      <4> QED
        BY <1>3, <2>1, <2>4, <3>1, <4>1
    <3>2. CASE ~Leased(w)
      BY <1>2, <2>4, <3>2 DEF QueueState, rowVars, queueVars
    <3> QED
      BY <3>1, <3>2
  <2>5. CASE ApplyTerminal(w)
    <3>1. wrow[w] \in Row /\ wop[w] \in Decision
      BY <1>1, <2>5 DEF ApplyTerminal, WorkerType
    <3>2. UNCHANGED rowVars \/ SettleRuntimeOperation(wrow[w], wop[w], seen[w])
      BY <2>5 DEF ApplyTerminal
    <3> QED
      BY <1>2, <1>4, <3>1, <3>2 DEF rowVars, queueVars
  <2>6. CASE LeaseLost(w) \/ Abandon(w) \/ RelockLease(w) \/ QueryFound(w) \/ QueryMissing(w)
             \/ ExpireAssignment(w) \/ GateAllows(w) \/ SendAssign(w) \/ AssignReply(w)
             \/ ValidatePasses(w) \/ ControlCancel(w) \/ ControlReconcile(w)
    <3>1. UNCHANGED rowVars
      BY <2>6 DEF LeaseLost, Abandon, RelockLease, QueryFound, QueryMissing,
        ExpireAssignment, GateAllows, SendAssign, AssignReply, ValidatePasses, ControlCancel,
        ControlReconcile
    <3> QED
      BY <1>2, <3>1 DEF rowVars, queueVars
  <2>7. CASE PlanWait(w) \/ QueryFails(w) \/ ExpireFails(w) \/ GateDenies(w)
             \/ AssignFails(w) \/ ControlCancelFails(w) \/ ApplyUnfinished(w)
    <3>1. pc[w] # "idle" /\ (UNCHANGED rowVars \/ \E cancel : QueueState(w, cancel))
      BY <2>7 DEF PlanWait, QueryFails, ExpireFails, GateDenies, AssignFails,
        ControlCancelFails, CancelWanted, ApplyUnfinished
    <3> QED
      BY <1>2, <2>4, <3>1 DEF rowVars, queueVars
  <2> QED
    BY <1>5, <2>2, <2>3, <2>5, <2>6, <2>7 DEF PassNext, PassFault
<1>6. ASSUME NEW r \in Row, RowNext(r) PROVE RowsKept
  <2>1. CASE ExpireUndispatched(r) \/ UserCancel(r)
    <3>1. state[r] # "absent" /\ r \notin settled
      BY <2>1 DEF ExpireUndispatched, UserCancel
    <3>2. UNCHANGED <<state, settled>> \/ SettleRow(r, "cancelled")
      BY <2>1 DEF ExpireUndispatched, UserCancel
    <3> QED
      BY <1>2, <1>3, <3>1, <3>2 DEF SettleRow
  <2>2. CASE RequestExpiredCancellation(r) \/ BecomesDue(r) \/ LeaseExpires(r)
             \/ DeadlinePasses(r) \/ ValidityPasses(r)
    BY <1>2, <2>2 DEF RequestExpiredCancellation, BecomesDue, LeaseExpires, DeadlinePasses,
      ValidityPasses
  <2> QED
    BY <1>6, <2>1, <2>2 DEF RowNext
<1>7. ASSUME NEW r \in Row, NEW n \in Decision, OperationNext(r, n) PROVE RowsKept
  <2>1. UNCHANGED rowVars \/ SettleRuntimeOperation(r, n, core[r][n])
    BY <1>7 DEF OperationNext, ApplyOperationResult, CoreAdmit, CoreStart, CorePatch,
      CoreClose, CoreResolve, CoreStep
  <2> QED
    BY <1>2, <1>4, <2>1 DEF rowVars, queueVars
<1>8. CASE SettingsNext \/ UNCHANGED vars
  BY <1>2, <1>8 DEF SettingsNext, UpdateDistributionExecutionMode, PauseGroup, ResumeGroup,
    EntryObserved, CancelDistributionObservedEntry, PauseDistributionObservedEntry,
    vars, rowVars, queueVars
<1> QED
  BY <1>5, <1>6, <1>7, <1>8 DEF Next

\* Two rows never occupy one entry.
LEMMA EntriesExclusiveNext ==
    ASSUME IndInv, EntriesExclusive, [Next]_vars
    PROVE  EntriesExclusive'
<1>1. RowType
  BY DEF IndInv, TypeOK
<1>2. ASSUME NEW r \in Row, EntryFree(r),
             \A s \in Row \ {r} : state'[s] = state[s] /\ (s \in settled' <=> s \in settled)
      PROVE  EntriesExclusive'
  <2>1. \A s \in Row \ {r} : OccupiesEntry(s)' <=> OccupiesEntry(s)
    BY <1>2 DEF OccupiesEntry
  <2>2. \A s \in Row \ {r} : EntryOf[s] = EntryOf[r] => ~OccupiesEntry(s)'
    BY <1>2, <2>1 DEF EntryFree
  <2> QED
    BY <2>1, <2>2 DEF EntriesExclusive
<1>3. ASSUME NEW r \in Row, AdmitDistributionEntries(r) \/ AssignDistributionObservation(r)
      PROVE  EntriesExclusive'
  <2>1. /\ EntryFree(r) /\ UNCHANGED settled
        /\ state' = [state EXCEPT ![r] = "open"]
    BY <1>3 DEF AdmitDistributionEntries, AssignDistributionObservation, InsertRow
  <2> QED
    BY <1>1, <1>2, <2>1 DEF RowType
<1>4. ASSUME NEW r \in Row, UserRetry(r) PROVE EntriesExclusive'
  <2>1. /\ EntryFree(r) /\ settled' = settled \ {r}
        /\ state' = [state EXCEPT ![r] = "open"]
    BY <1>4 DEF UserRetry, ClearDecision
  <2> QED
    BY <1>1, <1>2, <2>1 DEF RowType
<1>5. CASE RowsKept
  <2>1. \A s \in Row : OccupiesEntry(s)' => OccupiesEntry(s)
    BY <1>5 DEF RowsKept, OccupiesEntry
  <2> QED
    BY <2>1 DEF EntriesExclusive
<1> QED
  BY <1>3, <1>4, <1>5, RowsKeptNext

\* A row whose operation succeeded is open or confirmed: it stays in the index.
LEMMA SuccessOccupies ==
    ASSUME IndInv, NEW r \in Row, NEW n \in Decision, core[r][n] = "succeeded"
    PROVE  op[r] = n /\ OccupiesEntry(r)
<1>1. op[r] = n /\ op[r] # 0
  BY ConstantsAssumption DEF IndInv, OperationsConsistent, Attempted, Decision
<1>2. state[r] # "absent"
  BY <1>1 DEF IndInv, RowsConsistent
<1>3. r \in settled => state[r] \in {"confirmed", "kept"}
  BY <1>1 DEF IndInv, OutcomeFaithful
<1> QED
  BY <1>1, <1>2, <1>3 DEF OccupiesEntry

\* One stay of a lead in a stage is assigned successfully at most once, over all
\* automatic and manual rows, decisions and retries.
THEOREM SingleSuccessPerEntryHolds == Spec => []SingleSuccessPerEntry
<1>1. Init => EntriesExclusive
  BY DEF Init, EntriesExclusive, OccupiesEntry
<1>2. IndInv /\ EntriesExclusive /\ [Next]_vars => EntriesExclusive'
  BY EntriesExclusiveNext
<1>3. IndInv /\ EntriesExclusive => SingleSuccessPerEntry
  BY SuccessOccupies DEF EntriesExclusive, SingleSuccessPerEntry
<1> QED
  BY <1>1, <1>2, <1>3, Consistent, PTL DEF Spec

--------------------------------------------------------------------------------
(***************************************************************************)
(* TurnsFair: the round robin.  The cursor moves only when a decision is   *)
(* settled, and until then it is the cursor of the decision's basis, so    *)
(* the order at the settlement is the order of the plan.                   *)
(***************************************************************************)

\* The place of a member, without the remainder.
LEMMA PlaceValue ==
    ASSUME NEW c \in Member, NEW m \in Member
    PROVE  Place(c, m) = IF m >= c THEN m - c ELSE m + Members - c
<1>1. Members \in Nat \ {0} /\ c \in 0 .. (Members - 1) /\ m \in 0 .. (Members - 1)
  BY ConstantsAssumption DEF Member
<1>2. CASE m >= c
  <2>1. (m + Members - c) \in Members .. (2 * Members - 1)
    BY <1>1, <1>2
  <2>2. (m + Members - c) % Members = (m + Members - c) - Members
    BY <1>1, <2>1
  <2> QED
    BY <1>1, <1>2, <2>2 DEF Place
<1>3. CASE ~(m >= c)
  <2>1. (m + Members - c) \in 0 .. (Members - 1)
    BY <1>1, <1>3
  <2>2. (m + Members - c) % Members = m + Members - c
    BY <1>1, <2>1
  <2> QED
    BY <1>3, <2>2 DEF Place
<1> QED
  BY <1>2, <1>3

\* The turn of p makes p the last of the order and moves those after p forward.
LEMMA TurnMoves ==
    ASSUME NEW c \in Member, NEW p \in Member, NEW m \in Member
    PROVE  LET d == (p + 1) % Members IN
           /\ Place(d, m) <= Place(d, p)
           /\ Place(c, p) < Place(c, m) => Place(d, m) < Place(c, m)
<1> DEFINE d == (p + 1) % Members
<1>1. Members \in Nat \ {0} /\ p \in 0 .. (Members - 1)
  BY ConstantsAssumption DEF Member
<1>2. d = IF p = Members - 1 THEN 0 ELSE p + 1
  <2>1. CASE p = Members - 1
    BY <1>1, <2>1
  <2>2. CASE p # Members - 1
    <3>1. p + 1 \in 0 .. (Members - 1)
      BY <1>1, <2>2
    <3> QED
      BY <1>1, <2>2, <3>1
  <2> QED
    BY <2>1, <2>2
<1>3. d \in Member
  BY <1>1, <1>2 DEF Member
<1>4. /\ Place(d, m) = IF m >= d THEN m - d ELSE m + Members - d
      /\ Place(d, p) = IF p >= d THEN p - d ELSE p + Members - d
      /\ Place(c, m) = IF m >= c THEN m - c ELSE m + Members - c
      /\ Place(c, p) = IF p >= c THEN p - c ELSE p + Members - c
  BY <1>3, PlaceValue
<1> HIDE DEF d
<1>5. Place(d, m) <= Place(d, p)
  BY <1>1, <1>2, <1>4 DEF Member
<1>6. Place(c, p) < Place(c, m) => Place(d, m) < Place(c, m)
  BY <1>1, <1>2, <1>4 DEF Member
<1> QED
  BY <1>5, <1>6 DEF d

\* Only a settlement of a row's own operation moves a cursor.
LEMMA CursorMoves ==
    ASSUME IndInv, [Next]_vars, cursor' # cursor
    PROVE  \E r \in Row : \E n \in Decision, st \in CoreEnd :
               op[r] = n /\ r \notin settled /\ SettleRuntimeOperation(r, n, st)
<1>1. WorkerType
  BY DEF IndInv, TypeOK
<1>2. ~UNCHANGED claimVars
  BY DEF claimVars
<1>3. ASSUME NEW r \in Row, NEW n \in Decision, NEW st \in CoreEnd,
             SettleRuntimeOperation(r, n, st)
      PROVE  op[r] = n /\ r \notin settled
  BY <1>2, <1>3 DEF SettleRuntimeOperation, claimVars
<1>4. ASSUME NEW w \in Worker, PassNext(w) \/ PassFault(w) PROVE ApplyTerminal(w)
  BY <1>2, <1>4 DEF PassNext, PassFault, ClaimDistributionManualAssignment,
    ClaimDistributionQueue, TakeLease, LeaseLost, Abandon, PlanExpired, PlanCancelled, PlanWait,
    PlanDecide, RelockLease, QueryFound, QueryMissing, QueryFails, ExpireAssignment, ExpireFails,
    GateAllows, GateDenies, SendAssign, AssignReply, AssignFails, ValidatePasses, ControlCancel,
    ControlCancelFails, CancelWanted, ControlReconcile, ApplyUnfinished
<1>5. ASSUME NEW r \in Row PROVE ~RowNext(r)
  BY <1>2 DEF RowNext, AdmitDistributionEntries, AssignDistributionObservation, InsertRow,
    ExpireUndispatched, RequestExpiredCancellation, BecomesDue, LeaseExpires, DeadlinePasses,
    ValidityPasses, UserCancel, UserRetry
<1>6. ASSUME NEW r \in Row, NEW n \in Decision, OperationNext(r, n)
      PROVE  ApplyOperationResult(r, n)
  BY <1>2, <1>6 DEF OperationNext, CoreAdmit, CoreStart, CorePatch, CoreClose, CoreResolve,
    CoreStep
<1>7. ~SettingsNext /\ ~UNCHANGED vars
  BY <1>2 DEF SettingsNext, UpdateDistributionExecutionMode, PauseGroup, ResumeGroup,
    EntryObserved, CancelDistributionObservedEntry, PauseDistributionObservedEntry, vars
<1>8. CASE \E w \in Worker : ApplyTerminal(w)
  <2>1. PICK w \in Worker : ApplyTerminal(w)
    BY <1>8
  <2>2. wrow[w] \in Row /\ wop[w] \in Decision /\ seen[w] \in CoreEnd
    BY <1>1, <2>1 DEF ApplyTerminal, WorkerType
  <2>3. SettleRuntimeOperation(wrow[w], wop[w], seen[w])
    BY <1>2, <2>1 DEF ApplyTerminal
  <2> QED
    BY <1>3, <2>2, <2>3
<1>9. CASE \E r \in Row, n \in Decision : ApplyOperationResult(r, n)
  <2>1. PICK r \in Row, n \in Decision : ApplyOperationResult(r, n)
    BY <1>9
  <2>2. core[r][n] \in CoreEnd /\ SettleRuntimeOperation(r, n, core[r][n])
    BY <2>1 DEF ApplyOperationResult
  <2> QED
    BY <1>3, <2>2
<1> QED
  BY <1>4, <1>5, <1>6, <1>7, <1>8, <1>9 DEF Next

\* A cursor moves past the member of a confirmed automatic assignment.
LEMMA TurnTaken ==
    ASSUME IndInv, [Next]_vars, NEW g \in Group, cursor'[g] # cursor[g]
    PROVE  \E r \in Row \ Manual :
               /\ GroupOf[r] = g /\ Holding(r) /\ kind[r] = "assign"
               /\ cursor'[g] = (planned[r] + 1) % Members
<1>1. PICK r \in Row : \E n \in Decision, st \in CoreEnd :
          op[r] = n /\ r \notin settled /\ SettleRuntimeOperation(r, n, st)
  BY CursorMoves
<1>2. PICK n \in Decision, st \in CoreEnd :
          op[r] = n /\ r \notin settled /\ SettleRuntimeOperation(r, n, st)
  BY <1>1
<1>3. Holding(r)
  BY <1>2, ConstantsAssumption DEF Holding, Decision
<1>4. cursor \in [Group -> Member]
  BY DEF IndInv, TypeOK, ClaimType
<1>5. ReleaseDistributionGroupClaim(r, EndState(r, st))
  BY <1>2 DEF SettleRuntimeOperation
<1>6. /\ EndState(r, st) = "confirmed" /\ r \notin Manual
      /\ cursor' = [cursor EXCEPT ![GroupOf[r]] = (planned[r] + 1) % Members]
  BY <1>5 DEF ReleaseDistributionGroupClaim
<1>7. GroupOf[r] = g /\ cursor'[g] = (planned[r] + 1) % Members
  BY <1>4, <1>6
<1>8. kind[r] = "assign"
  BY <1>6 DEF EndState
<1> QED
  BY <1>3, <1>6, <1>7, <1>8

\* Every turn of a group is fair: the member who takes it becomes the last of the
\* order and those who came after him in the plan move forward, for any number of
\* members and any interleaving of plans, results, retries and manual rows.
THEOREM TurnsFairHolds == Spec => TurnsFair
<1> DEFINE Fair == \A g \in Group : cursor'[g] # cursor[g] =>
          \E r \in Row \ Manual :
              /\ GroupOf[r] = g /\ Holding(r) /\ kind[r] = "assign"
              /\ \A m \in Member :
                    /\ Place(cursor'[g], m) <= Place(cursor'[g], planned[r])
                    /\ Place(basis[r], planned[r]) < Place(basis[r], m) =>
                          Place(cursor'[g], m) < Place(cursor[g], m)
<1>1. ASSUME IndInv, [Next]_vars PROVE Fair
  <2> SUFFICES ASSUME NEW g \in Group, cursor'[g] # cursor[g]
               PROVE  \E r \in Row \ Manual :
                        /\ GroupOf[r] = g /\ Holding(r) /\ kind[r] = "assign"
                        /\ \A m \in Member :
                              /\ Place(cursor'[g], m) <= Place(cursor'[g], planned[r])
                              /\ Place(basis[r], planned[r]) < Place(basis[r], m) =>
                                    Place(cursor'[g], m) < Place(cursor[g], m)
    OBVIOUS
  <2>1. PICK r \in Row \ Manual :
            /\ GroupOf[r] = g /\ Holding(r) /\ kind[r] = "assign"
            /\ cursor'[g] = (planned[r] + 1) % Members
    BY <1>1, TurnTaken
  <2>2. basis[r] = cursor[g] /\ cursor[g] \in Member /\ planned[r] \in Member
    BY <1>1, <2>1 DEF IndInv, CursorFrozen, TypeOK, ClaimType, RowType
  <2>3. ASSUME NEW m \in Member
        PROVE  /\ Place(cursor'[g], m) <= Place(cursor'[g], planned[r])
               /\ Place(basis[r], planned[r]) < Place(basis[r], m) =>
                     Place(cursor'[g], m) < Place(cursor[g], m)
    BY <2>1, <2>2, TurnMoves
  <2> QED
    BY <2>1, <2>3
<1>2. IndInv /\ [Next]_vars => [Fair]_vars
  BY <1>1
<1> QED
  BY <1>2, Consistent, PTL DEF Spec, TurnsFair
================================================================================
