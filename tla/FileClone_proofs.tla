---------------------------- MODULE FileClone_proofs ----------------------------
(***************************************************************************)
(* OneCopier and PublishedIntact hold for any number of replicas, handlers *)
(* files and faults.                                                       *)
(*                                                                         *)
(* The invariant follows the operation: it can be started only when no     *)
(* handler works on it, a handler works only while it is in progress, or   *)
(* after a commit that was reported as an error, and the copies of         *)
(* committed rows are kept unless such a commit happened.                  *)
(***************************************************************************)
EXTENDS FileClone, TLAPS

\* The functions are functions, whatever the keys are.
Functional ==
    /\ runner \in [Runner -> {"idle", "calling", "waiting", "applying", "failing"}]
    /\ handler \in [Handler -> {"idle", "copying", "removing"}]
    /\ caller \in [Handler -> Runner \cup {NoRunner}]
    /\ keys = [h \in Handler |-> keys[h]]

\* The copies are recorded, and there unless an unreported commit undid them.
Kept == rows /\ (File \subseteq objects \/ lostCommit)

\* A handler works alone, and only on an operation that nobody can start.
Working ==
    \A h \in Handler :
        /\ handler[h] = "idle" => keys[h] = {}
        /\ handler[h] = "copying" => op = "in_progress" /\ keys[h] \subseteq objects
        /\ handler[h] = "removing" =>
              op = "in_progress" \/ (op = "succeeded" /\ lostCommit)

\* What the rows, the replicas and the version rely on.
Relying ==
    /\ op = "succeeded" => Kept
    /\ rows /\ ~lostCommit => op = "succeeded"
    /\ \A r \in Runner : runner[r] = "applying" => Kept
    /\ job = "completed" => refs = "copies" /\ Kept
    /\ version = "published" => job = "completed"

CloneInv == Functional /\ OneCopier /\ Working /\ Relying

-----------------------------------------------------------------------------

\* The job and the operation begin with nothing copied and nobody working.
LEMMA CloneInit == Init => CloneInv
  BY DEF Init, CloneInv, Functional, OneCopier, Working, Relying

\* A step of the academy leaves the files service alone, or starts an operation
\* that no handler works on; what it applies is kept.
LEMMA AcademySteps ==
  ASSUME CloneInv,
         \/ Requeue \/ FallDue \/ PublishCourseVersion
         \/ \E r \in Runner : \/ RunnerNext(r) \/ CallFail(r) \/ ApplyFail(r)
                              \/ CrashRunner(r)
  PROVE  CloneInv'
<1> USE DEF CloneInv
<1>1. CASE Requeue
  BY <1>1 DEF Requeue, Stale, MinutesPass, Fault, Functional, OneCopier,
              Working, Relying, Kept
<1>2. CASE FallDue
  BY <1>2 DEF FallDue, MinutesPass, Fault, Functional, OneCopier, Working,
              Relying, Kept
<1>3. CASE PublishCourseVersion
  BY <1>3 DEF PublishCourseVersion, Publishable, Functional, OneCopier,
              Working, Relying, Kept
<1>4. ASSUME NEW r \in Runner, Claim(r)
      PROVE  CloneInv'
  BY <1>4 DEF Claim, Functional, OneCopier, Working, Relying, Kept
<1>5. ASSUME NEW r \in Runner, NEW h \in Handler, CallStart(r, h)
      PROVE  CloneInv'
  <2>1. \A i \in Handler : handler[i] = "idle"
    BY <1>5 DEF CallStart, Startable, Functional, Working
  <2>2. Functional'
    BY <1>5 DEF CallStart, Functional
  <2>3. OneCopier'
    BY <1>5, <2>1 DEF CallStart, Functional, OneCopier
  <2>4. Working'
    BY <1>5, <2>1 DEF CallStart, Functional, Working
  <2>5. Relying'
    BY <1>5 DEF CallStart, Startable, Functional, Relying, Kept
  <2> QED
    BY <2>2, <2>3, <2>4, <2>5
<1>6. ASSUME NEW r \in Runner, CallFind(r)
      PROVE  CloneInv'
  BY <1>6 DEF CallFind, Answer, Functional, OneCopier, Working, Relying, Kept
<1>7. ASSUME NEW r \in Runner, CallFail(r)
      PROVE  CloneInv'
  <2>1. Functional'
    BY <1>7 DEF CallFail, Functional
  <2> QED
    BY <1>7, <2>1 DEF CallFail, Functional, OneCopier, Working, Relying, Kept
<1>8. ASSUME NEW r \in Runner, ApplyClonedFiles(r)
      PROVE  CloneInv'
  BY <1>8 DEF ApplyClonedFiles, Functional, OneCopier, Working, Relying, Kept
<1>9. ASSUME NEW r \in Runner, ApplyFail(r)
      PROVE  CloneInv'
  BY <1>9 DEF ApplyFail, Fault, Functional, OneCopier, Working, Relying, Kept
<1>10. ASSUME NEW r \in Runner, RetryFileCloneJob(r)
       PROVE  CloneInv'
  BY <1>10 DEF RetryFileCloneJob, Functional, OneCopier, Working, Relying, Kept
<1>11. ASSUME NEW r \in Runner, CrashRunner(r)
       PROVE  CloneInv'
  <2>1. Functional'
    BY <1>11 DEF CrashRunner, Functional
  <2> QED
    BY <1>11, <2>1 DEF CrashRunner, Functional, OneCopier, Working, Relying, Kept
<1> QED
  BY <1>1, <1>2, <1>3, <1>4, <1>5, <1>6, <1>7, <1>8, <1>9, <1>10, <1>11
  DEF RunnerNext

\* The handler that ends leaves the others as they are, and answers nobody but a
\* caller of its own.
LEMMA FinishSteps ==
  ASSUME Functional, Working, NEW h \in Handler, NEW state, Finish(h, state)
  PROVE  /\ Functional'
         /\ handler' = [handler EXCEPT ![h] = "idle"]
         /\ keys' = [keys EXCEPT ![h] = {}]
         /\ \A r \in Runner : runner'[r] = "applying" =>
               runner[r] = "applying" \/ state = "succeeded"
         /\ UNCHANGED <<version, refs, job>>
<1>1. CASE caller[h] = NoRunner
  BY <1>1 DEF Finish, Functional
<1>2. CASE caller[h] # NoRunner
  <2>1. caller[h] \in Runner
    BY <1>2 DEF Functional
  <2> QED
    BY <1>2, <2>1 DEF Finish, Answer, Functional
<1> QED
  BY <1>1, <1>2

\* A step of a handler: it is the only one that works, so that nobody else
\* relies on an object that it removes, unless its commit went unreported.
LEMMA HandlerSteps ==
  ASSUME CloneInv, NEW h \in Handler,
         HandlerNext(h) \/ CopyFail(h) \/ CompleteLost(h) \/ CrashHandler(h)
  PROVE  CloneInv'
<1> USE DEF CloneInv
<1>1. CASE Copy(h)
  <2> DEFINE f == Min(File \ keys[h])
  <2>1. /\ handler[h] = "copying"
        /\ objects' = objects \cup {f}
        /\ keys' = [keys EXCEPT ![h] = @ \cup {f}]
        /\ UNCHANGED <<academyVars, op, rows, handler, caller, lostCommit>>
    BY <1>1 DEF Copy
  <2> HIDE DEF f
  <2>2. Working'
    BY <2>1 DEF Functional, Working
  <2> QED
    BY <2>1, <2>2 DEF academyVars, Functional, OneCopier, Relying, Kept
<1>2. CASE CompleteClone(h)
  <2>1. File \subseteq objects /\ handler[h] = "copying"
    BY <1>2 DEF CompleteClone, Working
  <2>2. /\ Functional'
        /\ handler' = [handler EXCEPT ![h] = "idle"]
        /\ keys' = [keys EXCEPT ![h] = {}]
        /\ UNCHANGED <<version, refs, job>>
    BY <1>2, FinishSteps DEF CompleteClone
  <2>3. rows' = TRUE /\ op' = "succeeded" /\ UNCHANGED <<objects, lostCommit>>
    BY <1>2 DEF CompleteClone
  <2>4. Working'
    BY <2>1, <2>2 DEF Functional, OneCopier, Working
  <2>5. OneCopier'
    BY <2>2 DEF Functional, OneCopier
  <2>6. Relying'
    BY <2>1, <2>2, <2>3 DEF Relying, Kept
  <2> QED
    BY <2>2, <2>4, <2>5, <2>6
<1>3. CASE CompleteConflict(h)
  BY <1>3 DEF CompleteConflict, academyVars, Functional, OneCopier, Working,
              Relying, Kept
<1>4. CASE Remove(h)
  <2> DEFINE f == Min(keys[h])
  <2>1. /\ handler[h] = "removing"
        /\ objects' = objects \/ objects' = objects \ {f}
        /\ keys' = [keys EXCEPT ![h] = @ \ {f}]
        /\ UNCHANGED <<academyVars, op, rows, handler, caller, lostCommit>>
    BY <1>4 DEF Remove
  <2> HIDE DEF f
  <2>2. rows => lostCommit
    BY <2>1 DEF Working, Relying
  <2>3. Working'
    BY <2>1 DEF Functional, OneCopier, Working
  <2>4. Relying'
    BY <2>1, <2>2 DEF academyVars, Relying, Kept
  <2> QED
    BY <2>1, <2>3, <2>4 DEF academyVars, Functional, OneCopier
<1>5. CASE FailClone(h)
  <2>1. handler[h] = "removing"
    BY <1>5 DEF FailClone
  <2>2. /\ Functional'
        /\ handler' = [handler EXCEPT ![h] = "idle"]
        /\ keys' = [keys EXCEPT ![h] = {}]
        /\ \A r \in Runner : runner'[r] = "applying" => runner[r] = "applying"
        /\ UNCHANGED <<version, refs, job>>
    BY <1>5, FinishSteps DEF FailClone
  <2>3. op' = "failed" /\ UNCHANGED <<rows, objects, lostCommit>>
    BY <1>5 DEF FailClone
  <2>4. rows => lostCommit
    BY <2>1 DEF Working, Relying
  <2>5. Working'
    BY <2>1, <2>2 DEF Functional, OneCopier, Working
  <2>6. OneCopier'
    BY <2>2 DEF Functional, OneCopier
  <2>7. Relying'
    BY <2>2, <2>3, <2>4 DEF Relying, Kept
  <2> QED
    BY <2>2, <2>5, <2>6, <2>7
<1>6. CASE CopyFail(h)
  BY <1>6 DEF CopyFail, academyVars, Functional, OneCopier, Working, Relying,
              Kept
<1>7. CASE CompleteLost(h)
  <2>1. File \subseteq objects /\ handler[h] = "copying"
    BY <1>7 DEF CompleteLost, Working
  <2>2. Working'
    BY <1>7, <2>1 DEF CompleteLost, Functional, OneCopier, Working
  <2> QED
    BY <1>7, <2>1, <2>2 DEF CompleteLost, academyVars, Functional, OneCopier,
                            Relying, Kept
<1>8. CASE CrashHandler(h)
  <2>1. /\ Functional'
        /\ handler' = [handler EXCEPT ![h] = "idle"]
        /\ keys' = [keys EXCEPT ![h] = {}]
        /\ \A r \in Runner : runner'[r] = "applying" => runner[r] = "applying"
        /\ UNCHANGED <<version, refs, job>>
    BY <1>8, FinishSteps DEF CrashHandler
  <2>2. UNCHANGED <<op, rows, objects, lostCommit>>
    BY <1>8 DEF CrashHandler
  <2>3. Working'
    BY <2>1, <2>2 DEF Functional, Working
  <2>4. OneCopier'
    BY <2>1 DEF Functional, OneCopier
  <2>5. Relying'
    BY <2>1, <2>2 DEF Relying, Kept
  <2> QED
    BY <2>1, <2>3, <2>4, <2>5
<1> QED
  BY <1>1, <1>2, <1>3, <1>4, <1>5, <1>6, <1>7, <1>8 DEF HandlerNext

\* The invariant holds through every crash, early requeue and late answer.
THEOREM CloneInvariance == Spec => []CloneInv
<1>1. CloneInv /\ UNCHANGED vars => CloneInv'
  BY DEF vars, CloneInv, Functional, OneCopier, Working, Relying, Kept
<1>2. CloneInv /\ [Next]_vars => CloneInv'
  BY <1>1, AcademySteps, HandlerSteps DEF Next
<1> QED
  BY CloneInit, <1>2, PTL DEF Spec

\* No two handlers of the files service work on the same copies at a time.
THEOREM OneCopierHolds == Spec => []OneCopier
<1>1. CloneInv => OneCopier
  BY DEF CloneInv
<1> QED
  BY CloneInvariance, <1>1, PTL

\* A published version has copies of its own, recorded and, unless a commit went
\* unreported, stored.
THEOREM PublishedIntactHolds == Spec => []PublishedIntact
<1>1. CloneInv => PublishedIntact
  BY DEF CloneInv, Relying, Kept, PublishedIntact
<1> QED
  BY CloneInvariance, <1>1, PTL
=================================================================================
