------------------------------- MODULE FileClone -------------------------------
(***************************************************************************)
(* The copies of the files of a course version.  A version that is made    *)
(* from another version or a template comes with a job of the academy,     *)
(* which asks the files service to copy the files, writes the copies into  *)
(* the draft, and must be completed before the version can be published.   *)
(*                                                                         *)
(* The replicas of the academy work on the job without a lease token: a    *)
(* job that is running for too long is requeued, even if its replica is    *)
(* only slow.  The files service keeps one operation per job (the job is   *)
(* its idempotency key) and works on it in the handler of a call, which    *)
(* outlives a caller that is gone.                                         *)
(***************************************************************************)
EXTENDS Integers, FiniteSetsExt

CONSTANTS
    Runner,     \* replicas of the academy
    Handler,    \* handlers of the files service
    Files,      \* number of files of the version
    NoRunner,   \* the caller of a handler is gone
    MaxFaults   \* bound: crashes, failed calls and early requeues

File == 1..Files

ASSUME CloneAssumption ==
    /\ Files \in Nat \ {0}
    /\ MaxFaults \in Nat
    /\ NoRunner \notin Runner

VARIABLES
    version,    \* status of the course version
    refs,       \* whose files the version refers to
    job,        \* status of the job
    due,        \* next_attempt_at is reached
    runner,     \* what a replica does with the job
    op,         \* state of the operation of the files service
    rows,       \* the rows of the copies are committed
    objects,    \* the copies in the object store
    handler,    \* what a handler does
    caller,     \* the replica that waits for a handler
    keys,       \* copiedKeys of a handler
    lostCommit, \* history: a commit whose success was reported as an error
    faults

academyVars == <<version, refs, job, due, runner>>
vars == <<version, refs, job, due, runner, op, rows, objects, handler, caller, keys,
          lostCommit, faults>>

TypeOK ==
    /\ version \in {"draft", "published"}
    /\ refs \in {"sources", "copies"}
    /\ job \in {"pending", "running", "failed", "completed"}
    /\ due \in BOOLEAN
    /\ runner \in [Runner -> {"idle", "calling", "waiting", "applying", "failing"}]
    /\ op \in {"pending", "in_progress", "succeeded", "failed"}
    /\ rows \in BOOLEAN
    /\ objects \in SUBSET File
    /\ handler \in [Handler -> {"idle", "copying", "removing"}]
    /\ caller \in [Handler -> Runner \cup {NoRunner}]
    /\ keys \in [Handler -> SUBSET File]
    /\ lostCommit \in BOOLEAN
    /\ faults \in 0..MaxFaults

Init ==
    /\ version = "draft"
    /\ refs = "sources"
    /\ job = "pending"
    /\ due = TRUE
    /\ runner = [r \in Runner |-> "idle"]
    /\ op = "pending"
    /\ rows = FALSE
    /\ objects = {}
    /\ handler = [h \in Handler |-> "idle"]
    /\ caller = [h \in Handler |-> NoRunner]
    /\ keys = [h \in Handler |-> {}]
    /\ lostCommit = FALSE
    /\ faults = 0

Fault == faults < MaxFaults /\ faults' = faults + 1

-----------------------------------------------------------------------------
(* The academy.                                                              *)

\* Minutes pass: the replicas have finished what they do, unless one is slow.
MinutesPass == Fault \/ (UNCHANGED faults /\ \A r \in Runner : runner[r] = "idle")

\* Mutation: a running job is never stale.
StaleNever == FALSE

\* The jobs that RequeueStaleFileCloneJobs finds, if minutes have passed.
Stale == job = "running"

\* RequeueStaleFileCloneJobs.
Requeue ==
    /\ Stale
    /\ MinutesPass
    /\ job' = "failed"
    /\ due' = TRUE
    /\ UNCHANGED <<version, refs, runner, op, rows, objects, handler, caller,
                   keys, lostCommit>>

\* next_attempt_at of a failed job is reached.
FallDue ==
    /\ ~due
    /\ MinutesPass
    /\ due' = TRUE
    /\ UNCHANGED <<version, refs, job, runner, op, rows, objects, handler, caller,
                   keys, lostCommit>>

\* ClaimFileCloneJobs.
Claim(r) ==
    /\ runner[r] = "idle"
    /\ job \in {"pending", "failed"} /\ due
    /\ job' = "running"
    /\ runner' = [runner EXCEPT ![r] = "calling"]
    /\ UNCHANGED <<version, refs, due, op, rows, objects, handler, caller, keys,
                   lostCommit, faults>>

\* Mutation: an operation in progress is started again.
StartableAlways == op # "succeeded"

\* The state from which StartClone starts an operation.
Startable == op \in {"pending", "failed"}

\* CloneFilesForOwner: a call that starts the operation occupies a handler.
CallStart(r, h) ==
    /\ runner[r] = "calling" /\ handler[h] = "idle"
    /\ Startable
    /\ op' = "in_progress"
    /\ handler' = [handler EXCEPT ![h] = "copying"]
    /\ caller' = [caller EXCEPT ![h] = r]
    /\ runner' = [runner EXCEPT ![r] = "waiting"]
    /\ UNCHANGED <<version, refs, job, due, rows, objects, keys, lostCommit, faults>>

\* processFileCloneJob goes on with an operation that succeeded only.
Answer(r, state) ==
    runner' = [runner EXCEPT ![r] = IF state = "succeeded" THEN "applying"
                                    ELSE "failing"]

\* CloneFilesForOwner: the call finds the operation succeeded or in progress.
CallFind(r) ==
    /\ runner[r] = "calling"
    /\ ~Startable
    /\ Answer(r, op)
    /\ UNCHANGED <<version, refs, job, due, op, rows, objects, handler, caller, keys,
                   lostCommit, faults>>

\* The call fails for the replica; a handler goes on without its caller.
CallFail(r) ==
    /\ runner[r] \in {"calling", "waiting"}
    /\ Fault
    /\ runner' = [runner EXCEPT ![r] = "failing"]
    /\ caller' = [h \in Handler |-> IF caller[h] = r THEN NoRunner ELSE caller[h]]
    /\ UNCHANGED <<version, refs, job, due, op, rows, objects, handler, keys,
                   lostCommit>>

\* applyClonedFiles: one transaction, which needs a draft to write to and a job
\* that is still running; otherwise nothing is written.
ApplyClonedFiles(r) ==
    /\ runner[r] = "applying"
    /\ IF job = "running" /\ (refs = "sources" => version = "draft")
       THEN /\ refs' = "copies"
            /\ job' = "completed"
            /\ runner' = [runner EXCEPT ![r] = "idle"]
       ELSE /\ UNCHANGED <<refs, job>>
            /\ runner' = [runner EXCEPT ![r] = "failing"]
    /\ UNCHANGED <<version, due, op, rows, objects, handler, caller, keys,
                   lostCommit, faults>>

\* The transaction fails.
ApplyFail(r) ==
    /\ runner[r] = "applying"
    /\ Fault
    /\ runner' = [runner EXCEPT ![r] = "failing"]
    /\ UNCHANGED <<version, refs, job, due, op, rows, objects, handler, caller, keys,
                   lostCommit>>

\* RetryFileCloneJob: it also takes the job from a replica that claimed it since.
RetryFileCloneJob(r) ==
    /\ runner[r] = "failing"
    /\ IF job = "running" THEN job' = "failed" /\ due' = FALSE
       ELSE UNCHANGED <<job, due>>
    /\ runner' = [runner EXCEPT ![r] = "idle"]
    /\ UNCHANGED <<version, refs, op, rows, objects, handler, caller, keys,
                   lostCommit, faults>>

\* A replica crashes.
CrashRunner(r) ==
    /\ runner[r] # "idle"
    /\ Fault
    /\ runner' = [runner EXCEPT ![r] = "idle"]
    /\ caller' = [h \in Handler |-> IF caller[h] = r THEN NoRunner ELSE caller[h]]
    /\ UNCHANGED <<version, refs, job, due, op, rows, objects, handler, keys,
                   lostCommit>>

\* Mutation: a failed job does not hold up the publication.
PublishableFailed == job \in {"failed", "completed"}

\* requireCompletedFileCloneJobs.
Publishable == job = "completed"

\* PublishCourseVersion.
PublishCourseVersion ==
    /\ version = "draft"
    /\ Publishable
    /\ version' = "published"
    /\ UNCHANGED <<refs, job, due, runner, op, rows, objects, handler, caller, keys,
                   lostCommit, faults>>

-----------------------------------------------------------------------------
(* The files service.                                                        *)

\* The handler ends, and its caller, if it still waits, sees the outcome.
Finish(h, state) ==
    /\ handler' = [handler EXCEPT ![h] = "idle"]
    /\ keys' = [keys EXCEPT ![h] = {}]
    /\ caller' = [caller EXCEPT ![h] = NoRunner]
    /\ IF caller[h] = NoRunner THEN UNCHANGED runner ELSE Answer(caller[h], state)
    /\ UNCHANGED <<version, refs, job, due>>

\* The next object is copied to its key, which depends on the operation and the
\* source only.
Copy(h) ==
    /\ handler[h] = "copying" /\ keys[h] # File
    /\ LET f == Min(File \ keys[h]) IN
          /\ objects' = objects \cup {f}
          /\ keys' = [keys EXCEPT ![h] = @ \cup {f}]
    /\ UNCHANGED <<academyVars, op, rows, handler, caller, lostCommit, faults>>

\* Copying an object or writing the rows fails, and failClone begins.
CopyFail(h) ==
    /\ handler[h] = "copying"
    /\ Fault
    /\ handler' = [handler EXCEPT ![h] = "removing"]
    /\ UNCHANGED <<academyVars, op, rows, objects, caller, keys, lostCommit>>

\* CompleteClone: the rows of the copies and the state, in one transaction.
CompleteClone(h) ==
    /\ handler[h] = "copying" /\ keys[h] = File
    /\ ~rows
    /\ rows' = TRUE
    /\ op' = "succeeded"
    /\ Finish(h, "succeeded")
    /\ UNCHANGED <<objects, lostCommit, faults>>

\* CompleteClone: the transaction is committed, but the handler sees an error.
CompleteLost(h) ==
    /\ handler[h] = "copying" /\ keys[h] = File
    /\ ~rows
    /\ Fault
    /\ rows' = TRUE
    /\ op' = "succeeded"
    /\ lostCommit' = TRUE
    /\ handler' = [handler EXCEPT ![h] = "removing"]
    /\ UNCHANGED <<academyVars, objects, caller, keys>>

\* CompleteClone: the rows exist from a commit that was taken for an error.
CompleteConflict(h) ==
    /\ handler[h] = "copying" /\ keys[h] = File
    /\ rows
    /\ handler' = [handler EXCEPT ![h] = "removing"]
    /\ UNCHANGED <<academyVars, op, rows, objects, caller, keys, lostCommit,
                   faults>>

\* failClone removes a copy; it ignores that it could not.
Remove(h) ==
    /\ handler[h] = "removing" /\ keys[h] # {}
    /\ LET f == Min(keys[h]) IN
          /\ keys' = [keys EXCEPT ![h] = @ \ {f}]
          /\ \/ objects' = objects \ {f} /\ UNCHANGED faults
             \/ Fault /\ UNCHANGED objects
    /\ UNCHANGED <<academyVars, op, rows, handler, caller, lostCommit>>

\* FailClone, whatever the state is.
FailClone(h) ==
    /\ handler[h] = "removing" /\ keys[h] = {}
    /\ op' = "failed"
    /\ Finish(h, "failed")
    /\ UNCHANGED <<rows, objects, lostCommit, faults>>

\* The handler is lost: the files service crashes, or FailClone fails.
CrashHandler(h) ==
    /\ handler[h] # "idle"
    /\ Fault
    /\ Finish(h, "failed")
    /\ UNCHANGED <<op, rows, objects, lostCommit>>

-----------------------------------------------------------------------------

RunnerNext(r) ==
    \/ Claim(r)
    \/ \E h \in Handler : CallStart(r, h)
    \/ CallFind(r)
    \/ ApplyClonedFiles(r)
    \/ RetryFileCloneJob(r)

HandlerNext(h) ==
    \/ Copy(h)
    \/ CompleteClone(h)
    \/ CompleteConflict(h)
    \/ Remove(h)
    \/ FailClone(h)

Next ==
    \/ Requeue
    \/ FallDue
    \/ \E r \in Runner : RunnerNext(r) \/ CallFail(r) \/ ApplyFail(r) \/ CrashRunner(r)
    \/ PublishCourseVersion
    \/ \E h \in Handler : HandlerNext(h) \/ CopyFail(h) \/ CompleteLost(h)
                          \/ CrashHandler(h)

\* The worker of every replica runs the job loop, and a handler runs to its end;
\* faults need not happen.
Fairness ==
    /\ WF_vars(Requeue)
    /\ WF_vars(FallDue)
    /\ \A r \in Runner : WF_vars(RunnerNext(r))
    /\ \A h \in Handler : WF_vars(HandlerNext(h))

Spec == Init /\ [][Next]_vars /\ Fairness

-----------------------------------------------------------------------------
(* Properties.                                                               *)

\* Replicas that work on the same requeued job, and handlers that outlive their
\* callers, never copy and remove the same objects at the same time.
OneCopier ==
    \A h, i \in Handler :
        handler[h] # "idle" /\ handler[i] # "idle" => h = i

\* A published version refers to copies of its own, whose rows are committed and
\* whose objects exist, after any crash, early requeue and late answer.  The
\* exception is a commit of CompleteClone that was reported as an error: then
\* failClone removes the objects of an operation that succeeded.
PublishedIntact ==
    version = "published" =>
        /\ refs = "copies" /\ rows
        /\ File \subseteq objects \/ lostCommit

\* The operation is in progress and no handler works on it.
Abandoned == op = "in_progress" /\ \A h \in Handler : handler[h] = "idle"

\* The rows of the copies block every later attempt to write them.
Orphaned == rows /\ op # "succeeded"

\* The job completes after finitely many faults.  The two exceptions are states
\* that no retry leaves: a handler that was lost while its operation was in
\* progress, and rows that an unreported commit left behind.
CloneFinishes == <>(job = "completed" \/ Abandoned \/ Orphaned)
================================================================================
