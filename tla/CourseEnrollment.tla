---------------------------- MODULE CourseEnrollment ----------------------------
(***************************************************************************)
(* One enrollment of the academy: a learner's run through the lessons of a *)
(* published course version, while the course around it is archived,       *)
(* restored, paused, blocked and deleted.                                  *)
(*                                                                         *)
(* The learner is an employee, who was assigned a course of the company,   *)
(* or an external learner, who activates a personal access to a partner    *)
(* course and has it for a number of days.  Every command is a transaction *)
(* that locks the rows it changes, and is one action; four are two steps,  *)
(* because they act on what they read before they hold every lock:         *)
(*   - the assignment of a course reads the course row unlocked, and asks  *)
(*     the company service for the members before it issues the run,       *)
(*   - the activation of a personal access reads the course row unlocked,  *)
(*   - resuming a run reads the access status before it locks the run,     *)
(*   - deleting a course closes its runs first and its accesses later.     *)
(* Of the idempotency keys, the model keeps that a repeated key changes    *)
(* nothing: a repetition is a stuttering step.                             *)
(***************************************************************************)
EXTENDS Integers, FiniteSets, Sequences

CONSTANTS
    Lessons,        \* number of lessons of the pinned version
    QuizLesson,     \* lessons that a quiz completes
    MaxAttempts,    \* max_attempts of a quiz
    DeadlineDays,   \* deadline_days of the personal access
    ExtensionDays,  \* days of one extension
    Request,        \* concurrent requests to resume the run
    MaxClock,       \* bound: days that pass
    MaxUntil        \* bound: last access_until

Lesson == 1..Lessons

ASSUME EnrollmentAssumption ==
    /\ Lessons \in Nat \ {0}
    /\ QuizLesson \subseteq Lesson
    /\ MaxAttempts \in Nat \ {0}
    /\ DeadlineDays \in 1..7
    /\ ExtensionDays \in 1..7
    /\ MaxClock \in Nat
    /\ MaxUntil \in Nat
    /\ DeadlineDays <= MaxUntil

VARIABLES
    learner,      \* learner_type of the run
    sequential,   \* sequential of the version
    access,       \* access_status; "none": the run does not exist
    previous,     \* restriction_previous_access_status
    progress,     \* progress_status
    lesson,       \* status of the lessons; "locked": no progress row
    attempts,     \* decisions on the quiz attempts of a lesson, oldest first
    activatedAt,  \* activated_at, external learners
    until,        \* access_until, external learners
    suspendedAt,  \* suspended_at
    personal,     \* status of the personal access
    lifecycle,    \* lifecycle_status of the course
    restriction,  \* unresolved restrictions of the course
    assigning,    \* an assignment has read the course as active
    activating,   \* an activation that has read the course, and when
    resuming,     \* requests that have read the run as ready
    deleting,     \* a deletion that has closed the runs, not the accesses
    clock,        \* the day
    issuedLate,   \* history: the run was issued when the course was not active
    completions,  \* history: enrollment.completed events written
    left          \* history: days of access the external learner has left

runVars == <<access, previous, progress, lesson, attempts, activatedAt, until,
             suspendedAt>>
courseVars == <<lifecycle, restriction>>
flightVars == <<assigning, activating, resuming, deleting>>
historyVars == <<issuedLate, completions, left>>
vars == <<learner, sequential, access, previous, progress, lesson, attempts,
          activatedAt, until, suspendedAt, personal, lifecycle, restriction,
          assigning, activating, resuming, deleting, clock, issuedLate,
          completions, left>>

Access == {"ready", "active", "expired", "frozen", "suspended", "revoked",
           "closed"}
None == -1

TypeOK ==
    /\ learner \in {"user", "external"}
    /\ sequential \in BOOLEAN
    /\ access \in Access \cup {"none"}
    /\ previous \in (Access \ {"suspended", "closed"}) \cup {"none"}
    /\ progress \in {"not_started", "in_progress", "completed"}
    /\ lesson \in [Lesson -> {"locked", "available", "current", "completed"}]
    /\ \A l \in Lesson :
          /\ attempts[l] \in Seq({"failed", "passed", "pending_review"})
          /\ Len(attempts[l]) <= IF l \in QuizLesson THEN MaxAttempts ELSE 0
    /\ activatedAt \in None..MaxClock
    /\ until \in None..MaxUntil + MaxClock
    /\ suspendedAt \in None..MaxClock
    /\ personal \in {"none", "issued", "activated", "revoked", "closed"}
    /\ lifecycle \in {"active", "archived", "deleted"}
    /\ restriction \in SUBSET {"pause", "block"}
    /\ assigning \in BOOLEAN
    /\ activating \in None..MaxClock
    /\ resuming \in SUBSET Request
    /\ deleting \in {"no", "closing", "missed"}
    /\ clock \in 0..MaxClock
    /\ issuedLate \in BOOLEAN
    /\ completions \in Nat
    /\ left \in Int

Init ==
    /\ learner \in {"user", "external"}
    /\ sequential \in BOOLEAN
    /\ access = "none"
    /\ previous = "none"
    /\ progress = "not_started"
    /\ lesson = [l \in Lesson |-> "locked"]
    /\ attempts = [l \in Lesson |-> <<>>]
    /\ activatedAt = None
    /\ until = None
    /\ suspendedAt = None
    /\ personal = IF learner = "external" THEN "issued" ELSE "none"
    /\ lifecycle = "active"
    /\ restriction = {}
    /\ assigning = FALSE
    /\ activating = None
    /\ resuming = {}
    /\ deleting = "no"
    /\ clock = 0
    /\ issuedLate = FALSE
    /\ completions = 0
    /\ left = 0

-----------------------------------------------------------------------------
(* The aggregate.                                                            *)

\* distribution_status of the course, recomputed from its restrictions.
Blocked == "block" \in restriction
Paused == ~Blocked /\ "pause" \in restriction

\* No transaction holds the row of the course, or of the run.
CourseFree == deleting = "no"
RunFree == deleting # "closing"

\* validateSnapshot: a run that does not validate cannot be loaded.
Rehydrates ==
    /\ learner = "user" => until = None
    /\ learner = "external" /\ access = "active" =>
          activatedAt # None /\ until > activatedAt
    /\ sequential => \A l, m \in Lesson :
                        l < m /\ lesson[m] # "locked" => lesson[l] # "locked"
    /\ Cardinality({l \in Lesson : lesson[l] = "current"}) <= 1
    /\ progress = "not_started" => \A l \in Lesson : lesson[l] = "locked"
    /\ progress = "completed" => \A l \in Lesson : lesson[l] = "completed"

\* seedProgress, and the seeding of ActivateExternalPersonalAccess.
SeedProgress ==
    [l \in Lesson |-> IF l = 1 THEN "current"
                      ELSE IF sequential THEN "locked" ELSE "available"]

\* Mutation: a second activation is not recognised.
FirstActivationAlways == TRUE

\* Activate returns early when the run is active.
FirstActivation == access = "ready"

\* EvaluateDeadline: an external run ends when its deadline is reached.
InTime == learner = "external" => clock < until

\* requireForwardAccess.
ForwardAccess == access = "active" /\ InTime

\* CanViewLesson.
CanView(l) ==
    \/ ForwardAccess /\ lesson[l] # "locked"
    \/ /\ access \in {"expired", "frozen"} \/ (access = "active" /\ ~InTime)
       /\ lesson[l] = "completed"

\* What an external learner's command checks with the run locked.
MayMutate ==
    learner = "external" =>
        access = "active" /\ clock < until /\ lifecycle = "active" /\ ~Blocked

\* Mutation: completing a lesson again is accepted.
CompletableAgain(l) == lesson[l] # "locked"

\* The refusals of completeLesson.
Completable(l) ==
    /\ progress # "completed"
    /\ lesson[l] \notin {"locked", "completed"}

\* The progress rows with l completed.
Done(l) == [lesson EXCEPT ![l] = "completed"]

\* Mutation: in a sequential course, no further lesson is unlocked.
UnlockableOpen(l) == {m \in Lesson : Done(l)[m] \notin {"completed", "locked"}}

\* The lessons that may become current after l; the first of them does.
Unlockable(l) ==
    {m \in Lesson : /\ Done(l)[m] # "completed"
                    /\ Done(l)[m] = "locked" => sequential}

\* Mutation: the lesson after the completed one becomes current.
AfterLessonFollowing(l) ==
    IF l + 1 \in Unlockable(l) THEN [Done(l) EXCEPT ![l + 1] = "current"]
    ELSE Done(l)

\* The progress rows that completeLesson leaves.
AfterLesson(l) ==
    IF \/ \E m \in Lesson : Done(l)[m] = "current"
       \/ Unlockable(l) = {}
    THEN Done(l)
    ELSE [Done(l) EXCEPT ![CHOOSE m \in Unlockable(l) :
                              \A k \in Unlockable(l) : m <= k] = "current"]

\* completeLesson, persisted with the completion of the run and its event.
Complete(l) ==
    /\ Completable(l)
    /\ lesson' = AfterLesson(l)
    /\ IF \A m \in Lesson : Done(l)[m] = "completed"
       THEN progress' = "completed" /\ completions' = completions + 1
       ELSE UNCHANGED <<progress, completions>>

-----------------------------------------------------------------------------
(* The run begins.                                                           *)

\* AssignCourse up to resolveAssignees: the course is read without a lock, and
\* has to be active.
AssignRead ==
    /\ learner = "user" /\ ~assigning
    /\ lifecycle = "active"
    /\ assigning' = TRUE
    /\ UNCHANGED <<learner, sequential, runVars, personal, courseVars,
                   activating, resuming, deleting, clock, historyVars>>

\* The transaction of AssignCourse issues the run and does not look at the course
\* again.  It leaves a run that exists alone; so does a request that fails, with
\* the call to the company service or with other parameters than before.
AssignInsert ==
    /\ assigning
    /\ assigning' = FALSE
    /\ \/ /\ access = "none"
          /\ access' = "ready"
          /\ issuedLate' = (lifecycle # "active")
       \/ UNCHANGED <<access, issuedLate>>
    /\ UNCHANGED <<learner, sequential, previous, progress, lesson, attempts,
                   activatedAt, until, suspendedAt, personal, courseVars,
                   activating, resuming, deleting, clock, completions, left>>

\* SelfEnrollCourse: the course is locked while the run is written.
SelfEnrollCourse ==
    /\ learner = "user" /\ access = "none"
    /\ CourseFree /\ lifecycle = "active"
    /\ access' = "ready"
    /\ UNCHANGED <<learner, sequential, previous, progress, lesson, attempts,
                   activatedAt, until, suspendedAt, personal, courseVars,
                   flightVars, clock, historyVars>>

\* ensureUserAssignmentEnrollments: an event tells that the user has joined the
\* position or department that the course is assigned to.  The course is not read.
EnrollMember ==
    /\ learner = "user" /\ access = "none"
    /\ access' = "ready"
    /\ issuedLate' = (lifecycle # "active")
    /\ UNCHANGED <<learner, sequential, previous, progress, lesson, attempts,
                   activatedAt, until, suspendedAt, personal, courseVars,
                   flightVars, clock, completions, left>>

\* ResumeEnrollment, the first read: the run waits for its activation.
ResumeRead(q) ==
    /\ learner = "user" /\ access = "ready" /\ q \notin resuming
    /\ resuming' = resuming \cup {q}
    /\ UNCHANGED <<learner, sequential, runVars, personal, courseVars,
                   assigning, activating, deleting, clock, historyVars>>

\* ResumeEnrollment with the run locked: it is activated, found active, or
\* refused because it is neither ready nor active any more.
ResumeActivate(q) ==
    /\ q \in resuming
    /\ RunFree
    /\ resuming' = resuming \ {q}
    /\ IF access \in {"ready", "active"} /\ Rehydrates /\ FirstActivation
       THEN /\ access' = "active"
            /\ progress' = "in_progress"
            /\ lesson' = SeedProgress
       ELSE UNCHANGED <<access, progress, lesson>>
    /\ UNCHANGED <<learner, sequential, previous, attempts, activatedAt, until,
                   suspendedAt, personal, courseVars, assigning, activating,
                   deleting, clock, historyVars>>

\* ActivatePublicAcademyAccess: the access is locked (bound to the learner),
\* and the course is read as it is committed.
ActivateRead ==
    /\ personal = "issued"
    /\ activating = None
    /\ lifecycle = "active" /\ ~Blocked /\ ~Paused
    /\ activating' = clock
    /\ UNCHANGED <<learner, sequential, runVars, personal, courseVars,
                   assigning, resuming, deleting, clock, historyVars>>

\* The run is inserted active, with its first lessons and its deadline.
ActivateInsert ==
    /\ activating # None
    /\ access' = "active"
    /\ progress' = "in_progress"
    /\ lesson' = SeedProgress
    /\ activatedAt' = activating
    /\ until' = activating + DeadlineDays
    /\ left' = DeadlineDays - (clock - activating)
    /\ personal' = "activated"
    /\ activating' = None
    /\ UNCHANGED <<learner, sequential, previous, attempts, suspendedAt,
                   courseVars, assigning, resuming, deleting, clock, issuedLate,
                   completions>>

-----------------------------------------------------------------------------
(* The learner and the reviewer.                                             *)

\* CompleteEnrollmentLesson and CompletePublicAcademyEnrollmentLesson.
CompleteLesson(l) ==
    /\ RunFree /\ MayMutate /\ Rehydrates
    /\ l \notin QuizLesson
    /\ CanView(l)
    /\ Complete(l)
    /\ UNCHANGED <<learner, sequential, access, previous, attempts,
                   activatedAt, until, suspendedAt, personal, courseVars,
                   flightVars, clock, issuedLate, left>>

\* Mutation: the limit is compared before the attempt is counted.
AttemptLeftLate(l) ==
    /\ \A i \in DOMAIN attempts[l] : attempts[l][i] # "pending_review"
    /\ Len(attempts[l]) <= MaxAttempts

\* No attempt waits for a review, and the limit is not reached.
AttemptLeft(l) ==
    /\ \A i \in DOMAIN attempts[l] : attempts[l][i] # "pending_review"
    /\ Len(attempts[l]) < MaxAttempts

\* SubmitEnrollmentQuizAttempt and SubmitPublicAcademyQuizAttempt.  The answers
\* decide d; with an open question they wait for a review.
SubmitQuiz(l, d) ==
    /\ RunFree /\ MayMutate /\ Rehydrates
    /\ l \in QuizLesson
    /\ CanView(l)
    /\ progress # "completed"
    /\ AttemptLeft(l)
    /\ attempts' = [attempts EXCEPT ![l] = Append(@, d)]
    /\ IF d = "passed" THEN Complete(l)
       ELSE UNCHANGED <<lesson, progress, completions>>
    /\ UNCHANGED <<learner, sequential, access, previous, activatedAt, until,
                   suspendedAt, personal, courseVars, flightVars, clock,
                   issuedLate, left>>

\* ReviewEnrollmentQuizAttempt.
ReviewAttempt(l, i, d) ==
    /\ RunFree /\ Rehydrates
    /\ ForwardAccess
    /\ i \in DOMAIN attempts[l]
    /\ attempts[l][i] = "pending_review"
    /\ attempts' = [attempts EXCEPT ![l][i] = d]
    /\ IF d = "passed" THEN Complete(l)
       ELSE UNCHANGED <<lesson, progress, completions>>
    /\ UNCHANGED <<learner, sequential, access, previous, activatedAt, until,
                   suspendedAt, personal, courseVars, flightVars, clock,
                   issuedLate, left>>

-----------------------------------------------------------------------------
(* The access.                                                               *)

\* MaterializeExpiredExternalEnrollments, of the deadline job and the player.
Expire ==
    /\ learner = "external" /\ access = "active" /\ until <= clock
    /\ RunFree
    /\ access' = "expired"
    /\ UNCHANGED <<learner, sequential, previous, progress, lesson, attempts,
                   activatedAt, until, suspendedAt, personal, courseVars,
                   flightVars, clock, historyVars>>

\* ExtendExternalPersonalAccess: the days are added to the old deadline, also
\* when it has passed.  (ExtendExternalAccess of the aggregate counts the days of
\* an expired access from the present; only its tests call it.)
ExtendAccess ==
    /\ personal = "activated" /\ access \in {"active", "expired", "frozen"}
    /\ lifecycle # "deleted" /\ ~Blocked
    /\ activating = None /\ RunFree
    /\ until + ExtensionDays <= MaxUntil
    /\ until' = until + ExtensionDays
    /\ left' = left + ExtensionDays
    /\ access' = IF access = "expired" THEN "active" ELSE access
    /\ UNCHANGED <<learner, sequential, previous, progress, lesson, attempts,
                   activatedAt, suspendedAt, personal, courseVars, flightVars,
                   clock, issuedLate, completions>>

\* Mutation: the schema does not relate the columns of a suspension.
ShapeKeptAlways == TRUE

\* The check constraint on restriction_previous_access_status refuses a
\* statement that changes the access status of a suspended run alone.
ShapeKept == previous = "none"

\* RevokeExternalPersonalAccess.
RevokeAccess ==
    /\ personal \in {"issued", "activated"}
    /\ activating = None /\ RunFree
    /\ ShapeKept
    /\ personal' = "revoked"
    /\ access' = IF access = "none" THEN access ELSE "revoked"
    /\ UNCHANGED <<learner, sequential, previous, progress, lesson, attempts,
                   activatedAt, until, suspendedAt, courseVars, flightVars,
                   clock, historyVars>>

\* RevokeAssignment with RevokeAssignmentEnrollments.
RevokeAssignment ==
    /\ learner = "user" /\ access \notin {"none", "revoked", "closed"}
    /\ progress # "completed"
    /\ RunFree /\ ShapeKept
    /\ access' = "revoked"
    /\ UNCHANGED <<learner, sequential, previous, progress, lesson, attempts,
                   activatedAt, until, suspendedAt, personal, courseVars,
                   flightVars, clock, historyVars>>

-----------------------------------------------------------------------------
(* The course.                                                               *)

\* Mutation: only active runs are frozen.
FreezableActive == progress # "completed" /\ access = "active"

\* The runs that FreezeCourseEnrollmentsForArchive freezes.
Freezable ==
    /\ progress # "completed"
    /\ access \notin {"none", "frozen", "suspended", "revoked", "closed"}

\* ArchiveCourse.
ArchiveCourse ==
    /\ CourseFree
    /\ lifecycle = "active"
    /\ lifecycle' = "archived"
    /\ access' = IF Freezable THEN "frozen" ELSE access
    /\ UNCHANGED <<learner, sequential, previous, progress, lesson, attempts,
                   activatedAt, until, suspendedAt, personal, restriction,
                   flightVars, clock, historyVars>>

\* RestoreCourse leaves the runs frozen.
RestoreCourse ==
    /\ CourseFree
    /\ lifecycle = "archived"
    /\ lifecycle' = "active"
    /\ UNCHANGED <<learner, sequential, runVars, personal, restriction,
                   flightVars, clock, historyVars>>

\* PausePartnerCourse: new activations stop, the runs go on.
PauseCourse ==
    /\ learner = "external"
    /\ CourseFree
    /\ lifecycle = "active" /\ ~Blocked /\ ~Paused
    /\ restriction' = restriction \cup {"pause"}
    /\ UNCHANGED <<learner, sequential, runVars, personal, lifecycle,
                   flightVars, clock, historyVars>>

\* BlockPartnerCourse with SuspendCourseEnrollmentsForBlock.
BlockCourse ==
    /\ learner = "external"
    /\ CourseFree
    /\ lifecycle # "deleted" /\ ~Blocked
    /\ restriction' = restriction \cup {"block"}
    /\ IF access \notin {"none", "suspended", "closed"}
       THEN /\ previous' = access
            /\ access' = "suspended"
            /\ suspendedAt' = clock
       ELSE UNCHANGED <<previous, access, suspendedAt>>
    /\ UNCHANGED <<learner, sequential, progress, lesson, attempts,
                   activatedAt, until, personal, lifecycle, flightVars, clock,
                   historyVars>>

\* Mutation: a block always ends in an active run.
RestoredAccessActive == IF lifecycle = "archived" THEN "frozen" ELSE "active"

\* The access status that RestoreCourseEnrollmentsAfterBlock gives back.
RestoredAccess == IF lifecycle = "archived" THEN "frozen" ELSE previous

\* Mutation: the deadline is not moved.
RestoredUntilSame == until

\* The deadline moves by the time that an active run was suspended.
RestoredUntil ==
    IF previous = "active" THEN until + (clock - suspendedAt) ELSE until

\* ResolvePartnerCourseRestriction: the block first, then the pause.
ResolveRestriction ==
    /\ learner = "external"
    /\ CourseFree
    /\ lifecycle # "deleted" /\ restriction # {}
    /\ restriction' = restriction \ IF Blocked THEN {"block"} ELSE {"pause"}
    /\ IF Blocked /\ access = "suspended"
       THEN /\ access' = RestoredAccess
            /\ until' = RestoredUntil
            /\ previous' = "none"
            /\ suspendedAt' = None
       ELSE UNCHANGED <<access, until, previous, suspendedAt>>
    /\ UNCHANGED <<learner, sequential, progress, lesson, attempts,
                   activatedAt, personal, lifecycle, flightVars, clock,
                   historyVars>>

\* DeleteCourse up to CloseCourseEnrollmentsForDelete: it closes the run that
\* is visible to it, and keeps it and the course locked.
DeleteRuns ==
    /\ CourseFree
    /\ lifecycle # "deleted"
    /\ deleting' = IF access \in {"none", "closed"} THEN "missed" ELSE "closing"
    /\ UNCHANGED <<learner, sequential, runVars, personal, courseVars,
                   assigning, activating, resuming, clock, historyVars>>

\* DeleteCourse from CloseExternalPersonalAccessesForCourse to the commit: it
\* waits for an activation that holds the access.
DeleteCommit ==
    /\ ~CourseFree
    /\ activating = None
    /\ lifecycle' = "deleted"
    /\ deleting' = "no"
    /\ personal' = IF personal = "none" THEN personal ELSE "closed"
    /\ IF deleting = "closing"
       THEN access' = "closed" /\ previous' = "none" /\ suspendedAt' = None
       ELSE UNCHANGED <<access, previous, suspendedAt>>
    /\ UNCHANGED <<learner, sequential, progress, lesson, attempts,
                   activatedAt, until, restriction, assigning, activating,
                   resuming, clock, historyVars>>

\* A day passes.  It costs a day of access, unless a block suspends the run.
Tick ==
    /\ clock < MaxClock
    /\ clock' = clock + 1
    /\ left' = IF access = "none" \/ previous = "active" THEN left ELSE left - 1
    /\ UNCHANGED <<learner, sequential, runVars, personal, courseVars,
                   flightVars, issuedLate, completions>>

-----------------------------------------------------------------------------

Next ==
    \/ AssignRead
    \/ AssignInsert
    \/ SelfEnrollCourse
    \/ EnrollMember
    \/ \E q \in Request : ResumeRead(q) \/ ResumeActivate(q)
    \/ ActivateRead
    \/ ActivateInsert
    \/ \E l \in Lesson : CompleteLesson(l)
    \/ \E l \in QuizLesson, d \in {"failed", "passed", "pending_review"} :
          SubmitQuiz(l, d)
    \/ \E l \in QuizLesson, i \in 1..MaxAttempts, d \in {"failed", "passed"} :
          ReviewAttempt(l, i, d)
    \/ Expire
    \/ ExtendAccess
    \/ RevokeAccess
    \/ RevokeAssignment
    \/ ArchiveCourse
    \/ RestoreCourse
    \/ PauseCourse
    \/ BlockCourse
    \/ ResolveRestriction
    \/ DeleteRuns
    \/ DeleteCommit
    \/ Tick

Spec == Init /\ [][Next]_vars

-----------------------------------------------------------------------------
(* Properties.                                                               *)

\* Whatever the commands on the run, the access and the course, in whatever
\* order, the stored run is one that loadEnrollmentAggregate can load: otherwise
\* every later command on it would fail.
Loadable == access # "none" => Rehydrates

\* A run that has begun and is not finished always has exactly one current
\* lesson, the one that Resume leads the learner to.
NeverStranded ==
    progress = "in_progress" =>
        Cardinality({l \in Lesson : lesson[l] = "current"}) = 1

\* The completion of a run is announced once, and exactly when every lesson is
\* completed, by whichever of the three commands completes the last lesson.
CompletedOnce ==
    completions = IF \A l \in Lesson : lesson[l] = "completed" THEN 1 ELSE 0

\* An active external run ends exactly when the days granted to the learner are
\* used up: the days of a block are given back, none is given or taken twice.
\* After the deadline the days go on counting, as in the statement that extends an
\* access: they are deducted from the extension.  The comment on the aggregate's
\* ExtendExternalAccess says the contrary, that an expired access receives a fresh
\* period from server time; under that rule this property would not hold.
BlockCostsNothing ==
    learner = "external" /\ access \notin {"none", "suspended", "closed"} =>
        until - clock = left

\* An access that was revoked never leads to an active run again, through no
\* sequence of blocks, archives, extensions and activations.
RevokedStaysOut ==
    personal = "revoked" =>
        /\ access # "active"
        /\ access = "suspended" => previous \in {"revoked", "frozen"}

\* Only a suspended run remembers an earlier access status, and it always does:
\* the check constraint that every statement on the runs has to respect.
SuspensionShape ==
    /\ (access = "suspended") = (previous # "none")
    /\ (access = "suspended") = (suspendedAt # None)

\* Progress never moves backwards: no command, not even a late activation of a
\* run that was begun meanwhile, takes back a completed lesson or a decision.
NeverBackwards ==
    [][/\ \A l \in Lesson :
             /\ lesson[l] = "completed" => lesson'[l] = "completed"
             /\ lesson[l] # "locked" => lesson'[l] # "locked"
             /\ \A i \in DOMAIN attempts[l] :
                   attempts[l][i] # "pending_review" =>
                       attempts'[l][i] = attempts[l][i]
       /\ progress = "completed" => progress' = "completed"]_vars

\* No lesson is completed while the course is archived or blocked, by the
\* learner or by a late review, although an activation can escape a block.  The
\* exception is a run that was issued after the course was archived: by the
\* consumer of the events about users, or by an assignment that had read the
\* course before.
LearnsWhileOffered ==
    [][\A l \in Lesson :
          lesson[l] # "completed" /\ lesson'[l] = "completed" =>
              (lifecycle # "archived" /\ ~Blocked) \/ issuedLate]_vars

\* ADR-009: an archived course issues no runs.  The consumer of the events about
\* users issues them without a look at the course, and an assignment after a look
\* that an archive can make stale.
ArchivedIssuesNothing ==
    [][lifecycle = "archived" /\ access = "none" => access' = "none"]_vars
==================================================================================
