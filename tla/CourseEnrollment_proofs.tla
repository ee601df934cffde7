------------------------- MODULE CourseEnrollment_proofs -------------------------
(***************************************************************************)
(* Properties of a run for any number of lessons, quizzes, attempts, days  *)
(* and requests.                                                           *)
(*                                                                         *)
(* The proof has layers.  AccessInv is about the rows that the access      *)
(* of a run depends on: it gives SuspensionShape and RevokedStaysOut, and  *)
(* that a run that is not begun is the only one an activation finds ready. *)
(* ProgressInv rests on that: a run that has begun has exactly one current *)
(* lesson, and its completion is counted once.  DeadlineInv and OrderInv   *)
(* say from when the days of a run are counted, and that lessons open in   *)
(* order: they give BlockCostsNothing and Loadable.  OfferedInv says what  *)
(* an activation that escapes an archive or a block cannot have done, and  *)
(* gives LearnsWhileOffered.  DaysBounded and AttemptsBounded complete the *)
(* type invariant, which needs what the layers say of suspensions.         *)
(***************************************************************************)
EXTENDS CourseEnrollment, FiniteSetTheorems, WellFoundedInduction, TLAPS

AccessTypeOK ==
    /\ learner \in {"user", "external"}
    /\ access \in Access \cup {"none"}
    /\ previous \in (Access \ {"suspended", "closed"}) \cup {"none"}
    /\ suspendedAt \in Int
    /\ clock \in Nat

\* The statuses that a revoked access leaves to its run.
Barred == {"none", "revoked", "frozen", "suspended", "closed"}

AccessInv ==
    /\ AccessTypeOK
    /\ SuspensionShape
    /\ learner = "user" => personal = "none" /\ activating = None
    /\ learner = "external" => access # "ready" /\ previous # "ready" /\ ~assigning
    /\ personal = "issued" => access = "none"
    /\ activating # None => personal = "issued"
    /\ personal = "revoked" => access \in Barred /\ previous \in Barred

-----------------------------------------------------------------------------
(* The access.                                                               *)

\* Nothing is issued, suspended or revoked at first.
LEMMA AccessInit == Init => AccessInv
  BY DEF Init, AccessInv, AccessTypeOK, SuspensionShape, Access, None, Barred

\* The commands that begin a run find none, and give back no revoked access.
LEMMA AccessBegins ==
  ASSUME AccessInv,
         \/ AssignRead \/ AssignInsert \/ SelfEnrollCourse \/ EnrollMember
         \/ ActivateRead \/ ActivateInsert
         \/ \E q \in Request : ResumeRead(q) \/ ResumeActivate(q)
  PROVE  AccessInv'
<1> USE DEF AccessInv, AccessTypeOK, SuspensionShape, Access, Barred
<1>1. CASE SelfEnrollCourse
  BY <1>1 DEF SelfEnrollCourse, flightVars
<1>2. CASE EnrollMember
  BY <1>2 DEF EnrollMember, flightVars
<1>3. CASE ActivateRead
  BY <1>3 DEF ActivateRead, runVars
<1>4. CASE ActivateInsert
  BY <1>4 DEF ActivateInsert, None
<1>5. ASSUME NEW q \in Request, ResumeRead(q)
      PROVE  AccessInv'
  BY <1>5 DEF ResumeRead, runVars
<1>6. ASSUME NEW q \in Request, ResumeActivate(q)
      PROVE  AccessInv'
  BY <1>6 DEF ResumeActivate, FirstActivation
<1>7. CASE AssignRead
  BY <1>7 DEF AssignRead, runVars
<1>8. CASE AssignInsert
  BY <1>8 DEF AssignInsert
<1> QED
  BY <1>1, <1>2, <1>3, <1>4, <1>5, <1>6, <1>7, <1>8

\* The commands of the learner, the reviewer and the clock.
LEMMA AccessLearns ==
  ASSUME AccessInv,
         \/ \E l \in Lesson : CompleteLesson(l)
         \/ \E l \in QuizLesson, d \in {"failed", "passed", "pending_review"} :
               SubmitQuiz(l, d)
         \/ \E l \in QuizLesson, i \in 1..MaxAttempts, d \in {"failed", "passed"} :
               ReviewAttempt(l, i, d)
         \/ Tick
  PROVE  AccessInv'
<1> USE DEF AccessInv, AccessTypeOK, SuspensionShape, Access, Barred
<1>1. CASE \E l \in Lesson : CompleteLesson(l)
  BY <1>1 DEF CompleteLesson, flightVars
<1>2. CASE \E l \in QuizLesson, d \in {"failed", "passed", "pending_review"} :
               SubmitQuiz(l, d)
  BY <1>2 DEF SubmitQuiz, flightVars
<1>3. CASE \E l \in QuizLesson, i \in 1..MaxAttempts, d \in {"failed", "passed"} :
               ReviewAttempt(l, i, d)
  BY <1>3 DEF ReviewAttempt, flightVars
<1>4. CASE Tick
  BY <1>4 DEF Tick, runVars, flightVars
<1> QED
  BY <1>1, <1>2, <1>3, <1>4

\* The commands on the access and on the course.
LEMMA AccessChanges ==
  ASSUME AccessInv,
         \/ Expire \/ ExtendAccess \/ RevokeAccess \/ RevokeAssignment
         \/ ArchiveCourse \/ RestoreCourse \/ PauseCourse \/ BlockCourse
         \/ ResolveRestriction \/ DeleteRuns \/ DeleteCommit
  PROVE  AccessInv'
<1> USE DEF AccessInv, AccessTypeOK, SuspensionShape, Access, Barred
<1>1. CASE Expire
  BY <1>1 DEF Expire, flightVars
<1>2. CASE ExtendAccess
  BY <1>2 DEF ExtendAccess, flightVars
<1>3. CASE RevokeAccess
  BY <1>3 DEF RevokeAccess, ShapeKept, flightVars
<1>4. CASE RevokeAssignment
  BY <1>4 DEF RevokeAssignment, ShapeKept, flightVars
<1>5. CASE ArchiveCourse
  BY <1>5 DEF ArchiveCourse, Freezable, flightVars
<1>6. CASE RestoreCourse
  BY <1>6 DEF RestoreCourse, runVars, flightVars
<1>7. CASE PauseCourse
  BY <1>7 DEF PauseCourse, runVars, flightVars
<1>8. CASE BlockCourse
  BY <1>8 DEF BlockCourse, flightVars, None
<1>9. CASE ResolveRestriction
  BY <1>9 DEF ResolveRestriction, RestoredAccess, flightVars, None
<1>10. CASE DeleteRuns
  BY <1>10 DEF DeleteRuns, runVars
<1>11. CASE DeleteCommit
  BY <1>11 DEF DeleteCommit, None
<1> QED
  BY <1>1, <1>2, <1>3, <1>4, <1>5, <1>6, <1>7, <1>8, <1>9, <1>10, <1>11

\* No sequence of commands leaves AccessInv.
LEMMA AccessNext == AccessInv /\ [Next]_vars => AccessInv'
<1>1. AccessInv /\ UNCHANGED vars => AccessInv'
  BY DEF vars, AccessInv, AccessTypeOK, SuspensionShape
<1> QED
  BY <1>1, AccessBegins, AccessLearns, AccessChanges DEF Next

\* A run is suspended exactly as long as it remembers its earlier status.
THEOREM SuspensionShapeHolds == Spec => []SuspensionShape
<1>1. AccessInv => SuspensionShape
  BY DEF AccessInv
<1> QED
  BY AccessInit, AccessNext, <1>1, PTL DEF Spec

\* A revoked access never leads to an active run again.
THEOREM RevokedStaysOutHolds == Spec => []RevokedStaysOut
<1>1. AccessInv => RevokedStaysOut
  BY DEF AccessInv, SuspensionShape, Barred, RevokedStaysOut, AccessTypeOK, Access
<1> QED
  BY AccessInit, AccessNext, <1>1, PTL DEF Spec

-----------------------------------------------------------------------------
(* The progress.                                                             *)

LessonStatus == {"locked", "available", "current", "completed"}
Decision == {"failed", "passed", "pending_review"}

AllCompleted == \A l \in Lesson : lesson[l] = "completed"

\* Exactly one lesson is current.
OneCurrent == \E l \in Lesson : \A m \in Lesson : lesson[m] = "current" <=> m = l

ProgressInv ==
    /\ sequential \in BOOLEAN
    /\ progress \in {"not_started", "in_progress", "completed"}
    /\ lesson \in [Lesson -> LessonStatus]
    /\ attempts \in [Lesson -> Seq(Decision)]
    /\ access \in {"none", "ready"} => progress = "not_started"
    /\ progress = "not_started" => \A l \in Lesson : lesson[l] = "locked"
    /\ progress = "in_progress" => OneCurrent
    /\ progress = "in_progress" /\ ~sequential =>
          \A l \in Lesson : lesson[l] # "locked"
    /\ progress = "completed" => AllCompleted
    /\ CompletedOnce

\* What no step may do to the progress rows and the attempts.
KeepsProgress ==
    /\ \A l \in Lesson :
          /\ lesson[l] = "completed" => lesson'[l] = "completed"
          /\ lesson[l] # "locked" => lesson'[l] # "locked"
          /\ \A i \in DOMAIN attempts[l] :
                attempts[l][i] # "pending_review" =>
                    attempts'[l][i] = attempts[l][i]
    /\ progress = "completed" => progress' = "completed"

\* A set of natural numbers that is not empty has a least element.
LEMMA Least ==
  ASSUME NEW S \in SUBSET Nat, S # {}
  PROVE  \E m \in S : \A k \in S : m <= k
<1> DEFINE R == OpToRel(<, Nat)
<1>1. IsWellFoundedOn(R, Nat)
  BY NatLessThanWellFounded
<1>2. PICK m \in S : \A k \in S : ~ (<<k, m>> \in R)
  <2> HIDE DEF R
  <2> QED
    BY <1>1, WFMin
<1>3. \A a, b \in Nat : a < b => <<a, b>> \in R
  BY DEF OpToRel
<1> HIDE DEF R
<1>4. ASSUME NEW k \in S, k < m
      PROVE  FALSE
  <2>1. k \in Nat /\ m \in Nat
    OBVIOUS
  <2>2. <<k, m>> \in R
    BY <1>3, <1>4, <2>1
  <2> QED
    BY <1>2, <2>2
<1>5. \A k \in S : m <= k
  BY <1>4
<1> QED
  BY <1>5

\* A version has a first lesson.
LEMMA FirstLesson == 1 \in Lesson
  BY EnrollmentAssumption DEF Lesson

\* A run begins with no progress, in which no lesson is current or completed.
LEMMA ProgressInit == Init => ProgressInv
<1> SUFFICES ASSUME Init PROVE ProgressInv
  OBVIOUS
<1>1. ~AllCompleted
  BY FirstLesson DEF Init, AllCompleted
<1>2. attempts \in [Lesson -> Seq(Decision)]
  BY DEF Init
<1> QED
  BY <1>1, <1>2 DEF Init, ProgressInv, AllCompleted, CompletedOnce, LessonStatus

\* Completing an open lesson completes nothing else and locks nothing.  It makes
\* one lesson current if others are left.
LEMMA CompleteStep ==
  ASSUME ProgressInv, NEW l \in Lesson, Complete(l)
  PROVE  /\ progress = "in_progress"
         /\ lesson' \in [Lesson -> LessonStatus]
         /\ \A m \in Lesson : lesson[m] # "locked" => lesson'[m] # "locked"
         /\ \A m \in Lesson : lesson[m] = "completed" => lesson'[m] = "completed"
         /\ \/ progress' = "in_progress" /\ OneCurrent' /\ UNCHANGED completions
            \/ progress' = "completed" /\ AllCompleted' /\ completions' = 1
<1> DEFINE done == Done(l)
<1>1. /\ done \in [Lesson -> LessonStatus]
      /\ done[l] = "completed"
      /\ \A m \in Lesson : m # l => done[m] = lesson[m]
  BY DEF Done, ProgressInv, LessonStatus
<1>2. progress = "in_progress" /\ lesson[l] \in {"available", "current"}
  BY DEF Complete, Completable, ProgressInv, LessonStatus
<1>3. PICK c \in Lesson : \A m \in Lesson : lesson[m] = "current" <=> m = c
  BY <1>2 DEF ProgressInv, OneCurrent
<1>4. CASE \A m \in Lesson : done[m] = "completed"
  <2>1. Unlockable(l) = {}
    BY <1>4 DEF Unlockable
  <2>2. lesson' = done
    BY <2>1 DEF Complete, AfterLesson
  <2>3. progress' = "completed" /\ completions' = completions + 1
    BY <1>4 DEF Complete
  <2>4. completions = 0
    BY <1>2 DEF ProgressInv, CompletedOnce
  <2> QED
    BY <1>1, <1>2, <1>4, <2>2, <2>3, <2>4 DEF AllCompleted
<1>5. CASE \E m \in Lesson : done[m] # "completed"
  <2>1. progress' = "in_progress" /\ UNCHANGED completions
    BY <1>2, <1>5 DEF Complete
  <2>2. CASE c # l
    <3>1. done[c] = "current"
      BY <1>1, <1>3, <2>2
    <3>2. lesson' = done
      BY <3>1 DEF Complete, AfterLesson
    <3>3. \A m \in Lesson : done[m] = "current" <=> m = c
      BY <1>1, <1>3, <2>2
    <3> QED
      BY <1>1, <1>2, <2>1, <3>2, <3>3 DEF OneCurrent
  <2>3. CASE c = l
    <3>1. \A m \in Lesson : done[m] # "current"
      BY <1>1, <1>3, <2>3
    <3>2. Unlockable(l) # {}
      BY <1>1, <1>2, <1>5 DEF Unlockable, ProgressInv
    <3>3. Unlockable(l) \in SUBSET Nat
      BY EnrollmentAssumption DEF Unlockable, Lesson
    <3> DEFINE n == CHOOSE m \in Unlockable(l) :
                       \A k \in Unlockable(l) : m <= k
    <3>4. n \in Unlockable(l)
      BY <3>2, <3>3, Least
    <3>5. lesson' = [done EXCEPT ![n] = "current"]
      BY <3>1, <3>2 DEF Complete, AfterLesson
    <3>6. n \in Lesson /\ done[n] # "completed"
      BY <3>4 DEF Unlockable
    <3> HIDE DEF n, done
    <3>7. \A m \in Lesson : lesson'[m] = "current" <=> m = n
      BY <1>1, <3>1, <3>5, <3>6
    <3>8. lesson' \in [Lesson -> LessonStatus]
      BY <1>1, <3>5 DEF LessonStatus
    <3>9. \A m \in Lesson : lesson[m] = "completed" => lesson'[m] = "completed"
      BY <1>1, <3>5, <3>6
    <3>10. \A m \in Lesson : lesson[m] # "locked" => lesson'[m] # "locked"
      BY <1>1, <3>5
    <3>11. OneCurrent'
      BY <3>6, <3>7 DEF OneCurrent
    <3> QED
      BY <1>2, <2>1, <3>8, <3>9, <3>10, <3>11
  <2> QED
    BY <2>2, <2>3
<1> QED
  BY <1>4, <1>5
\* So does the rest of ProgressInv survive, and nothing is taken back.
LEMMA CompleteKeeps ==
  ASSUME ProgressInv, NEW l \in Lesson, Complete(l),
         UNCHANGED <<sequential, access>>, attempts' \in [Lesson -> Seq(Decision)]
  PROVE  /\ ProgressInv'
         /\ progress = "in_progress"
         /\ \A m \in Lesson :
               /\ lesson[m] = "completed" => lesson'[m] = "completed"
               /\ lesson[m] # "locked" => lesson'[m] # "locked"
<1>1. CASE progress' = "in_progress" /\ OneCurrent' /\ UNCHANGED completions
  <2>1. ~AllCompleted /\ ~AllCompleted'
    BY <1>1, CompleteStep DEF ProgressInv, OneCurrent, AllCompleted
  <2>2. CompletedOnce'
    BY <1>1, <2>1 DEF ProgressInv, CompletedOnce, AllCompleted
  <2> QED
    BY <1>1, <2>2, CompleteStep DEF ProgressInv
<1>2. CASE progress' = "completed" /\ AllCompleted' /\ completions' = 1
  <2>1. CompletedOnce'
    BY <1>2 DEF CompletedOnce, AllCompleted
  <2> QED
    BY <1>2, <2>1, CompleteStep DEF ProgressInv
<1> QED
  BY <1>1, <1>2, CompleteStep

\* A step that leaves the progress alone keeps it, unless the run seems not to
\* have begun any more.
LEMMA Untouched ==
  ASSUME ProgressInv,
         UNCHANGED <<sequential, progress, lesson, attempts, completions>>,
         access' \in {"none", "ready"} => access \in {"none", "ready"}
  PROVE  ProgressInv' /\ KeepsProgress
  BY DEF ProgressInv, OneCurrent, AllCompleted, CompletedOnce, KeepsProgress

\* The first lesson is current in the progress that an activation writes.
LEMMA Seeded ==
  ASSUME ProgressInv, progress = "not_started",
         progress' = "in_progress", lesson' = SeedProgress,
         UNCHANGED <<sequential, attempts, completions>>, access' = "active"
  PROVE  ProgressInv' /\ KeepsProgress
<1>1. lesson' \in [Lesson -> LessonStatus]
  BY DEF SeedProgress, LessonStatus
<1>2. \A m \in Lesson : lesson'[m] = "current" <=> m = 1
  BY DEF SeedProgress
<1>3. OneCurrent'
  BY <1>2, FirstLesson DEF OneCurrent
<1>4. ~sequential => \A m \in Lesson : lesson'[m] # "locked"
  BY DEF SeedProgress
<1>5. ~AllCompleted /\ ~AllCompleted'
  BY <1>2, FirstLesson DEF ProgressInv, AllCompleted
<1>6. CompletedOnce'
  BY <1>5 DEF ProgressInv, CompletedOnce, AllCompleted
<1>7. ProgressInv'
  BY <1>1, <1>3, <1>4, <1>6 DEF ProgressInv
<1>8. KeepsProgress
  BY DEF ProgressInv, KeepsProgress
<1> QED
  BY <1>7, <1>8

\* The beginning of a run: only a run without progress is found ready.
LEMMA ProgressBegins ==
  ASSUME AccessInv, ProgressInv,
         \/ AssignRead \/ AssignInsert \/ SelfEnrollCourse \/ EnrollMember
         \/ ActivateRead \/ ActivateInsert
         \/ \E q \in Request : ResumeRead(q) \/ ResumeActivate(q)
  PROVE  ProgressInv' /\ KeepsProgress
<1>1. CASE SelfEnrollCourse
  BY <1>1, Untouched DEF SelfEnrollCourse, historyVars
<1>2. CASE EnrollMember
  BY <1>2, Untouched DEF EnrollMember
<1>3. CASE ActivateRead
  BY <1>3, Untouched DEF ActivateRead, runVars, historyVars
<1>4. CASE ActivateInsert
  <2>1. progress = "not_started"
    BY <1>4 DEF ActivateInsert, AccessInv, ProgressInv
  <2> QED
    BY <1>4, <2>1, Seeded DEF ActivateInsert
<1>5. ASSUME NEW q \in Request, ResumeRead(q)
      PROVE  ProgressInv' /\ KeepsProgress
  BY <1>5, Untouched DEF ResumeRead, runVars, historyVars
<1>6. ASSUME NEW q \in Request, ResumeActivate(q)
      PROVE  ProgressInv' /\ KeepsProgress
  <2>1. CASE access \in {"ready", "active"} /\ Rehydrates /\ FirstActivation
    <3>1. progress = "not_started"
      BY <2>1 DEF FirstActivation, ProgressInv
    <3> QED
      BY <1>6, <2>1, <3>1, Seeded DEF ResumeActivate, historyVars
  <2>2. CASE ~(access \in {"ready", "active"} /\ Rehydrates /\ FirstActivation)
    BY <1>6, <2>2, Untouched DEF ResumeActivate, historyVars
  <2> QED
    BY <2>1, <2>2
<1>7. CASE AssignRead
  BY <1>7, Untouched DEF AssignRead, runVars, historyVars
<1>8. CASE AssignInsert
  BY <1>8, Untouched DEF AssignInsert
<1> QED
  BY <1>1, <1>2, <1>3, <1>4, <1>5, <1>6, <1>7, <1>8

\* The commands of the learner and the reviewer.
LEMMA ProgressLearns ==
  ASSUME ProgressInv,
         \/ \E l \in Lesson : CompleteLesson(l)
         \/ \E l \in QuizLesson, d \in {"failed", "passed", "pending_review"} :
               SubmitQuiz(l, d)
         \/ \E l \in QuizLesson, i \in 1..MaxAttempts, d \in {"failed", "passed"} :
               ReviewAttempt(l, i, d)
         \/ Tick
  PROVE  ProgressInv' /\ KeepsProgress
<1>1. ASSUME NEW l \in Lesson, CompleteLesson(l)
      PROVE  ProgressInv' /\ KeepsProgress
  <2>1. Complete(l) /\ UNCHANGED <<sequential, access, attempts>>
    BY <1>1 DEF CompleteLesson
  <2>2. attempts' \in [Lesson -> Seq(Decision)]
    BY <2>1 DEF ProgressInv
  <2> QED
    BY <2>1, <2>2, CompleteKeeps DEF KeepsProgress
<1>2. ASSUME NEW l \in QuizLesson, NEW d \in Decision, SubmitQuiz(l, d)
      PROVE  ProgressInv' /\ KeepsProgress
  <2>1. /\ UNCHANGED <<sequential, access>>
        /\ attempts' = [attempts EXCEPT ![l] = Append(@, d)]
        /\ l \in Lesson
    BY <1>2, EnrollmentAssumption DEF SubmitQuiz
  <2>2. attempts[l] \in Seq(Decision)
    BY <2>1 DEF ProgressInv
  <2>3. /\ Append(attempts[l], d) \in Seq(Decision)
        /\ \A i \in DOMAIN attempts[l] : Append(attempts[l], d)[i] = attempts[l][i]
    BY <2>2
  <2>4. /\ attempts' \in [Lesson -> Seq(Decision)]
        /\ \A m \in Lesson : \A i \in DOMAIN attempts[m] :
              attempts'[m][i] = attempts[m][i]
    BY <2>1, <2>3 DEF ProgressInv
  <2>5. CASE Complete(l)
    BY <2>1, <2>4, <2>5, CompleteKeeps DEF KeepsProgress
  <2>6. CASE UNCHANGED <<lesson, progress, completions>>
    BY <2>1, <2>4, <2>6 DEF ProgressInv, OneCurrent, AllCompleted,
                            CompletedOnce, KeepsProgress
  <2> QED
    BY <1>2, <2>5, <2>6 DEF SubmitQuiz
<1>3. ASSUME NEW l \in QuizLesson, NEW i \in 1..MaxAttempts,
             NEW d \in {"failed", "passed"}, ReviewAttempt(l, i, d)
      PROVE  ProgressInv' /\ KeepsProgress
  <2>1. /\ UNCHANGED <<sequential, access>>
        /\ attempts' = [attempts EXCEPT ![l][i] = d]
        /\ i \in DOMAIN attempts[l]
        /\ attempts[l][i] = "pending_review"
        /\ l \in Lesson
    BY <1>3, EnrollmentAssumption DEF ReviewAttempt
  <2>2. attempts[l] \in Seq(Decision)
    BY <2>1 DEF ProgressInv
  <2>3. /\ [attempts[l] EXCEPT ![i] = d] \in Seq(Decision)
        /\ \A j \in DOMAIN attempts[l] :
              j # i => [attempts[l] EXCEPT ![i] = d][j] = attempts[l][j]
    BY <2>1, <2>2 DEF Decision
  <2>4. /\ attempts' \in [Lesson -> Seq(Decision)]
        /\ \A m \in Lesson : \A j \in DOMAIN attempts[m] :
              attempts[m][j] # "pending_review" => attempts'[m][j] = attempts[m][j]
    BY <2>1, <2>3 DEF ProgressInv
  <2>5. CASE Complete(l)
    BY <2>1, <2>4, <2>5, CompleteKeeps DEF KeepsProgress
  <2>6. CASE UNCHANGED <<lesson, progress, completions>>
    BY <2>1, <2>4, <2>6 DEF ProgressInv, OneCurrent, AllCompleted,
                            CompletedOnce, KeepsProgress
  <2> QED
    BY <1>3, <2>5, <2>6 DEF ReviewAttempt
<1>4. CASE Tick
  BY <1>4, Untouched DEF Tick, runVars
<1> QED
  BY <1>1, <1>2, <1>3, <1>4 DEF Decision

\* The commands on the access and the course never make a run look ready again.
LEMMA ProgressStays ==
  ASSUME AccessInv, ProgressInv,
         \/ Expire \/ ExtendAccess \/ RevokeAccess \/ RevokeAssignment
         \/ ArchiveCourse \/ RestoreCourse \/ PauseCourse \/ BlockCourse
         \/ ResolveRestriction \/ DeleteRuns \/ DeleteCommit
  PROVE  ProgressInv' /\ KeepsProgress
<1>1. UNCHANGED <<sequential, progress, lesson, attempts, completions>>
  BY DEF Expire, ExtendAccess, RevokeAccess, RevokeAssignment, ArchiveCourse,
         RestoreCourse, PauseCourse, BlockCourse, ResolveRestriction,
         DeleteRuns, DeleteCommit, runVars, historyVars
<1>2. access' \in {"none", "ready"} => access \in {"none", "ready"}
  BY DEF Expire, ExtendAccess, RevokeAccess, RevokeAssignment, ArchiveCourse,
         RestoreCourse, PauseCourse, BlockCourse, ResolveRestriction,
         RestoredAccess, DeleteRuns, DeleteCommit, runVars, AccessInv,
         SuspensionShape
<1> QED
  BY <1>1, <1>2, Untouched

\* No sequence of commands leaves both invariants or takes progress back.
LEMMA ProgressNext ==
  ASSUME AccessInv, ProgressInv, [Next]_vars
  PROVE  ProgressInv' /\ KeepsProgress
<1>1. CASE UNCHANGED vars
  BY <1>1, Untouched DEF vars
<1>2. CASE Next
  BY <1>2, ProgressBegins, ProgressLearns, ProgressStays DEF Next
<1> QED
  BY <1>1, <1>2

\* The two layers together.
THEOREM EnrollmentInvariance == Spec => [](AccessInv /\ ProgressInv)
<1>1. Init => AccessInv /\ ProgressInv
  BY AccessInit, ProgressInit
<1>2. AccessInv /\ ProgressInv /\ [Next]_vars => AccessInv' /\ ProgressInv'
  BY AccessNext, ProgressNext
<1> QED
  BY <1>1, <1>2, PTL DEF Spec

\* The completion of a run is announced once, when its last lesson is completed.
THEOREM CompletedOnceHolds == Spec => []CompletedOnce
<1>1. ProgressInv => CompletedOnce
  BY DEF ProgressInv
<1> QED
  BY EnrollmentInvariance, <1>1, PTL

\* A run that has begun and is not finished has exactly one current lesson.
THEOREM NeverStrandedHolds == Spec => []NeverStranded
<1>1. ProgressInv => NeverStranded
  <2> SUFFICES ASSUME ProgressInv, progress = "in_progress"
               PROVE  Cardinality({l \in Lesson : lesson[l] = "current"}) = 1
    BY DEF NeverStranded
  <2>1. PICK c \in Lesson : \A m \in Lesson : lesson[m] = "current" <=> m = c
    BY DEF ProgressInv, OneCurrent
  <2>2. {l \in Lesson : lesson[l] = "current"} = {c}
    BY <2>1
  <2> QED
    BY <2>2, FS_Singleton
<1> QED
  BY EnrollmentInvariance, <1>1, PTL

\* Progress never moves backwards, not even by a late activation.
THEOREM NeverBackwardsHolds == Spec => NeverBackwards
<1>1. AccessInv /\ ProgressInv /\ [Next]_vars => [KeepsProgress]_vars
  BY ProgressNext
<1>2. [KeepsProgress]_vars =>
        [/\ \A l \in Lesson :
              /\ lesson[l] = "completed" => lesson'[l] = "completed"
              /\ lesson[l] # "locked" => lesson'[l] # "locked"
              /\ \A i \in DOMAIN attempts[l] :
                    attempts[l][i] # "pending_review" =>
                        attempts'[l][i] = attempts[l][i]
         /\ progress = "completed" => progress' = "completed"]_vars
  BY DEF KeepsProgress
<1> QED
  BY EnrollmentInvariance, <1>1, <1>2, PTL DEF Spec, NeverBackwards

-----------------------------------------------------------------------------
(* The deadline and the order of the lessons.                                *)

\* The moment from which the days of a run are counted: they stand still while
\* a block suspends a run that was active.
CountedFrom == IF previous = "active" THEN suspendedAt ELSE clock

DeadlineInv ==
    /\ activatedAt \in Int /\ until \in Int /\ left \in Int /\ activating \in Int
    /\ suspendedAt <= clock
    /\ learner = "user" => until = None
    /\ learner = "external" =>
          personal # "none" /\ (access = "closed" => personal = "closed")
    /\ learner = "external" /\ access \notin {"none", "closed"} =>
          /\ activatedAt # None /\ until > activatedAt
          /\ until - CountedFrom = left

\* In a sequential course, no open lesson follows a locked one.
OrderInv ==
    sequential => \A l, m \in Lesson :
                     l < m /\ lesson[m] # "locked" => lesson[l] # "locked"

\* No run has days, and every lesson is locked at first.
LEMMA DeadlineInit == Init => DeadlineInv /\ OrderInv
  BY DEF Init, DeadlineInv, OrderInv, CountedFrom, None

\* The commands that begin a run give it all its days.
LEMMA DeadlineBegins ==
  ASSUME AccessInv, DeadlineInv,
         \/ AssignRead \/ AssignInsert \/ SelfEnrollCourse \/ EnrollMember
         \/ ActivateRead \/ ActivateInsert
         \/ \E q \in Request : ResumeRead(q) \/ ResumeActivate(q)
  PROVE  DeadlineInv'
<1> USE DEF AccessInv, AccessTypeOK, DeadlineInv, CountedFrom
<1>1. CASE SelfEnrollCourse
  BY <1>1 DEF SelfEnrollCourse, flightVars, historyVars
<1>2. CASE EnrollMember
  BY <1>2 DEF EnrollMember, flightVars
<1>3. CASE ActivateRead
  BY <1>3 DEF ActivateRead, runVars, historyVars
<1>4. CASE ActivateInsert
  <2>1. DeadlineDays \in Nat /\ DeadlineDays > 0
    BY EnrollmentAssumption
  <2>2. learner = "external" /\ access = "none" /\ previous = "none"
    BY <1>4 DEF ActivateInsert, SuspensionShape
  <2> QED
    BY <1>4, <2>1, <2>2 DEF ActivateInsert, None
<1>5. ASSUME NEW q \in Request, ResumeRead(q)
      PROVE  DeadlineInv'
  BY <1>5 DEF ResumeRead, runVars, historyVars
<1>6. ASSUME NEW q \in Request, ResumeActivate(q)
      PROVE  DeadlineInv'
  BY <1>6 DEF ResumeActivate, FirstActivation, historyVars
<1>7. CASE AssignRead
  BY <1>7 DEF AssignRead, runVars, historyVars
<1>8. CASE AssignInsert
  BY <1>8 DEF AssignInsert
<1> QED
  BY <1>1, <1>2, <1>3, <1>4, <1>5, <1>6, <1>7, <1>8

\* The learner and the reviewer spend no days; the clock spends them unless the
\* run is suspended.
LEMMA DeadlineLearns ==
  ASSUME AccessInv, DeadlineInv,
         \/ \E l \in Lesson : CompleteLesson(l)
         \/ \E l \in QuizLesson, d \in {"failed", "passed", "pending_review"} :
               SubmitQuiz(l, d)
         \/ \E l \in QuizLesson, i \in 1..MaxAttempts, d \in {"failed", "passed"} :
               ReviewAttempt(l, i, d)
         \/ Tick
  PROVE  DeadlineInv'
<1> USE DEF AccessInv, AccessTypeOK, DeadlineInv, CountedFrom
<1>1. CASE \E l \in Lesson : CompleteLesson(l)
  BY <1>1 DEF CompleteLesson, flightVars
<1>2. CASE \E l \in QuizLesson, d \in {"failed", "passed", "pending_review"} :
               SubmitQuiz(l, d)
  BY <1>2 DEF SubmitQuiz, flightVars
<1>3. CASE \E l \in QuizLesson, i \in 1..MaxAttempts, d \in {"failed", "passed"} :
               ReviewAttempt(l, i, d)
  BY <1>3 DEF ReviewAttempt, flightVars
<1>4. CASE Tick
  BY <1>4 DEF Tick, runVars, flightVars
<1> QED
  BY <1>1, <1>2, <1>3, <1>4

\* The commands on the access and the course: an extension grants days, the end
\* of a block gives back the days it took.
LEMMA DeadlineChanges ==
  ASSUME AccessInv, DeadlineInv,
         \/ Expire \/ ExtendAccess \/ RevokeAccess \/ RevokeAssignment
         \/ ArchiveCourse \/ RestoreCourse \/ PauseCourse \/ BlockCourse
         \/ ResolveRestriction \/ DeleteRuns \/ DeleteCommit
  PROVE  DeadlineInv'
<1> USE DEF AccessInv, AccessTypeOK, DeadlineInv, CountedFrom, SuspensionShape
<1>1. CASE Expire
  BY <1>1 DEF Expire, flightVars, historyVars
<1>2. CASE ExtendAccess
  <2>1. ExtensionDays \in Nat
    BY EnrollmentAssumption
  <2> QED
    BY <1>2, <2>1 DEF ExtendAccess, flightVars
<1>3. CASE RevokeAccess
  BY <1>3 DEF RevokeAccess, flightVars, historyVars
<1>4. CASE RevokeAssignment
  BY <1>4 DEF RevokeAssignment, flightVars, historyVars
<1>5. CASE ArchiveCourse
  BY <1>5 DEF ArchiveCourse, Freezable, flightVars, historyVars
<1>6. CASE RestoreCourse
  BY <1>6 DEF RestoreCourse, runVars, flightVars, historyVars
<1>7. CASE PauseCourse
  BY <1>7 DEF PauseCourse, runVars, flightVars, historyVars
<1>8. CASE BlockCourse
  BY <1>8 DEF BlockCourse, flightVars, historyVars, None
<1>9. CASE ResolveRestriction
  BY <1>9 DEF ResolveRestriction, RestoredAccess, RestoredUntil, flightVars,
              historyVars, None
<1>10. CASE DeleteRuns
  BY <1>10 DEF DeleteRuns, runVars, historyVars
<1>11. CASE DeleteCommit
  BY <1>11 DEF DeleteCommit, historyVars, None
<1> QED
  BY <1>1, <1>2, <1>3, <1>4, <1>5, <1>6, <1>7, <1>8, <1>9, <1>10, <1>11

\* The lesson that completeLesson opens is the first one that is not completed,
\* so the ones before it are open.
LEMMA OrderComplete ==
  ASSUME ProgressInv, OrderInv, NEW l \in Lesson, Complete(l), UNCHANGED sequential
  PROVE  OrderInv'
<1> SUFFICES ASSUME sequential, NEW i \in Lesson, NEW j \in Lesson, i < j,
                    lesson'[j] # "locked"
             PROVE  lesson'[i] # "locked"
  BY DEF OrderInv
<1>1. \A m \in Lesson : lesson[m] # "locked" => lesson'[m] # "locked"
  BY CompleteStep
<1>2. CASE lesson[j] # "locked"
  BY <1>1, <1>2 DEF OrderInv
<1>3. CASE lesson[j] = "locked"
  <2> DEFINE done == Done(l)
             n == CHOOSE m \in Unlockable(l) : \A k \in Unlockable(l) : m <= k
  <2>1. /\ done \in [Lesson -> LessonStatus]
        /\ done[l] = "completed"
        /\ \A m \in Lesson : m # l => done[m] = lesson[m]
    BY DEF Done, ProgressInv, LessonStatus
  <2>2. j # l
    BY <1>3 DEF Complete, Completable
  <2>3. done[j] = "locked"
    BY <1>3, <2>1, <2>2
  <2>4. lesson' # done
    BY <2>3
  <2>5. Unlockable(l) # {} /\ lesson' = [done EXCEPT ![n] = "current"]
    BY <2>4 DEF Complete, AfterLesson
  <2>6. Unlockable(l) \in SUBSET Nat
    BY EnrollmentAssumption DEF Unlockable, Lesson
  <2>7. \A k \in Unlockable(l) : n <= k
    BY <2>5, <2>6, Least
  <2> HIDE DEF n
  <2>8. j = n
    BY <2>1, <2>3, <2>5
  <2>9. i \in Nat /\ j \in Nat
    BY EnrollmentAssumption DEF Lesson
  <2>10. i \notin Unlockable(l)
    BY <2>7, <2>8, <2>9
  <2>11. done[i] = "completed"
    BY <2>10 DEF Unlockable
  <2> HIDE DEF done
  <2>12. i # n
    BY <2>8, <2>9
  <2>13. lesson'[i] = done[i]
    BY <2>1, <2>5, <2>12
  <2> QED
    BY <2>11, <2>13
<1> QED
  BY <1>2, <1>3

\* A step keeps the progress rows, completes a lesson or seeds the rows.
LEMMA OrderCases ==
  ASSUME [Next]_vars
  PROVE  /\ UNCHANGED sequential
         /\ \/ UNCHANGED lesson
            \/ lesson' = SeedProgress
            \/ \E l \in Lesson : Complete(l)
<1>1. CASE UNCHANGED vars
  BY <1>1 DEF vars
<1>2. CASE Next
  <2> USE DEF runVars
  <2>1. CASE \E l \in Lesson : CompleteLesson(l)
    BY <2>1 DEF CompleteLesson
  <2>2. CASE \E l \in QuizLesson, d \in {"failed", "passed", "pending_review"} :
               SubmitQuiz(l, d)
    BY <2>2, EnrollmentAssumption DEF SubmitQuiz
  <2>3. CASE \E l \in QuizLesson, i \in 1..MaxAttempts, d \in {"failed", "passed"} :
               ReviewAttempt(l, i, d)
    BY <2>3, EnrollmentAssumption DEF ReviewAttempt
  <2>4. CASE \/ AssignRead \/ AssignInsert \/ SelfEnrollCourse \/ EnrollMember
             \/ ActivateRead \/ ActivateInsert
             \/ \E q \in Request : ResumeRead(q) \/ ResumeActivate(q)
    BY <2>4 DEF AssignRead, AssignInsert, SelfEnrollCourse, EnrollMember,
                ActivateRead, ActivateInsert, ResumeRead, ResumeActivate
  <2>5. CASE \/ Expire \/ ExtendAccess \/ RevokeAccess \/ RevokeAssignment
             \/ ArchiveCourse \/ RestoreCourse \/ PauseCourse \/ BlockCourse
             \/ ResolveRestriction \/ DeleteRuns \/ DeleteCommit \/ Tick
    BY <2>5 DEF Expire, ExtendAccess, RevokeAccess, RevokeAssignment,
                ArchiveCourse, RestoreCourse, PauseCourse, BlockCourse,
                ResolveRestriction, DeleteRuns, DeleteCommit, Tick
  <2> QED
    BY <1>2, <2>1, <2>2, <2>3, <2>4, <2>5 DEF Next
<1> QED
  BY <1>1, <1>2

\* No step opens a lesson behind a locked one.
LEMMA OrderNext ==
  ASSUME ProgressInv, OrderInv, [Next]_vars
  PROVE  OrderInv'
<1>1. CASE UNCHANGED lesson
  BY <1>1, OrderCases DEF OrderInv
<1>2. CASE lesson' = SeedProgress
  <2>1. \A l, m \in Lesson : l < m => m # 1
    BY EnrollmentAssumption DEF Lesson
  <2> QED
    BY <1>2, <2>1, OrderCases DEF OrderInv, SeedProgress
<1>3. CASE \E l \in Lesson : Complete(l)
  BY <1>3, OrderCases, OrderComplete
<1> QED
  BY <1>1, <1>2, <1>3, OrderCases

\* No sequence of commands leaves the third layer.
LEMMA DeadlineNext ==
  ASSUME AccessInv, ProgressInv, DeadlineInv, OrderInv, [Next]_vars
  PROVE  DeadlineInv' /\ OrderInv'
<1>1. CASE UNCHANGED vars
  BY <1>1, OrderNext DEF vars, DeadlineInv, CountedFrom
<1>2. CASE Next
  BY <1>2, OrderNext, DeadlineBegins, DeadlineLearns, DeadlineChanges DEF Next
<1> QED
  BY <1>1, <1>2

\* These three layers together.
THEOREM DeadlineInvariance ==
    Spec => [](AccessInv /\ ProgressInv /\ DeadlineInv /\ OrderInv)
<1>1. Init => DeadlineInv /\ OrderInv
  BY DeadlineInit
<1>2. AccessInv /\ ProgressInv /\ DeadlineInv /\ OrderInv /\ [Next]_vars
        => DeadlineInv' /\ OrderInv'
  BY DeadlineNext
<1> QED
  BY EnrollmentInvariance, <1>1, <1>2, PTL DEF Spec

\* The days of a block are given back, and none is given or taken twice.
THEOREM BlockCostsNothingHolds == Spec => []BlockCostsNothing
<1>1. AccessInv /\ DeadlineInv => BlockCostsNothing
  BY DEF AccessInv, SuspensionShape, DeadlineInv, CountedFrom, BlockCostsNothing
<1> QED
  BY DeadlineInvariance, <1>1, PTL

\* A stored run is always one that can be loaded.
THEOREM LoadableHolds == Spec => []Loadable
<1>1. AccessInv /\ ProgressInv /\ DeadlineInv /\ OrderInv => Loadable
  <2> SUFFICES ASSUME AccessInv, ProgressInv, DeadlineInv, OrderInv, access # "none"
               PROVE  Rehydrates
    BY DEF Loadable
  <2> DEFINE open == {l \in Lesson : lesson[l] = "current"}
  <2>1. Cardinality(open) <= 1
    <3>1. CASE progress = "in_progress"
      <4>1. PICK c \in Lesson : \A m \in Lesson : lesson[m] = "current" <=> m = c
        BY <3>1 DEF ProgressInv, OneCurrent
      <4>2. open = {c}
        BY <4>1
      <4>3. Cardinality({c}) = 1
        BY FS_Singleton
      <4> QED
        BY <4>2, <4>3
    <3>2. CASE progress # "in_progress"
      <4>1. open = {}
        BY <3>2 DEF ProgressInv, AllCompleted
      <4>2. Cardinality({}) = 0
        BY FS_EmptySet
      <4> QED
        BY <4>1, <4>2
    <3> QED
      BY <3>1, <3>2
  <2>2. /\ learner = "user" => until = None
        /\ learner = "external" /\ access = "active" =>
              activatedAt # None /\ until > activatedAt
    BY DEF DeadlineInv
  <2>3. /\ progress = "not_started" => \A l \in Lesson : lesson[l] = "locked"
        /\ progress = "completed" => \A l \in Lesson : lesson[l] = "completed"
    BY DEF ProgressInv, AllCompleted
  <2> QED
    BY <2>1, <2>2, <2>3 DEF Rehydrates, OrderInv
<1> QED
  BY DeadlineInvariance, <1>1, PTL

-----------------------------------------------------------------------------
(* Learning while the course is offered.                                     *)

\* No quiz was submitted.
NoAttempts == \A l \in Lesson : attempts[l] = <<>>

\* An activation can escape an archive or a block.  Such a run stays without
\* attempts as long as the course is not offered, so no late review finds one.
OfferedInv ==
    /\ access = "none" => NoAttempts
    /\ learner = "user" => restriction = {}
    /\ \/ lifecycle # "archived"
       \/ issuedLate
       \/ progress = "completed"
       \/ access \notin {"ready", "active", "expired"}
       \/ learner = "external" /\ NoAttempts
    /\ \/ ~Blocked
       \/ access \in {"none", "suspended", "closed"}
       \/ NoAttempts

\* The course is offered and nothing was submitted at first.
LEMMA OfferedInit == Init => OfferedInv
  BY DEF Init, OfferedInv, NoAttempts, Blocked

\* The beginning of a run: an activation that escaped has no attempts.
LEMMA OfferedBegins ==
  ASSUME AccessInv, ProgressInv, OfferedInv,
         \/ AssignRead \/ AssignInsert \/ SelfEnrollCourse \/ EnrollMember
         \/ ActivateRead \/ ActivateInsert
         \/ \E q \in Request : ResumeRead(q) \/ ResumeActivate(q)
  PROVE  OfferedInv'
<1> USE DEF AccessInv, AccessTypeOK, OfferedInv, NoAttempts, Blocked, courseVars
<1>1. CASE SelfEnrollCourse
  BY <1>1 DEF SelfEnrollCourse, historyVars
<1>2. CASE EnrollMember
  BY <1>2 DEF EnrollMember
<1>3. CASE ActivateRead
  BY <1>3 DEF ActivateRead, runVars, historyVars
<1>4. CASE ActivateInsert
  BY <1>4 DEF ActivateInsert
<1>5. ASSUME NEW q \in Request, ResumeRead(q)
      PROVE  OfferedInv'
  BY <1>5 DEF ResumeRead, runVars, historyVars
<1>6. ASSUME NEW q \in Request, ResumeActivate(q)
      PROVE  OfferedInv'
  BY <1>6 DEF ResumeActivate, FirstActivation, ProgressInv, historyVars
<1>7. CASE AssignRead
  BY <1>7 DEF AssignRead, runVars, historyVars
<1>8. CASE AssignInsert
  <2>1. CASE /\ access = "none" /\ access' = "ready"
             /\ issuedLate' = (lifecycle # "active")
    BY <1>8, <2>1 DEF AssignInsert
  <2>2. CASE UNCHANGED <<access, issuedLate>>
    BY <1>8, <2>2 DEF AssignInsert
  <2> QED
    BY <1>8, <2>1, <2>2 DEF AssignInsert
<1> QED
  BY <1>1, <1>2, <1>3, <1>4, <1>5, <1>6, <1>7, <1>8

\* A lesson that may be seen and is not completed belongs to an active run.
LEMMA SeenOpen ==
  ASSUME NEW l \in Lesson, CanView(l), lesson[l] # "completed"
  PROVE  access = "active"
  BY DEF CanView, ForwardAccess

\* The learner submits only while the course is offered, or late.
LEMMA OfferedLearns ==
  ASSUME AccessInv, ProgressInv, OfferedInv,
         \/ \E l \in Lesson : CompleteLesson(l)
         \/ \E l \in QuizLesson, d \in {"failed", "passed", "pending_review"} :
               SubmitQuiz(l, d)
         \/ \E l \in QuizLesson, i \in 1..MaxAttempts, d \in {"failed", "passed"} :
               ReviewAttempt(l, i, d)
         \/ Tick
  PROVE  OfferedInv'
<1> USE DEF courseVars, Blocked
<1>1. ASSUME NEW l \in Lesson, CompleteLesson(l)
      PROVE  OfferedInv'
  <2>1. progress' = "completed" \/ progress' = progress
    BY <1>1 DEF CompleteLesson, Complete
  <2> QED
    BY <1>1, <2>1 DEF CompleteLesson, OfferedInv, NoAttempts
<1>2. ASSUME NEW l \in QuizLesson, NEW d \in Decision, SubmitQuiz(l, d)
      PROVE  OfferedInv'
  <2>1. access \in {"active", "expired", "frozen"} /\ progress # "completed"
    BY <1>2 DEF SubmitQuiz, CanView, ForwardAccess
  <2>2. learner = "external" => lifecycle = "active" /\ ~Blocked
    BY <1>2 DEF SubmitQuiz, MayMutate
  <2>3. lifecycle # "archived" \/ issuedLate \/ access = "frozen"
    BY <2>1, <2>2 DEF OfferedInv, AccessInv, AccessTypeOK
  <2>4. ~Blocked
    BY <2>2 DEF OfferedInv, AccessInv, AccessTypeOK
  <2> QED
    BY <1>2, <2>1, <2>3, <2>4 DEF SubmitQuiz, OfferedInv
<1>3. ASSUME NEW l \in QuizLesson, NEW i \in 1..MaxAttempts,
             NEW d \in {"failed", "passed"}, ReviewAttempt(l, i, d)
      PROVE  OfferedInv'
  <2>1. access = "active"
    BY <1>3 DEF ReviewAttempt, ForwardAccess
  <2>2. ~NoAttempts
    BY <1>3, EnrollmentAssumption DEF ReviewAttempt, NoAttempts
  <2>3. progress' = "completed" \/ progress' = progress
    BY <1>3 DEF ReviewAttempt, Complete
  <2> QED
    BY <1>3, <2>1, <2>2, <2>3 DEF ReviewAttempt, OfferedInv
<1>4. CASE Tick
  BY <1>4 DEF Tick, runVars, OfferedInv, NoAttempts
<1> QED
  BY <1>1, <1>2, <1>3, <1>4 DEF Decision

\* Archiving freezes and blocking suspends every run that has attempts, and no
\* command on the access or the course undoes it while that lasts.
LEMMA OfferedChanges ==
  ASSUME AccessInv, ProgressInv, DeadlineInv, OfferedInv,
         \/ Expire \/ ExtendAccess \/ RevokeAccess \/ RevokeAssignment
         \/ ArchiveCourse \/ RestoreCourse \/ PauseCourse \/ BlockCourse
         \/ ResolveRestriction \/ DeleteRuns \/ DeleteCommit
  PROVE  OfferedInv'
<1> USE DEF AccessInv, AccessTypeOK, SuspensionShape, Access, OfferedInv,
            NoAttempts, Blocked, courseVars, historyVars
<1>1. CASE Expire
  BY <1>1 DEF Expire
<1>2. CASE ExtendAccess
  BY <1>2 DEF ExtendAccess
<1>3. CASE RevokeAccess
  BY <1>3 DEF RevokeAccess, ShapeKept, DeadlineInv
<1>4. CASE RevokeAssignment
  BY <1>4 DEF RevokeAssignment, ShapeKept
<1>5. CASE ArchiveCourse
  BY <1>5 DEF ArchiveCourse, Freezable
<1>6. CASE RestoreCourse
  BY <1>6 DEF RestoreCourse, runVars
<1>7. CASE PauseCourse
  BY <1>7 DEF PauseCourse, runVars
<1>8. CASE BlockCourse
  BY <1>8 DEF BlockCourse
<1>9. CASE ResolveRestriction
  BY <1>9 DEF ResolveRestriction, RestoredAccess
<1>10. CASE DeleteRuns
  BY <1>10 DEF DeleteRuns, runVars
<1>11. CASE DeleteCommit
  BY <1>11 DEF DeleteCommit
<1> QED
  BY <1>1, <1>2, <1>3, <1>4, <1>5, <1>6, <1>7, <1>8, <1>9, <1>10, <1>11

\* No sequence of commands leaves OfferedInv.
LEMMA OfferedNext ==
  ASSUME AccessInv, ProgressInv, DeadlineInv, OfferedInv, [Next]_vars
  PROVE  OfferedInv'
<1>1. CASE UNCHANGED vars
  BY <1>1 DEF vars, OfferedInv, NoAttempts, Blocked
<1>2. CASE Next
  BY <1>2, OfferedBegins, OfferedLearns, OfferedChanges DEF Next
<1> QED
  BY <1>1, <1>2

\* The condition under which a lesson may be completed.
Offered == (lifecycle # "archived" /\ ~Blocked) \/ issuedLate

\* Every command that completes a lesson finds the course offered.
LEMMA CompletesOffered ==
  ASSUME AccessInv, ProgressInv, OfferedInv, [Next]_vars,
         NEW l \in Lesson, lesson[l] # "completed", lesson'[l] = "completed"
  PROVE  Offered
<1> USE DEF AccessInv, AccessTypeOK, OfferedInv, Blocked, Offered
<1>1. learner = "external" /\ MayMutate => Offered
  BY DEF MayMutate
<1>2. learner = "user" /\ access = "active" /\ progress # "completed" => Offered
  OBVIOUS
<1>3. ASSUME NEW m \in Lesson, CompleteLesson(m)
      PROVE  Offered
  <2>1. MayMutate /\ CanView(m) /\ progress # "completed" /\ lesson[m] # "completed"
    BY <1>3 DEF CompleteLesson, Complete, Completable
  <2>2. access = "active"
    BY <2>1, SeenOpen
  <2> QED
    BY <1>1, <1>2, <2>1, <2>2
<1>4. ASSUME NEW m \in QuizLesson, NEW d \in Decision, SubmitQuiz(m, d)
      PROVE  Offered
  <2>1. Complete(m) /\ m \in Lesson
    BY <1>4, EnrollmentAssumption DEF SubmitQuiz
  <2>2. MayMutate /\ CanView(m) /\ progress # "completed" /\ lesson[m] # "completed"
    BY <1>4, <2>1 DEF SubmitQuiz, Complete, Completable
  <2>3. access = "active"
    BY <2>1, <2>2, SeenOpen
  <2> QED
    BY <1>1, <1>2, <2>2, <2>3
<1>5. ASSUME NEW m \in QuizLesson, NEW i \in 1..MaxAttempts,
             NEW d \in {"failed", "passed"}, ReviewAttempt(m, i, d)
      PROVE  Offered
  <2>1. Complete(m) /\ m \in Lesson
    BY <1>5, EnrollmentAssumption DEF ReviewAttempt
  <2>2. progress # "completed"
    BY <2>1 DEF Complete, Completable
  <2>3. access = "active" /\ ~NoAttempts
    BY <1>5, <2>1 DEF ReviewAttempt, ForwardAccess, NoAttempts
  <2> QED
    BY <2>2, <2>3
<1>6. CASE UNCHANGED lesson
  BY <1>6
<1>7. CASE lesson' = SeedProgress
  BY <1>7 DEF SeedProgress
<1>8. CASE UNCHANGED vars
  BY <1>8 DEF vars
<1>9. CASE \/ AssignRead \/ AssignInsert \/ SelfEnrollCourse \/ EnrollMember
           \/ ActivateRead \/ ActivateInsert
           \/ \E q \in Request : ResumeRead(q) \/ ResumeActivate(q)
  <2>1. UNCHANGED lesson \/ lesson' = SeedProgress
    BY <1>9 DEF AssignRead, AssignInsert, SelfEnrollCourse, EnrollMember,
                ActivateRead, ActivateInsert, ResumeRead, ResumeActivate, runVars
  <2> QED
    BY <1>6, <1>7, <2>1
<1>10. CASE \/ Expire \/ ExtendAccess \/ RevokeAccess \/ RevokeAssignment
            \/ ArchiveCourse \/ RestoreCourse \/ PauseCourse \/ BlockCourse
            \/ ResolveRestriction \/ DeleteRuns \/ DeleteCommit \/ Tick
  <2>1. UNCHANGED lesson
    BY <1>10 DEF Expire, ExtendAccess, RevokeAccess, RevokeAssignment,
                 ArchiveCourse, RestoreCourse, PauseCourse, BlockCourse,
                 ResolveRestriction, DeleteRuns, DeleteCommit, Tick, runVars
  <2> QED
    BY <1>6, <2>1
<1> QED
  BY <1>3, <1>4, <1>5, <1>8, <1>9, <1>10 DEF Next, Decision

\* No lesson is completed while the course is archived or blocked, except in a
\* run that was issued late.
THEOREM LearnsWhileOfferedHolds == Spec => LearnsWhileOffered
<1>1. Init => OfferedInv
  BY OfferedInit
<1>2. AccessInv /\ ProgressInv /\ DeadlineInv /\ OfferedInv /\ [Next]_vars
        => OfferedInv'
  BY OfferedNext
<1>3. AccessInv /\ ProgressInv /\ OfferedInv /\ [Next]_vars =>
        [\A l \in Lesson :
            lesson[l] # "completed" /\ lesson'[l] = "completed" =>
                (lifecycle # "archived" /\ ~Blocked) \/ issuedLate]_vars
  BY CompletesOffered DEF Offered
<1> QED
  BY DeadlineInvariance, <1>1, <1>2, <1>3, PTL DEF Spec, LearnsWhileOffered

-----------------------------------------------------------------------------
(* The type invariant.                                                       *)

\* The values of the columns and flags that no other layer speaks about.
RowsTyped ==
    /\ personal \in {"none", "issued", "activated", "revoked", "closed"}
    /\ lifecycle \in {"active", "archived", "deleted"}
    /\ restriction \in SUBSET {"pause", "block"}
    /\ resuming \in SUBSET Request
    /\ deleting \in {"no", "closing", "missed"}
    /\ assigning \in BOOLEAN
    /\ issuedLate \in BOOLEAN

\* No time lies ahead of the clock, and a deadline ahead of the moment from which
\* days are counted by no more than the first deadline or an extension grants.
DaysBounded ==
    /\ clock <= MaxClock
    /\ activating >= None /\ activating <= clock
    /\ activatedAt >= None /\ activatedAt <= clock
    /\ suspendedAt >= None
    /\ until >= None /\ until <= MaxUntil + CountedFrom

\* A quiz has no more attempts than its limit, another lesson none.
AttemptsBounded ==
    \A l \in Lesson : Len(attempts[l]) <= IF l \in QuizLesson THEN MaxAttempts ELSE 0

\* What the earlier layers say of the values that times and days have.
LEMMA DaysTyped ==
  ASSUME AccessInv, DeadlineInv
  PROVE  /\ clock \in Nat /\ suspendedAt \in Int /\ activating \in Int
         /\ activatedAt \in Int /\ until \in Int /\ suspendedAt <= clock
         /\ previous = "active" => access = "suspended" /\ suspendedAt # None
         /\ MaxClock \in Nat /\ MaxUntil \in Nat /\ DeadlineDays \in Nat
         /\ DeadlineDays <= MaxUntil /\ ExtensionDays \in Nat
  BY EnrollmentAssumption
  DEF AccessInv, AccessTypeOK, SuspensionShape, DeadlineInv

\* The columns and flags have their values at first, and no day has passed.
LEMMA TypesInit == Init => RowsTyped /\ DaysBounded /\ AttemptsBounded
<1> SUFFICES ASSUME Init PROVE RowsTyped /\ DaysBounded /\ AttemptsBounded
  OBVIOUS
<1>1. RowsTyped
  BY DEF Init, RowsTyped
<1>2. DaysBounded
  BY EnrollmentAssumption DEF Init, DaysBounded, CountedFrom, None
<1>3. AttemptsBounded
  BY EnrollmentAssumption DEF Init, AttemptsBounded
<1> QED
  BY <1>1, <1>2, <1>3

\* Every command writes one of the values that the schema allows.
LEMMA RowsTypedNext ==
  ASSUME RowsTyped, [Next]_vars
  PROVE  RowsTyped'
<1> USE DEF RowsTyped, runVars, courseVars, flightVars, historyVars
<1>1. CASE \/ AssignRead \/ AssignInsert \/ SelfEnrollCourse \/ EnrollMember
           \/ ActivateRead \/ ActivateInsert
           \/ \E q \in Request : ResumeRead(q) \/ ResumeActivate(q)
  BY <1>1 DEF AssignRead, AssignInsert, SelfEnrollCourse, EnrollMember,
              ActivateRead, ActivateInsert, ResumeRead, ResumeActivate
<1>2. CASE \/ \E l \in Lesson : CompleteLesson(l)
           \/ \E l \in QuizLesson, d \in {"failed", "passed", "pending_review"} :
                 SubmitQuiz(l, d)
           \/ \E l \in QuizLesson, i \in 1..MaxAttempts, d \in {"failed", "passed"} :
                 ReviewAttempt(l, i, d)
           \/ Tick
  BY <1>2 DEF CompleteLesson, SubmitQuiz, ReviewAttempt, Tick
<1>3. CASE Expire \/ ExtendAccess \/ RevokeAccess \/ RevokeAssignment
  BY <1>3 DEF Expire, ExtendAccess, RevokeAccess, RevokeAssignment
<1>4. CASE ArchiveCourse \/ RestoreCourse \/ PauseCourse \/ BlockCourse
           \/ ResolveRestriction \/ DeleteRuns \/ DeleteCommit
  BY <1>4 DEF ArchiveCourse, RestoreCourse, PauseCourse, BlockCourse,
              ResolveRestriction, DeleteRuns, DeleteCommit
<1>5. CASE UNCHANGED vars
  BY <1>5 DEF vars
<1> QED
  BY <1>1, <1>2, <1>3, <1>4, <1>5 DEF Next

\* A step that moves neither the clock nor a time keeps the bounds, if a block
\* neither begins nor ends with it.
LEMMA DaysFrame ==
  ASSUME DaysBounded, UNCHANGED <<clock, activating, activatedAt, until,
                                  suspendedAt, previous>>
  PROVE  DaysBounded'
  BY DEF DaysBounded, CountedFrom

\* The steps that do move a time: an activation takes the day on which it read
\* the course, a block the day on which it begins, and its end moves the deadline
\* by the days in between.
LEMMA DaysBoundedNext ==
  ASSUME AccessInv, DeadlineInv, DaysBounded, [Next]_vars
  PROVE  DaysBounded'
<1> USE DaysTyped DEF runVars, flightVars, historyVars
<1>1. CASE ActivateRead
  BY <1>1 DEF ActivateRead, DaysBounded, CountedFrom, None
<1>2. CASE ActivateInsert
  <2>1. previous = "none"
    BY <1>2 DEF ActivateInsert, AccessInv, SuspensionShape
  <2> QED
    BY <1>2, <2>1 DEF ActivateInsert, DaysBounded, CountedFrom, None
<1>3. CASE ExtendAccess
  BY <1>3 DEF ExtendAccess, DaysBounded, CountedFrom, None
<1>4. CASE BlockCourse
  BY <1>4 DEF BlockCourse, DaysBounded, CountedFrom, None
<1>5. CASE ResolveRestriction
  BY <1>5 DEF ResolveRestriction, RestoredUntil, DaysBounded, CountedFrom, None
<1>6. CASE DeleteCommit
  BY <1>6 DEF DeleteCommit, DaysBounded, CountedFrom, None
<1>7. CASE Tick
  BY <1>7 DEF Tick, DaysBounded, CountedFrom, None
<1>8. CASE \/ AssignRead \/ AssignInsert \/ SelfEnrollCourse \/ EnrollMember
           \/ \E q \in Request : ResumeRead(q) \/ ResumeActivate(q)
           \/ \E l \in Lesson : CompleteLesson(l)
           \/ \E l \in QuizLesson, d \in {"failed", "passed", "pending_review"} :
                 SubmitQuiz(l, d)
           \/ \E l \in QuizLesson, i \in 1..MaxAttempts, d \in {"failed", "passed"} :
                 ReviewAttempt(l, i, d)
  BY <1>8, DaysFrame
  DEF AssignRead, AssignInsert, SelfEnrollCourse, EnrollMember, ResumeRead,
      ResumeActivate, CompleteLesson, SubmitQuiz, ReviewAttempt
<1>9. CASE \/ Expire \/ RevokeAccess \/ RevokeAssignment \/ ArchiveCourse
           \/ RestoreCourse \/ PauseCourse \/ DeleteRuns
  BY <1>9, DaysFrame
  DEF Expire, RevokeAccess, RevokeAssignment, ArchiveCourse, RestoreCourse,
      PauseCourse, DeleteRuns
<1>10. CASE UNCHANGED vars
  BY <1>10, DaysFrame DEF vars
<1> QED
  BY <1>1, <1>2, <1>3, <1>4, <1>5, <1>6, <1>7, <1>8, <1>9, <1>10 DEF Next

\* A step submits one attempt where one is left, decides an attempt, or leaves
\* the attempts alone.
LEMMA AttemptsBoundedNext ==
  ASSUME ProgressInv, AttemptsBounded, [Next]_vars
  PROVE  AttemptsBounded'
<1>1. CASE UNCHANGED attempts
  BY <1>1 DEF AttemptsBounded
<1>2. ASSUME NEW l \in QuizLesson, NEW d \in Decision, SubmitQuiz(l, d)
      PROVE  AttemptsBounded'
  <2>1. /\ attempts' = [attempts EXCEPT ![l] = Append(@, d)]
        /\ Len(attempts[l]) < MaxAttempts
        /\ l \in Lesson
    BY <1>2, EnrollmentAssumption DEF SubmitQuiz, AttemptLeft
  <2>2. attempts \in [Lesson -> Seq(Decision)]
    BY DEF ProgressInv
  <2>3. Len(Append(attempts[l], d)) = Len(attempts[l]) + 1 /\ Len(attempts[l]) \in Nat
    BY <2>1, <2>2
  <2>4. \A m \in Lesson : attempts'[m] = IF m = l THEN Append(attempts[l], d)
                                         ELSE attempts[m]
    BY <2>1, <2>2
  <2> QED
    BY <2>1, <2>3, <2>4, EnrollmentAssumption DEF AttemptsBounded
<1>3. ASSUME NEW l \in QuizLesson, NEW i \in 1..MaxAttempts,
             NEW d \in {"failed", "passed"}, ReviewAttempt(l, i, d)
      PROVE  AttemptsBounded'
  <2>1. attempts' = [attempts EXCEPT ![l][i] = d] /\ l \in Lesson
    BY <1>3, EnrollmentAssumption DEF ReviewAttempt
  <2>2. attempts \in [Lesson -> Seq(Decision)]
    BY DEF ProgressInv
  <2>3. Len([attempts[l] EXCEPT ![i] = d]) = Len(attempts[l])
    BY <2>1, <2>2
  <2>4. \A m \in Lesson : attempts'[m] = IF m = l THEN [attempts[l] EXCEPT ![i] = d]
                                         ELSE attempts[m]
    BY <2>1, <2>2
  <2> QED
    BY <2>3, <2>4 DEF AttemptsBounded
<1>4. \/ UNCHANGED attempts
      \/ \E l \in QuizLesson, d \in {"failed", "passed", "pending_review"} :
            SubmitQuiz(l, d)
      \/ \E l \in QuizLesson, i \in 1..MaxAttempts, d \in {"failed", "passed"} :
            ReviewAttempt(l, i, d)
  BY DEF Next, AssignRead, AssignInsert, SelfEnrollCourse, EnrollMember,
         ActivateRead, ActivateInsert, ResumeRead, ResumeActivate,
         CompleteLesson, Expire, ExtendAccess, RevokeAccess, RevokeAssignment,
         ArchiveCourse, RestoreCourse, PauseCourse, BlockCourse,
         ResolveRestriction, DeleteRuns, DeleteCommit, Tick, runVars, vars
<1> QED
  BY <1>1, <1>2, <1>3, <1>4 DEF Decision

\* The run, the access, the course and the requests in flight only ever have the
\* values of the schema; no time is ahead of the clock, no quiz has more attempts
\* than its limit, and no deadline moves beyond its bound.
THEOREM EnrollmentTypeOK == Spec => []TypeOK
<1> DEFINE Types == RowsTyped /\ DaysBounded /\ AttemptsBounded
<1>1. Init => Types
  BY TypesInit
<1>2. AccessInv /\ ProgressInv /\ DeadlineInv /\ Types /\ [Next]_vars => Types'
  BY RowsTypedNext, DaysBoundedNext, AttemptsBoundedNext
<1>3. AccessInv /\ ProgressInv /\ DeadlineInv /\ Types => TypeOK
  <2> SUFFICES ASSUME AccessInv, ProgressInv, DeadlineInv, Types
               PROVE  TypeOK
    OBVIOUS
  <2>1. /\ clock \in 0..MaxClock
        /\ activatedAt \in None..MaxClock
        /\ suspendedAt \in None..MaxClock
        /\ activating \in None..MaxClock
        /\ until \in None..MaxUntil + MaxClock
    BY DaysTyped DEF DaysBounded, CountedFrom, None
  <2>2. completions \in Nat
    BY DEF ProgressInv, CompletedOnce
  <2>3. \A l \in Lesson :
           /\ attempts[l] \in Seq({"failed", "passed", "pending_review"})
           /\ Len(attempts[l]) <= IF l \in QuizLesson THEN MaxAttempts ELSE 0
    BY DEF ProgressInv, AttemptsBounded, Decision
  <2>4. /\ learner \in {"user", "external"}
        /\ access \in Access \cup {"none"}
        /\ previous \in (Access \ {"suspended", "closed"}) \cup {"none"}
    BY DEF AccessInv, AccessTypeOK
  <2>5. /\ sequential \in BOOLEAN
        /\ progress \in {"not_started", "in_progress", "completed"}
        /\ lesson \in [Lesson -> {"locked", "available", "current", "completed"}]
    BY DEF ProgressInv, LessonStatus
  <2>6. left \in Int
    BY DEF DeadlineInv
  <2> QED
    BY <2>1, <2>2, <2>3, <2>4, <2>5, <2>6 DEF TypeOK, RowsTyped
<1> QED
  BY DeadlineInvariance, <1>1, <1>2, <1>3, PTL DEF Spec
==================================================================================
