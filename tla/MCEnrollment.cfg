SPECIFICATION Spec
CONSTANTS
    Lessons = 4
    QuizLesson = {2, 3}
    MaxAttempts = 2
    DeadlineDays = 2
    ExtensionDays = 1
    q1 = q1 q2 = q2
    Request = {q1, q2}
    MaxClock = 4
    MaxUntil = 4
SYMMETRY Requests
CHECK_DEADLOCK FALSE
INVARIANTS
    TypeOK
    Loadable
    NeverStranded
    CompletedOnce
    BlockCostsNothing
    RevokedStaysOut
    SuspensionShape
PROPERTIES
    NeverBackwards
    LearnsWhileOffered
