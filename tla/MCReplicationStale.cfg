SPECIFICATION Spec
CONSTANTS
    r1 = r1 r2 = r2
    a1 = a1
    Relay = {r1}
    Aggregate = {a1}
    Article = a1
    NoAggregate = NoAggregate
    MaxEvents = 2
    MaxPublishAttempts = 2
    MaxDeliver = 2
    MaxCopies = 2
    MaxExtraCopies = 1
    MaxDeliveries = 2
CONSTRAINT Bounded
CHECK_DEADLOCK FALSE
INVARIANT
    LessonCurrent
