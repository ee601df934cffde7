SPECIFICATION Spec
CONSTANTS
    m1 = m1
    m2 = m2
    m3 = m3
    v1 = v1
    v2 = v2
    s1 = s1
    s2 = s2
    w1 = w1
    w2 = w2
    Message = {m1, m2, m3}
    Event = {v1, v2}
    EventOf <- Reissued
    KindOf <- CreatedThenMoved
    Worker = {w1, w2}
    Stage = {s1, s2}
    Gone = Gone
    Unseen = Unseen
    MaxAttempts = 2
    MaxEntries = 3
    MaxBindings = 2
    NoMessage = NoMessage
    NoWorker = NoWorker
SYMMETRY DeliveryReplicas
INVARIANT DeliveryTypeOK
INVARIANT NoMissedMove
INVARIANT ProcessedOnce
INVARIANT OneCurrentEntry
PROPERTY FinalOnce
PROPERTY HeadMonotone
PROPERTY ImplementsEntries
CHECK_DEADLOCK FALSE
