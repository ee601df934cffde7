SPECIFICATION Spec
CONSTANTS
    r1 = r1 r2 = r2 l1 = l1 l2 = l2 g1 = g1 g2 = g2 e1 = e1 e2 = e2 w1 = w1 w2 = w2
    NoRow = NoRow
    NoWorker = NoWorker
    Row = {r1, r2}
    Manual = {}
    Worker = {w1}
    Lead = {l1}
    Group = {g1, g2}
    Entry = {e1, e2}
    LeadOf <- LeadShared
    GroupOf <- GroupApart
    EntryOf <- EntryApart
    Members = 1
    MaxDecisions = 1
    MaxEpoch = 1
    MaxDisturbances = 2
CONSTRAINT FewDisturbances
CHECK_DEADLOCK FALSE
INVARIANTS
    ExclusiveEffect
    ClaimsMatch
PROPERTIES
    ImplementsSlots
