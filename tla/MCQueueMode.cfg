SPECIFICATION Spec
CONSTANTS
    r1 = r1 r2 = r2 l1 = l1 l2 = l2 g1 = g1 g2 = g2 e1 = e1 e2 = e2 w1 = w1 w2 = w2
    NoRow = NoRow
    NoWorker = NoWorker
    Row = {r1, r2}
    Manual = {r2}
    Worker = {w1}
    Lead = {l1}
    Group = {g1}
    Entry = {e1}
    LeadOf <- LeadShared
    GroupOf <- GroupShared
    EntryOf <- EntryShared
    Members = 1
    MaxDecisions = 2
    MaxEpoch = 2
    MaxDisturbances = 1
CONSTRAINT FewDisturbances
CHECK_DEADLOCK FALSE
INVARIANTS
    EpochFence
    SingleSuccessPerEntry
