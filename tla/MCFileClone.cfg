SPECIFICATION Spec
CONSTANTS
    a1 = a1 a2 = a2 h1 = h1 h2 = h2
    NoRunner = NoRunner
    Runner = {a1, a2}
    Handler = {h1, h2}
    Files = 3
    MaxFaults = 5
CHECK_DEADLOCK FALSE
INVARIANTS
    OneCopier
    PublishedIntact
PROPERTIES
    CloneFinishes
