\* A kill inside a write, then a second run.
SPECIFICATION Spec
CONSTANTS
    c1 = c1
    c2 = c2
    NoId = NoId
    Ids = {c1, c2}
    Histories <- Fresh
    Inputs = {"request"}
    Replies <- OneCall
    Sizes = {1}
    TokenLimit = 0
    MaxTurns = 2
    TimeBudget = 0
    MaxRuns = 2
    Faults = {"torn"}
INVARIANTS
    TornLineForgiven
CHECK_DEADLOCK FALSE
