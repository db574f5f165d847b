\* A provider that leaves ids out.
SPECIFICATION Spec
CONSTANTS
    c1 = c1
    c2 = c2
    NoId = NoId
    Ids = {c1, NoId}
    Histories <- Fresh
    Inputs = {"request"}
    Replies <- WithEmptyId
    Sizes = {1}
    TokenLimit = 0
    MaxTurns = 2
    TimeBudget = 0
    MaxRuns = 2
    Faults = {}
INVARIANTS
    SafeToSend
CHECK_DEADLOCK FALSE
