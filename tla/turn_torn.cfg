\* Kills inside the write of a line and between lines, a time budget of three units.
SPECIFICATION Spec
CONSTANTS
    c1 = c1
    c2 = c2
    NoId = NoId
    Ids = {c1}
    Histories <- Fresh
    Inputs = {"request"}
    Replies <- OneCall
    Sizes = {1, 3}
    TokenLimit = 2
    MaxTurns = 2
    TimeBudget = 3
    MaxRuns = 3
    Faults = {"torn", "split"}
INVARIANTS
    SafeToSend
    FilePaired
    CallsOnRecord
CHECK_DEADLOCK FALSE
