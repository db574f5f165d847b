\* All histories of up to six messages.
SPECIFICATION MCSpec
CONSTANTS
    c1 = c1
    c2 = c2
    NoId = NoId
    Ids = {c1, c2}
    Histories <- Fresh
    MaxLen = 6
INVARIANTS
    LogPaired
    RepairAccepted
    WireAgrees
    CutKeepsTail
    CutShortens
CHECK_DEADLOCK FALSE
