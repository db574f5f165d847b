\* Three runs on a new session and on histories at the smallest sizes that can be cut.
SPECIFICATION Spec
CONSTANTS
    c1 = c1
    c2 = c2
    NoId = NoId
    Ids = {c1, c2}
    Histories <- FreshOrCompactable
    Inputs = {"request"}
    Replies <- OneOrTwoCalls
    Sizes = {1, 3}
    TokenLimit = 2
    MaxTurns = 2
    TimeBudget = 0
    MaxRuns = 3
    Faults = {"read", "rewrite", "meta"}
INVARIANTS
    TypeOK
    SafeToSend
    CallsOnRecord
    RequestsAnswered
    ResumeAnnounced
PROPERTIES
    TranscriptSpec
    FoldKeepsOriginal
CHECK_DEADLOCK FALSE
