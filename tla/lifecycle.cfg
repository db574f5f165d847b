\* Two processes against a cap of six turns and a time budget of three units.
SPECIFICATION FairLifeSpec
CONSTANTS
    c1 = c1
    c2 = c2
    NoId = NoId
    Ids = {c1, c2}
    Histories <- CutOff
    Inputs = {"request"}
    Replies <- OneCall
    Sizes = {1, 3}
    TokenLimit = 2
    MaxTurns = 6
    TimeBudget = 3
    MaxRuns = 2
    Faults = {"read", "rewrite", "repair", "split", "torn"}
    Responses <- Answers6
    StdoutMayFail = TRUE
INVARIANTS
    LifeTypeOK
    ResultIsLast
    StatusTold
    EndTurnIsWhole
    StreamOnRecord
    WarnedBeforeCap
    AnswerOnRecord
    MetaHeals
PROPERTIES
    EveryStartEnds
CHECK_DEADLOCK FALSE
