CONSTANTS
    a = a
    b = b
    Datasets <- TwoDatasets
    MaxLive = 1
    MaxCalls = 3
SPECIFICATION FairSpec
INVARIANTS
    TreesBounded
    StartMeansAnswerable
    AnswerIsOwn
    StartedOnlyWhenNeeded
PROPERTIES
    SearchEnds
CHECK_DEADLOCK FALSE
