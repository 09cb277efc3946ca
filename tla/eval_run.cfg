CONSTANTS
    N = 3
    Limits = {2, 3}
    Configs <- TwoConfigs
    HaltAfter = 2
    MaxRuns = 2
    MaxCrashes = 1
SPECIFICATION FairSpec
INVARIANTS
    OneFingerprint
    RetriedNotScored
    SummaryAddsUp
    HaltedOnAWall
PROPERTIES
    AnswersKept
    InvocationEnds
CHECK_DEADLOCK FALSE
