SPECIFICATION Spec
CONSTANTS
    Loads <- MCLoads
    Fold <- MCFold
    Datasets <- MCDatasets
    Models <- MCModels
    Shapes <- MCShapes
    InitialShape <- MCInitialShape
    ElementOrder <- MCElementOrder
    RowLimits <- MCRowLimits
    Sensitive = {"b"}
    Model = "m1"
    TopK = 3
    MaxColumns = 2
    KValues = {1, 2, 3}
    FloatExact = 100
    FloatStep = 40
    TiesUp <- MCTiesUp
CHECK_DEADLOCK FALSE
INVARIANTS
    SearchSeesWholeIndexes
    OneDatabase
    RightQueryNotRejected
    AttemptKeepsWhatItLearned
    AnswerIsTheReplys
    LimitsHonest
    VerdictIsTheReference
    RecallReachesOne
    ProfileSaysWhy
    FailuresAgree
