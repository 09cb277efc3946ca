CONSTANTS
    Transcripts <- Sendable
    MaxAsks = 2
    MaxChunk = 6
SPECIFICATION FairSpec
INVARIANTS
    OneQuestionShown
    ShownIsSent
PROPERTIES
    SettledStays
    QuestionSettles
CHECK_DEADLOCK FALSE
