CONSTANTS
    r1 = r1
    r2 = r2
    none = none
    Requests <- TwoRequests
    NoId = none
    Asks <- AnyAsk
    Limit = 2
    PoolMax = 3
    Workers = 2
    Trails <- EitherTrail
SPECIFICATION Spec
SYMMETRY Symmetry
INVARIANTS
    TypeOK
    SlotAccounting
    TranscriptLegal
    TrailMatchesAnswer
CHECK_DEADLOCK FALSE
