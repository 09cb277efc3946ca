CONSTANTS
    r1 = r1
    r2 = r2
    none = none
    Requests <- TwoRequests
    NoId = none
    Asks <- AnyAsk
    Limit = 1
    PoolMax = 2
    Workers = 1
    Trails <- TableOnly
SPECIFICATION FairSpec
PROPERTIES
    ImplementsAdmission
    StartedSlotReturned
    ConnectedCallerTold
    RunQueryAudited
CHECK_DEADLOCK FALSE
