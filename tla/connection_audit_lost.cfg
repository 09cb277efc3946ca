CONSTANTS
    b1 = b1
    b2 = b2
    b3 = b3
    b4 = b4
    w1 = w1
    w2 = w2
    Blocks <- TwoBlocks
    Writers <- OneWriter
SPECIFICATION Spec
INVARIANTS
    AuditSurvives
CHECK_DEADLOCK FALSE
