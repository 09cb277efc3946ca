CONSTANTS
    b1 = b1
    b2 = b2
    b3 = b3
    b4 = b4
    w1 = w1
    w2 = w2
    Blocks <- FourBlocks
    Writers <- TwoWriters
SPECIFICATION Spec
SYMMETRY Symmetry
INVARIANTS
    SerialUseIsSound
    IdleOnlyWhenUnused
CHECK_DEADLOCK FALSE
