CONSTANTS
    p1 = p1
    p2 = p2
    p3 = p3
    Probers <- ThreeProbers
    Models <- OneModel
    Model = "configured"
    MaxTime = 2
    Ttl = 2
SPECIFICATION Spec
SYMMETRY Symmetry
INVARIANTS
    NothingLeaks
    ReadyWasTrue
