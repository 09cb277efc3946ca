CONSTANTS
    p1 = p1
    p2 = p2
    p3 = p3
    Probers <- TwoProbers
    Models <- TwoModels
    Model = "configured"
    MaxTime = 3
    Ttl = 2
SPECIFICATION Spec
INVARIANT ServingMeansIndexed
