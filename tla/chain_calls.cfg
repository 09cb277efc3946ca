CONSTANTS
    c1 = c1
    c2 = c2
    Calls <- TwoCalls
    N = 3
SPECIFICATION FairSpec
INVARIANTS
    PreferenceKept
    UnavailableMeansAllRefused
PROPERTIES
    EveryCallEnds
