SPECIFICATION FairSpec
CONSTANTS
    p1 = p1
    p2 = p2
    p3 = p3
    Procs <- TwoProcs
    MaxSends <- OneEach
    Mortals <- Nobody
    Adversity <- Everything
INVARIANTS
    OneServes
PROPERTIES
    PeersReturn
