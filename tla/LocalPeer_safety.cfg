SPECIFICATION Spec
CONSTANTS
    p1 = p1
    p2 = p2
    p3 = p3
    Procs <- ThreeProcs
    MaxSends <- Unequal
    Mortals <- Talkative
    Adversity <- Nothing
INVARIANTS
    TypeOK
    AtMostOneRunning
    TrueMeansWhole
PROPERTIES
    DeliverySpec
    SocketFileKept
