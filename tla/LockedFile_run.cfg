SPECIFICATION FairSpec
CONSTANTS
    p1 = p1
    p2 = p2
    p3 = p3
    Procs <- ThreeProcs
    Session <- OneSession
    MaxReaders = 2
    Failures <- SomeFailures
INVARIANTS
    TypeOK
    Exclusion
    NothingLeftOver
    NoCircularWait
PROPERTIES
    LockReturns
    RWLockSpec
