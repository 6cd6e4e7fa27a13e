SPECIFICATION FairSpec
CONSTANTS
    cmd = cmd
    Commands <- OneCommand
    InitialFlags <- ShutdownFlags
    FlagChoices <- TwoChoices
    Adversity <- Benign
INVARIANTS
    OwnEventServed
PROPERTIES
    LifecycleSpec
    ControlReturns
    StartsAndStops
