SPECIFICATION Spec
CONSTANTS
    cmd = cmd
    Commands <- OneCommand
    InitialFlags <- SuspendableFlags
    FlagChoices <- TwoChoices
    Adversity <- Adversities
INVARIANTS
    TypeOK
    NoLostWakeup
    ReceiverReady
    RunningAfterStart
    CleanFailure
PROPERTIES
    StartComesFirst
