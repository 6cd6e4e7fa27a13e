SPECIFICATION Spec
CONSTANTS
    cmd = cmd
    Commands <- OneCommand
    InitialFlags <- ShutdownFlags
    FlagChoices <- TwoChoices
    Adversity <- Benign
INVARIANTS
    NoUseAfterFree
