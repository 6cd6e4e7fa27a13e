SPECIFICATION Spec
CONSTANTS
    cmd = cmd
    Commands <- OneCommand
    InitialFlags <- SuspendableFlags
    FlagChoices <- TwoChoices
    Adversity <- StoppedWhileStarting
INVARIANTS
    PausedMeansPaused
