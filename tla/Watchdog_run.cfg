SPECIFICATION FairSpec
CONSTANTS
    BeatTicks = 3
    MaxRetries = 1
    Files <- SomeFiles
    Setups <- SomeSetups
INVARIANTS
    TypeOK
    OneInstance
    SightingEndsFirstLaunch
PROPERTIES
    QuitsOutsideExam
    ExamAppReturns
    NeverAbandoned
    ScreenLifts
    FrozenAppRestarts
    HealthyAppStays
