SPECIFICATION FairSpec
CONSTANTS
    p1 = p1
    p2 = p2
    p3 = p3
    c1 = c1
    Programs <- ThreePrograms
    Clients <- OneClient
    Arguments <- EveryArgument
    Flags <- NoFlags
    Asked <- StopPauseStart
    Backlog = 0
    MaxCalls = 2
    Mortals <- OneOfEach
    Failing <- OneProgram
INVARIANTS
    TypeOK
    ServedAtPath
    AnswerIsRight
PROPERTIES
    CallsReturn
