SPECIFICATION FairSpec
CONSTANTS
    u1 = u1
    u2 = u2
    s1 = s1
    s2 = s2
    Users <- TwoUsers
    Services <- TwoServices
    Session <- Sessions
    MaxPolls = 2
    Crashes = TRUE
INVARIANTS
    TypeOK
    OneService
PROPERTIES
    CommandsReturn
    NotForEver
