SPECIFICATION Spec
CONSTANTS
    u1 = u1
    u2 = u2
    s1 = s1
    s2 = s2
    Users <- OneUser
    Services <- TwoServices
    Session <- Sessions
    MaxPolls = 1
    Crashes = FALSE
PROPERTIES
    ScmStartsService
