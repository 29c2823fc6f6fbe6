CONSTANTS
    s1 = s1
    s2 = s2
    r1 = r1
    r2 = r2
    r3 = r3
    t1 = t1
    u1 = u1
    Sockets <- TwoSockets
    Requests <- OneRequest
    From <- Alone
    Topics <- OneTopic
    UserOf <- SameUser
    Adaptor = "app"
    Hooks = {"connection"}
    Behaviours = {}
    MaxSteps <- Twice
SPECIFICATION Spec
INVARIANTS NoZombie
CHECK_DEADLOCK FALSE
