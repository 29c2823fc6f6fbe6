CONSTANTS
    s1 = s1
    s2 = s2
    r1 = r1
    r2 = r2
    r3 = r3
    t1 = t1
    u1 = u1
    Sockets <- TwoSockets
    Requests <- ThreeRequests
    From <- TwoAndOne
    Topics <- OneTopic
    UserOf <- SameUser
    Adaptor = "app"
    Hooks = {"upgrade", "connection", "disconnect"}
    Behaviours = {"throw", "unasked", "odd"}
    MaxSteps <- Once
SPECIFICATION Spec
INVARIANTS TypeOK Registered ConnectedFirst TopicsAsConfirmed AckDiscipline
CHECK_DEADLOCK FALSE
SYMMETRY SymRequests
