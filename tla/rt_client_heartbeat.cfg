CONSTANTS
    k1 = k1
    k2 = k2
    t1 = t1
    c1 = c1
    None = None
    Slots <- TwoSlots
    Topics <- OneTopic
    Calls <- OneCall
    Setups <- StaticToken
    MaxRetries = 2
    Hooked = TRUE
    Again = FALSE
    MaxFaults = 3
    MaxOps <- OpsOf
SPECIFICATION Spec
PROPERTY NoPongMeansLost
CHECK_DEADLOCK FALSE
