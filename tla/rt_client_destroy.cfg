CONSTANTS
    k1 = k1
    k2 = k2
    t1 = t1
    c1 = c1
    None = None
    Slots <- TwoSlots
    Topics <- OneTopic
    Calls <- OneCall
    Setups <- AsyncToken
    MaxRetries = 2
    Hooked = FALSE
    Again = FALSE
    MaxFaults = 3
    MaxOps <- OpsOf
SPECIFICATION Spec
INVARIANT DestroyIsFinal
CHECK_DEADLOCK FALSE
