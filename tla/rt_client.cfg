CONSTANTS
    k1 = k1
    k2 = k2
    t1 = t1
    c1 = c1
    None = None
    Slots <- TwoSlots
    Topics <- OneTopic
    Calls <- OneCall
    Setups <- AllSetups
    MaxRetries = 2
    Hooked = FALSE
    Again = TRUE
    MaxFaults = 3
    MaxOps <- OpsOf
SPECIFICATION Spec
INVARIANTS TypeOK OneConnection NeverStuck Restored
PROPERTIES Settles CallsSettle
CHECK_DEADLOCK FALSE
