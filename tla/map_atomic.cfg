CONSTANTS
    p1 = p1
    p2 = p2
    p3 = p3
    v1 = v1
    v2 = v2
    Procs <- TwoProcs
    Keys <- ThreeKeys
    Values <- TwoValues
    KeyLen = 2
    ValLen = 2
    MaxEntries = 2
    Hash <- Colliding
    Behaviours = {}
SPECIFICATION FairSpec
INVARIANTS TypeOK MutualExclusion TableSound
PROPERTIES Linearizable HeldIsReleased
CHECK_DEADLOCK FALSE
