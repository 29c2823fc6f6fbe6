CONSTANTS
    p1 = p1
    p2 = p2
    p3 = p3
    v1 = v1
    v2 = v2
    Procs <- ThreeProcs
    Keys <- OneKey
    Values <- OneValue
    KeyLen = 2
    ValLen = 2
    MaxEntries = 1
    Hash <- OneHash
    Behaviours = {"crash"}
SPECIFICATION FairSpec
PROPERTIES  SurvivorGetsIn
CHECK_DEADLOCK FALSE
