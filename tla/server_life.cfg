CONSTANTS
    Wanted <- Everything
    Breakable <- RouteFile
    Behaviours = {"signal", "fail"}
    MaxEdits = 2
    MaxFaults = 1
SPECIFICATION Spec
INVARIANTS TypeOK  ReadyMeansListening ListingComplete
PROPERTIES LastChangeServed
CHECK_DEADLOCK FALSE
