CONSTANTS
    r1 = r1
    r2 = r2
    Requests <- TwoRequests
    RouteMw <- TwoRouteMw
    Global = 0
    Behaviours = {"throw", "throw_null"}
    MaxRuns = 2
SPECIFICATION FairSpec
INVARIANTS CountExact HandlerOnce
PROPERTIES Implements Answered ThrowsContained
CHECK_DEADLOCK FALSE
