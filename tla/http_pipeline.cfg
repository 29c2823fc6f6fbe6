CONSTANTS
    r1 = r1
    r2 = r2
    Requests <- TwoRequests
    RouteMw <- OneRouteMw
    Global = 1
    Behaviours = {"throw", "throw_null", "listener", "double_next", "late", "no_reply", "sized", "backpressure"}
    MaxRuns = 2
SPECIFICATION Spec
INVARIANTS TypeOK CompletedIsFinal BodyBeforeCode
PROPERTIES NothingAfterCompletion NoMiddlewareReplay HandlerGate
CONSTRAINT OneStreams
CHECK_DEADLOCK FALSE
