CONSTANTS
    w0 = w0
    w1 = w1
    w2 = w2
    r1 = r1
    r2 = r2
    Workers = {w0, w1, w2}
    First = w0
    Requests = {r1, r2}
    StartParallel = 1
    Faults = {"exit", "hang"}
SPECIFICATION Spec
INVARIANTS TypeOK CountsConserved NoPartialInstance LoadsBounded
PROPERTIES ExitIsNoticed EveryRequestEnds
\* The router stops after SIGTERM.
CHECK_DEADLOCK FALSE
