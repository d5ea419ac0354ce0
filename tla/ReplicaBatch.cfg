CONSTANTS
    r1 = r1
    r2 = r2
    r3 = r3
    Requests = {r1, r2, r3}
    Asks <- Mixed
    SeqLen = 4
    MaxContext = 2
    MaxBatch = 2
    Samples = {"whole", "part", "eos", "invalid"}
SPECIFICATION Spec
INVARIANTS TypeOK ContextFits OwnLimit NoRequestLost EndIsLast
PROPERTIES StopIsFinal PromiseKept EveryoneAnswered ShutdownEnds
\* Every request may be answered.
CHECK_DEADLOCK FALSE
