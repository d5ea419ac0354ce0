CONSTANTS
    org = org
    SheetKeys = {org}
    Invocations <- EveryChoice
    Faults = {"submit", "close", "pod", "marker", "stopper", "stopperAgain"}
    RealtimeDeadline = 1
    BatchDeadline = 1
    GateSlack = 2
    QualityWait = 6
    QualityBudget = 1
    QualityDeadline = 7
    AutoStopDeadline = 9
    AutoStopSlack = 2
    ReadyTimeout = 1
    StartDelay = 1
    KillLag = 1
SPECIFICATION Spec
INVARIANTS EndIsSeen
PROPERTIES StopsAfterPipeline ModelIsStopped EveryJobEnds
\* The run is over when every Job is.
CHECK_DEADLOCK FALSE
