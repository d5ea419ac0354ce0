CONSTANTS
    org = org
    xl = xl
    SheetKeys = {org, xl}
    Invocations <- Tagged
    Faults = {"submit", "close", "pod", "gate", "marker"}
    RealtimeDeadline = 1
    BatchDeadline = 1
    GateSlack = 1
    QualityWait = 4
    QualityBudget = 1
    QualityDeadline = 5
    AutoStopDeadline = 6
    AutoStopSlack = 1
    ReadyTimeout = 1
    StartDelay = 0
    KillLag = 0
SYMMETRY Symmetry
SPECIFICATION Spec
INVARIANTS TypeOK PastGateIsAlone GateDeadlineIsEnough BatchOnlyAfterSuccess StopperStops
PROPERTIES StagesInOrder
\* The run is over when every Job is.
CHECK_DEADLOCK FALSE
