CONSTANTS
    r1 = r1
    r2 = r2
    r3 = r3
    s1 = s1
    n1 = n1
    g6 = g6
    g6v1 = g6v1
    NoTag = NoTag
    None = None
    RunIds = {r1, r2, r3}
    StopIds = {s1}
    Tags = {g6, g6v1}
    Longer <- TagsThatBeginAlike
    LongNames = {}
    Nodes = {n1}
    Lines <- Mixed
    Overlap = FALSE
    Neuron = FALSE
    Outages = {"deployment", "jobs"}
SYMMETRY Symmetry
SPECIFICATION Spec
INVARIANTS TypeOK OneRunPerEndpoint OneDeployer
PROPERTIES Patience
\* Every command line and every Job may be over.
CHECK_DEADLOCK FALSE
