CONSTANTS
    r1 = r1
    r2 = r2
    s1 = s1
    n1 = n1
    n2 = n2
    g6 = g6
    g6v1 = g6v1
    NoTag = NoTag
    None = None
    RunIds = {r1, r2}
    StopIds = {s1}
    Tags = {g6, g6v1}
    Longer <- TagsThatBeginAlike
    LongNames = {g6v1}
    Nodes = {n1, n2}
    Lines <- Mixed
    Overlap = FALSE
    Neuron = FALSE
    Outages = {}
SYMMETRY Symmetry
SPECIFICATION Spec
INVARIANT OneRunPerEndpoint
\* Every command line and every Job may be over.
CHECK_DEADLOCK FALSE
