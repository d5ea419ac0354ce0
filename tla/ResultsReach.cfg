CONSTANTS
    r1 = r1
    g6 = g6
    g6e = g6e
    g7 = g7
    trn2 = trn2
    NoFamily = NoFamily
    None = None
    Open = Open
    Runs = {r1}
    Levels = 2
    MaxMade = 2
    MaxRestart = 1
    Launch = 3
    LastTick = 4
    Faults = {"bench", "scrape", "slow", "disk", "upload", "pod", "engine"}
    Families = {g6, g6e, g7, trn2}
    Trainium = {trn2}
    Price <- Prices
    Parts = 2
    Folders <- Placed
    Slo = 2
    Archives <- History
    Commands <- Usual
    Worth = 4
SPECIFICATION Spec
INVARIANTS TypeOK ReportIsFaithful
PROPERTIES NothingLost RowIsOfItsLevel
\* A sweep ends.
CHECK_DEADLOCK FALSE
