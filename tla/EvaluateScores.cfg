CONSTANTS
    Yes = Yes
    No = No
    NA = NA
    yes = yes
    q1 = q1
    text1 = text1
    text2 = text2
    own = own
    talk = talk
    ready = ready
    UNKNOWN = UNKNOWN
    None = None
    NoQid = NoQid
    Labels = {Yes, No}
    EchoEnds = No
    Positive = Yes
    Raw <- Worksheet
    QidText <- Questions
    Stub <- Stubs
    Spelling <- Spellings
    MaxSamples = 0
    Config <- Org
    MaxDump = 2
    Replies <- Usual
    BareReplies <- Bare
    Messages <- EveryShape
    Archives <- Before
SPECIFICATION Spec
INVARIANTS TypeOK VerdictIsStated RowsKeepTheirVerdicts SheetReconciles
\* An evaluation ends.
CHECK_DEADLOCK FALSE
