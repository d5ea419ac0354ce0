CONSTANTS
    P = 7
    Dim = 2
    Chunk = 4
    Half = 2
    Rounds = 1
    Slots = 2
    t1 = t1
    t2 = t2
    eos = eos
    Envs <- SmallEnvs
    LeftPadding = FALSE
    Tokens <- Vocabulary
    Pad = eos
    Embedding <- SmallEmbedding
    Weight <- SmallWeight
    Asks <- SmallAsks
    Sections <- SmallSections
    Junk = {2}
    Sampled = {t2, eos}
    MaxDecodes = 3
    MaxBatches = 2
SPECIFICATION Spec
INVARIANT EveryStateIsOwn
\* The server may wait for requests for ever.
CHECK_DEADLOCK FALSE
