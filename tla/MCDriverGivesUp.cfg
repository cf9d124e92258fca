SPECIFICATION FairSession
CHECK_DEADLOCK FALSE
CONSTANTS
    CacheTag <- Nibble
    Line <- Nibble
    Data <- Words
    ZeroData <- zero
    ZeroCacheTag = 0
    NumTags = 16
    ReadExtraLatency = 3
    CounterModulus = 8
    None = None
    Bypassed <- NoAddr
    BiasSettable <- NoAddr
    HoldsRequest = FALSE
    MixesBypass = TRUE
    ResetsMidRun = FALSE
    N_ITERS = 3
    Sessions <- GivingUp
    MayTimeOut = TRUE
    ConfiguredFirst = FALSE
    WatchdogOpens = TRUE
INVARIANT
    ExitDisarms
PROPERTIES
    WedgeEnds
    ProgramsFinish
