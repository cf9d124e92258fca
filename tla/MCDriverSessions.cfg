SPECIFICATION SessionSpec
CHECK_DEADLOCK FALSE
CONSTANTS
    CacheTag <- Nibble
    Line <- Nibble
    Data <- Words
    ZeroData <- zero
    ZeroCacheTag = 0
    NumTags = 16
    ReadExtraLatency = 3
    CounterModulus = 8
    None = None
    Bypassed <- NoAddr
    BiasSettable <- EveryAddr
    HoldsRequest = TRUE
    MixesBypass = TRUE
    ResetsMidRun = FALSE
    N_ITERS = 3
    Sessions <- AloneAndPairs
    MayTimeOut = FALSE
    ConfiguredFirst = TRUE
    WatchdogOpens = FALSE
INVARIANTS
    NoErrors
    NoWedge
    AnswersItsOwn
    FiredIsSeen
    OneOutstanding
    AnswersAsExpected
PROPERTIES
    KeepsShimContract
    MeasuresWhatItSays
