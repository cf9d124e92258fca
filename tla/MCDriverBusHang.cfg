SPECIFICATION SessionSpec
CHECK_DEADLOCK FALSE
CONSTANTS
    CacheTag <- Nibble
    Line <- Nibble
    Data <- Words
    ZeroData <- zero
    ZeroCacheTag = 0
    NumTags = 16
    ReadExtraLatency = 3
    CounterModulus = 8
    None = None
    Bypassed <- NoAddr
    BiasSettable <- NoAddr
    HoldsRequest = FALSE
    MixesBypass = TRUE
    ResetsMidRun = FALSE
    N_ITERS = 3
    Sessions <- LinuxAfter234h
    MayTimeOut = TRUE
    ConfiguredFirst = TRUE
    WatchdogOpens = TRUE
INVARIANTS
    NoWedge
