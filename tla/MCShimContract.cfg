SPECIFICATION Spec
CONSTANTS
    c0 = c0
    c1 = c1
    c2 = c2
    l0 = l0
    CacheTag = {c0, c1, c2}
    Line = {l0}
    Data = {d0, d1}
    ZeroData = d0
    ZeroCacheTag = c0
    NumTags = 1
    ReadExtraLatency = 0
    CounterModulus = 1
    None = None
    Bypassed <- OneBypassed
    BiasSettable <- OneSettable
    HoldsRequest = TRUE
    MixesBypass = FALSE
    ResetsMidRun = FALSE
INVARIANTS
    TypeOK
    PendingIsAsFired
PROPERTIES
    ImplementsEngineHost
    ReadReturnsLastWritten
