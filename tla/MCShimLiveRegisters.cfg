SPECIFICATION Spec
CONSTANTS
    c0 = c0
    c1 = c1
    c2 = c2
    l0 = l0
    CacheTag = {c0, c1}
    Line = {l0}
    Data = {d0}
    ZeroData = d0
    ZeroCacheTag = c0
    NumTags = 1
    ReadExtraLatency = 1
    CounterModulus = 1
    None = None
    Bypassed <- NoAddr
    BiasSettable <- AllAddrs
    HoldsRequest = FALSE
    MixesBypass = FALSE
    ResetsMidRun = FALSE
INVARIANTS
    HostCopyIsHostBiased
