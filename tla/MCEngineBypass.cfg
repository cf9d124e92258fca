SPECIFICATION Spec
CONSTANTS
    c0 = c0
    c1 = c1
    l0 = l0
    l1 = l1
    CacheTag = {c0, c1}
    Line = {l0, l1}
    Data = {d0, d1}
    ZeroData = d0
    ZeroCacheTag = c0
    NumTags = 1
    ReadExtraLatency = 0
    CounterModulus = 1
    None = None
    PortValues <- ReadOrWrite
    Bypassed <- OneBypassed
    BiasSettable <- OneSettable
    SetsPendingBias = TRUE
    SetsResidentBias = FALSE
INVARIANTS
    IInv
    HostBiasedIsNotCached
PROPERTY
    ImplementsTaggedMemory
