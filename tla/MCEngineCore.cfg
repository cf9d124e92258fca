SPECIFICATION Spec
CONSTANTS
    c0 = c0
    c1 = c1
    l0 = l0
    l1 = l1
    CacheTag = {c0, c1}
    Line = {l0}
    Data = {d0, d1}
    ZeroData = d0
    ZeroCacheTag = c0
    NumTags = 2
    ReadExtraLatency = 1
    CounterModulus = 1
    None = None
    PortValues <- OneValueToC0
    Bypassed <- NoAddr
    BiasSettable <- Addr
    SetsPendingBias = TRUE
    SetsResidentBias = TRUE
INVARIANTS
    TypeOK
    FlushBiExclusive
    ResponseIsOwed
    FlushTargetsVictim
    CleanLineMatchesMemory
    HostCopyIsHostBiased
    BiNamesPendingLine
PROPERTY
    ImplementsTaggedMemory
