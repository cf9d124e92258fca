SPECIFICATION FairSpec
CONSTANTS
    c0 = c0
    c1 = c1
    l0 = l0
    l1 = l1
    CacheTag = {c0, c1}
    Line = {l0}
    Data = {d0}
    ZeroData = d0
    ZeroCacheTag = c0
    NumTags = 3
    ReadExtraLatency = 1
    CounterModulus = 1
    None = None
    PortValues <- ReadC0WriteC1
    Bypassed <- NoAddr
    BiasSettable <- OneSettable
    SetsPendingBias = FALSE
    SetsResidentBias = TRUE
PROPERTIES
    RequestIsAccepted
    RequestIsAnswered
