SPECIFICATION BenchSpec
CONSTANTS
    CacheTag <- Nibble
    Line <- Nibble
    Data <- Words
    ZeroData <- zero
    ZeroCacheTag = 0
    NumTags = 16
    ReadExtraLatency = 3
    CounterModulus = 4
    RspDelays <- Delays
INVARIANT
    TestsPass
    SlotsFollowText
    EngineFollowsReference
PROPERTY
    NoAnswerIsMissed
