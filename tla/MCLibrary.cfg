CONSTANTS
    MaxServers = 4
    TreeNodes <- MCTreeNodes
    KeyOf <- MCKeyOf
    Entries = {1, 2, 3, 4}
    LogSizes = {1, 2}
    LogLimits = {2, 3}
    OldSizes = {0, 2}
    MaxRecords = 5
    C0 = 2
    C1 = 4
    Capacities = {0, 4, 5, 9}
    ArrayCaps = {0, 3}
    Lengths = {1, 4, 6}
    MaxBufLen = 11
    NtoaBuffer = 8
    FtoaBuffer = 9
    CharBits = 4
    ShortBits = 6
    IntBits = 8
    DefaultPrecision = 2
    MaxPrecision = 3
    MaxFloat = 100
    AdaptLow = 1
    AdaptHigh = 2
    ZeroExponent = 308
    PointerWidth = 4
    Texts <- MCTexts
    Trees <- MCTrees
    Builds <- MCBuilds
    Rooms = {0, 1, 3, 9}
    StepWrap = 8
    LineBreak = 8
    Samples <- MCSamples
    Affixes <- MCAffixes
    MinCap = 4
    LargeCap = 6
    HeadSize = 2
    Words <- MCWords
    StrCapacities = {0, 6}
    MaxStr = 4
    MaxHolders = 3
SPECIFICATION MCSpec
INVARIANTS
    PoolsGivenBack
    TreeIsOrderedSet
    ListIsSequence
    LogKeepsOrder
    BufferExact
    PrintfExact
    JsonExact
    CodecsInvert
    StringsCounted
CHECK_DEADLOCK FALSE
