\* What must eventually happen, component by component.
SPECIFICATION ProgressSpec
CONSTANTS
    PullPeers = {"p"}
    PullBins = {0, 1}
    PullScenarios <- PullLive
    MaxPage = 2
    PusherChunks = {"c", "d"}
    ConcurrentPushes = 1
    RetryCount = 2
    KPeers = {"a", "b", "c", "d"}
    KBins = {0, 1, 2}
    SlotsOf = 2
    SaturationPeers = 1
    OverSaturationPeers = 2
    LowWaterMark = 2
    ReachPeers = {1, 2}
    RetryAfter = 2
    ReachWorkers = 1
    MaxNow = 4
    StampChunks = {"a", "b", "c"}
    BucketOf <- OneBucket
    BucketDepth = 0
    StoreCapacity = 3
    TailSize = 1
    BatchFactor = 1
    BlockPage = 2
    BlockThreshold = 1
    MaxTx = 2
    MaxBlock = 4
    CancellationDepth = 2
    BlocksPerRound = 4
    BlocksPerPhase = 1
    StaleRounds = 1
PROPERTIES
    
    OverlayForms
    ChainFollowed
CHECK_DEADLOCK FALSE
