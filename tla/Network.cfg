\* Connections, topology and the protocols that move chunks: safety.
SPECIFICATION NetSpec
CONSTANTS
    PullPeers = {"p", "q"}
    PullBins = {0, 1}
    PullScenarios <- PullSafe
    MaxPage = 2
    PushNodes = {"o", "a", "b", "c"}
    NoNode = "none"
    MaxPushErrors = 2
    MaxMultiplexForwards = 2
    RNodes = {"o", "a", "b", "c"}
    RNone = "none"
    MaxOriginErrors = 3
    MaxForwards = 2
    MaxFlights = 2
    PusherChunks = {"c", "d"}
    ConcurrentPushes = 1
    RetryCount = 2
    PeerIds = {"a", "b", "c"}
    LightLimit = 1
    MaxAttempts = 2
    KPeers = {"a", "b", "c", "d", "e"}
    KBins = {0, 1, 2}
    SlotsOf = 2
    SaturationPeers = 1
    OverSaturationPeers = 2
    LowWaterMark = 2
    ReachPeers = {1, 2}
    RetryAfter = 2
    ReachWorkers = 1
    MaxNow = 4
    FlagPeers = {1, 2}
    FlagTimeout = 2
    Calls = {1, 2, 3}
    BreakLimit = 2
    FailInterval = 3
    StartBackoff = 1
    MaxBackoff = 3
    MaxTime = 7
    Senders = {"s", "t"}
    HiveOverlays = {"p", "q"}
    Underlays = {"u", "v", "w"}
    NoUnderlay = "none"
    Burst = 2
    MaxBatchSize = 2
    SemSize = 2
    SaludPeers = {"a", "b", "c", "d"}
    SBin <- TwoBins
    SBins = {0, 1}
    MinPerBin = 1
    SaludAnswers <- FourAnswers
    Radii = {0, 1, 3}
    Rank <- RankOf
INVARIANTS
    PullSound
    PushSound
    RetrievalSound
    
    
    OverlayKept
CHECK_DEADLOCK FALSE
