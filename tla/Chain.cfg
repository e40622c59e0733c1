\* Settlement, postage, transactions and the redistribution game: safety.
SPECIFICATION MCSpec
CONSTANTS
    p1 = p1
    p2 = p2
    b1 = b1
    b2 = b2
    Peers = {p1, p2}
    Beneficiaries = {b1, b2}
    Node = node
    Nobody = nobody
    SwapScenarios <- AllSwap
    PseudoScenarios <- AllPseudo
    Overlays = {p1, p2}
    NoOverlay = nobody
    MaxHandshakes = 4
    MaxBookCrashes = 1
    StampChunks = {"a", "b", "c"}
    BucketOf <- OneBucket
    BucketDepth = 0
    StoreCapacity = 3
    TailSize = 1
    BatchFactor = 1
    BlockPage = 2
    BlockThreshold = 1
    MaxTx = 3
    MaxBlock = 5
    CancellationDepth = 2
    BlocksPerRound = 4
    BlocksPerPhase = 1
    StaleRounds = 1
INVARIANTS
    ChequesSound
    PeersAgree
    
    
    RevealOpens
PROPERTIES
    PayoutsGrow
CHECK_DEADLOCK FALSE
