\* The data a node makes, and the node around its stores and protocols: safety.
SPECIFICATION Spec
CONSTANTS
    Parts = {"file", "erasure", "replicas", "manifest", "feeds", "sampler", "compaction", "items",
             "migrations", "state", "bmt", "pss", "life", "uploads", "downloads"}
    Branches = 3
    ParityTable <- OneParity
    TrieLevels = 6
    FileSizes <- Sizes
    WriteSizes = {1, 2, 3}
    DataShards = 2
    ParityShards = 1
    RLevel = 2
    MaxMined = 6
    ManifestPaths <- FivePaths
    Entries = {1, 2}
    PrefixMaxSize = 2
    MaxEdits = 2
    DefaultLevels = 3
    GridLevel = 3
    MaxLaunches = 4
    SampleSize = 3
    SampleWorkers = {1, 2}
    Segments = 4
    CShards = {1, 2}
    CSlots = 4
    CChunks = {"a", "b", "c"}
    NewChunks = {"x", "y"}
    Blank = "blank"
    ItemScenarios <- RecordSets
    MigScenarios <- MigSafe
    MaxKills = 2
    StateClients = {1, 2}
    StateScripts <- StateSafe
    CacheCapacity = 2
    BmtDepth = 3
    BmtCapacity = 1
    BmtClients = {1, 2}
    PssHandlers = {"a", "b", "d"}
    TopicOf <- TopicsOf
    Miners = {1, 2}
    LifeScenarios <- LifeSafe
    MaxTries = 2
    ApiScenarios <- ApiSafe
    DownloadScenarios <- DownloadSafe
INVARIANTS
    FilesReadBack
    ManifestExact
    
    PassesExact
    RecordsSound
    MigrationExact
    
    BmtSound
    PssSound
    LifeSound
    
CHECK_DEADLOCK FALSE
