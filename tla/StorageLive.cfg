\* The reserve, the cache, the uploads and sharky: what must eventually happen.
SPECIFICATION StorageSpec
CONSTANTS
    a1 = a1
    a2 = a2
    a3 = a3
    b1 = b1
    b2 = b2
    s1 = s1
    s2 = s2
    r1 = r1
    Addrs = {a1, a2, a3}
    Batches = {b1, b2}
    Writers = {w1}
    MaxBins = 2
    NoBatch = none
    ReserveScenarios <- LiveReserve
    CacheAddrs = {a1, a2, a3}
    CacheScenarios <- LiveCache
    Chunks = {a1, a2}
    Sessions = {s1, s2}
    Tags = {1, 2}
    Deleters = {d1, d2}
    NoRoot = none
    UploadScenarios <- LiveUploads
    Clients = {c1, c2}
    Cancellable = {c1}
    ByteSlots = 2
    MaxWrites = 2
    MaxStarts = 1
    LateCalls = FALSE
    WriteFaults = FALSE
PROPERTIES
    StorerProgress
    SharkyReturns
CHECK_DEADLOCK FALSE
