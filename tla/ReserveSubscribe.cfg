SPECIFICATION MCSpec
CONSTANTS
    a1 = a1
    a2 = a2
    a3 = a3
    b1 = b1
    b2 = b2
    s1 = s1
    s2 = s2
    r1 = r1
    Addrs = {a1, a2, a3}
    Batches = {b1, b2}
    Writers = {w1, w2}
    MaxBins = 2
    NoBatch = none
    ReserveScenarios <- ReserveOnly
    CacheAddrs = {a1, a2, a3}
    CacheScenarios <- AllCache
    Chunks = {a1, a2}
    Sessions = {s1, s2}
    Tags = {1, 2}
    Deleters = {d1, d2}
    NoRoot = none
    UploadScenarios <- LiveUploads
INVARIANT NoChunkPassedOver
CHECK_DEADLOCK FALSE
