\* A crash while a transaction of the chunk store commits.
SPECIFICATION LocalSpec
CONSTANTS
    t1 = t1
    t2 = t2
    a1 = a1
    a2 = a2
    c1 = c1
    c2 = c2
    k1 = k1
    k2 = k2
    none = none
    None = none
    Focus = {"chunkstore"}
    MaxRef = 6
    Keys = {a1}
    Vals <- Entries
    Txs = {t1}
    MaxSlots = 3
    Scenarios <- CommitCrash
    Clients = {c1}
    Cancellable = {c1}
    ByteSlots = 2
    MaxWrites = 3
    MaxStarts = 2
    LateCalls = TRUE
    WriteFaults = TRUE
INVARIANT IndexedIntact
CHECK_DEADLOCK FALSE
