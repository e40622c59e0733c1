\* The key-value store, the chunk store and sharky: safety.
SPECIFICATION LocalSpec
CONSTANTS
    t1 = t1
    t2 = t2
    a1 = a1
    a2 = a2
    c1 = c1
    c2 = c2
    k1 = k1
    k2 = k2
    none = none
    None = none
    Focus = {"txstore", "chunkstore", "sharky"}
    MaxRef = 6
    Keys = {a1, a2}
    Vals <- Entries
    Txs = {t1, t2}
    MaxSlots = 5
    Scenarios <- Regular
    Clients = {c1, c2}
    Cancellable = {c1, c2}
    ByteSlots = 2
    MaxWrites = 3
    MaxStarts = 2
    LateCalls = TRUE
    WriteFaults = TRUE
SYMMETRY LocalSymmetry
CONSTRAINT Scope
INVARIANTS
    
    SharkySound
PROPERTIES
    
    BlobSpec
CHECK_DEADLOCK FALSE
