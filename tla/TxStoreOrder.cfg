\* A transaction writes a key twice and is rolled back.
SPECIFICATION LocalSpec
CONSTANTS
    t1 = t1
    t2 = t2
    a1 = a1
    a2 = a2
    c1 = c1
    c2 = c2
    k1 = k1
    k2 = k2
    none = none
    None = none
    Focus = {"chunkstore"}
    MaxRef = 6
    Keys = {a1}
    Vals <- Entries
    Txs = {t1}
    MaxSlots = 3
    Scenarios <- Repeating
    Clients = {c1}
    Cancellable = {c1}
    ByteSlots = 2
    MaxWrites = 3
    MaxStarts = 2
    LateCalls = TRUE
    WriteFaults = TRUE
PROPERTY RevertsInReverse
CHECK_DEADLOCK FALSE
