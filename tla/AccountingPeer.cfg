\* One peer: traffic in both directions, every settlement, a reconnection as a
\* full or a light node, a failing store write.
SPECIFICATION Spec
CONSTANTS
    RefreshRate = 5
    PaymentThreshold = 10
    PaymentTolerance = 20
    EarlyPayment = 50
    LightFactor = 5
    MinimumPaymentDivisor = 5
    FailedSettlementInterval = 10
    LinearCheckpointNumber = 2
    LinearCheckpointStep = 1
    SwapEnabled = TRUE
    Start = 20
    Slots = {s1, s2}
    Prices = {7}
    Amounts = {6}
    Accepted = {0, 5}
    Intervals = {1}
    Thresholds = {6}
    NodeTypes = {"full", "light"}
    MaxSeconds = 1
    MaxPrepared = 3
    MaxReceived = 6
    MaxConnects = 2
    MaxFaults = 1
SYMMETRY SlotSymmetry
CONSTRAINT Scope
INVARIANTS
    TypeOK
    OneSettlement
    LedgerSound
    ReservesSound
PROPERTIES
    BanOutlastsDebt
CHECK_DEADLOCK FALSE
