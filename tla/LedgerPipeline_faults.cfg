SPECIFICATION Spec
CONSTANTS
    Producers = {p1, p2}
    EventIds = {a, b}
    Hashes = {h, k}
    NoHash = NoHash
    NoEvent = NoEvent
    Configs <- WalConfigs
    QueueCap = 1
    RetryMax = 1
    BlockMax = 2
    BlockAge = FALSE
    Wrap = 16
    MaxSubmit = 3
    MaxFlush = 0
    MaxCrash = 1
SYMMETRY Perms
\* A pipeline that was shut down may stay down.
CHECK_DEADLOCK FALSE
INVARIANTS
    TypeOK
    WatermarkSound
    AtMostOnce
    ShutdownComplete
    
PROPERTIES
    ImplementsInOrderLedger
