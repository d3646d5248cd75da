SPECIFICATION Spec
CONSTANTS
    Producers = {p1, p2}
    EventIds = {a, b}
    Hashes = {h}
    NoHash = NoHash
    NoEvent = NoEvent
    Configs <- BestEffortConfigs
    QueueCap = 1
    RetryMax = 1
    BlockMax = 2
    BlockAge = FALSE
    Wrap = 16
    MaxSubmit = 3
    MaxFlush = 1
    MaxCrash = 0
SYMMETRY Perms
\* A pipeline that was shut down may stay down.
CHECK_DEADLOCK FALSE
INVARIANTS
    FlushComplete
