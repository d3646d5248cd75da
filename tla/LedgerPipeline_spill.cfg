SPECIFICATION Spec
CONSTANTS
    Producers = {p1, p2}
    EventIds = {a, b}
    Hashes = {h}
    NoHash = NoHash
    NoEvent = NoEvent
    Configs <- SpillConfigs
    QueueCap = 1
    RetryMax = 1
    BlockMax = 2
    BlockAge = FALSE
    Wrap = 16
    MaxSubmit = 4
    MaxFlush = 1
    MaxCrash = 1
SYMMETRY Perms
\* A pipeline that was shut down may stay down.
CHECK_DEADLOCK FALSE
INVARIANTS
    AckedNotLost
    QueueInWalOrder
    NothingStranded
    FlushComplete
