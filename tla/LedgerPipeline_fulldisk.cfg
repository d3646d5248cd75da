SPECIFICATION FairSpec
CONSTANTS
    Producers = {p1}
    EventIds = {a}
    Hashes = {h}
    NoHash = NoHash
    NoEvent = NoEvent
    Configs <- FullDiskConfigs
    QueueCap = 1
    RetryMax = 0
    BlockMax = 2
    BlockAge = FALSE
    Wrap = 16
    MaxSubmit = 4
    MaxFlush = 0
    MaxCrash = 0
\* A pipeline that was shut down may stay down.
CHECK_DEADLOCK FALSE
PROPERTIES
    CallsReturn
