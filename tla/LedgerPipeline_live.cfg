SPECIFICATION FairSpec
CONSTANTS
    Producers = {p1}
    EventIds = {a, b}
    Hashes = {h}
    NoHash = NoHash
    NoEvent = NoEvent
    Configs <- LiveConfigs
    QueueCap = 1
    RetryMax = 1
    BlockMax = 2
    BlockAge = TRUE
    Wrap = 16
    MaxSubmit = 3
    MaxFlush = 0
    MaxCrash = 1
\* A pipeline that was shut down may stay down.
CHECK_DEADLOCK FALSE
PROPERTIES
    AckedEventuallySettled
    CallsReturn
