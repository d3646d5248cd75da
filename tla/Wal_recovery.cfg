SPECIFICATION Spec
CONSTANTS
    HeaderLen = 1
    FrameLens = {2, 3}
    TornLen = 1
    SegmentMax = 5
    DiskMax = 9
    FaultSets <- AllFaults
    MaxAppend = 4
    MaxFail = 2
    MaxCrash = 2
\* The bounds end every behaviour.
CHECK_DEADLOCK FALSE
INVARIANTS
    TypeOK
    AckedRecoverable
    FreshAboveCheckpoint
    
PROPERTIES
    ImplementsDurableLog
