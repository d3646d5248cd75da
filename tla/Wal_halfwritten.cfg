SPECIFICATION Spec
CONSTANTS
    HeaderLen = 1
    FrameLens = {2}
    TornLen = 1
    SegmentMax = 5
    DiskMax = 9
    FaultSets <- PartialFrame
    MaxAppend = 3
    MaxFail = 1
    MaxCrash = 1
\* The bounds end every behaviour.
CHECK_DEADLOCK FALSE
INVARIANTS
    AckedOnDisk
