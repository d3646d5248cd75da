SPECIFICATION FairSpec
CONSTANTS
  MaxBuffered = 2
  BatchSize = 2
  MaxSpool = 3
  MaxEmit = 4
  MaxFail = 2
  MaxCrash = 1
INVARIANTS TypeOK InOrder  NoNeedlessResend
PROPERTIES EvidenceKept Drains
\* The sink rests when everything is sent and the bound on emits is reached.
CHECK_DEADLOCK FALSE
