SPECIFICATION Spec
CONSTANTS
  l1 = l1
  r1 = r1
  s1 = s1
  Launches = {l1}
  Resumes = {r1}
  Stops = {s1}
  Codex = TRUE
  MaxFinished = 2
  MaxProc = 3
  MaxReports = 2
  MaxFail = 0
  MaxCrash = 0
INVARIANTS ResumedStatus
\* The gateway may have every result, and the sessions rest.
CHECK_DEADLOCK FALSE
