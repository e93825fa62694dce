SPECIFICATION Spec
CONSTANTS
  m1 = m1
  m2 = m2
  NoMaster = NoMaster
  Masters = {m1}
  MaxJobs = 2
  MaxChunks = 2
  BatchSize = 2
  Overlap = FALSE
  Manual = TRUE
  Maintains = TRUE
  Slow = TRUE
  Faults = TRUE
  Crashes = FALSE
CHECK_DEADLOCK FALSE
INVARIANTS TypeOK FinalizerLast CompletedIsWhole
PROPERTIES LateCloseIsWhole
