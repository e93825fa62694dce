SPECIFICATION FairSpec
CONSTANTS
  m1 = m1
  m2 = m2
  NoMaster = NoMaster
  Masters = {m1, m2}
  MaxJobs = 2
  MaxChunks = 1
  BatchSize = 1
  Overlap = TRUE
  Manual = FALSE
  Maintains = TRUE
  Slow = TRUE
  Faults = FALSE
  Crashes = TRUE
CHECK_DEADLOCK FALSE
INVARIANTS OneRunning
PROPERTIES JobCloses
