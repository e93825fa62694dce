SPECIFICATION Spec
CONSTANTS
  m1 = m1
  m2 = m2
  NoMaster = NoMaster
  Masters = {m1}
  MaxJobs = 1
  MaxChunks = 2
  BatchSize = 2
  Overlap = FALSE
  Manual = FALSE
  Maintains = FALSE
  Slow = FALSE
  Faults = TRUE
  Crashes = FALSE
CHECK_DEADLOCK FALSE
INVARIANT SpawnedOnce
