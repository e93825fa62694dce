SPECIFICATION Spec
CONSTANTS
  m1 = m1
  m2 = m2
  NoMaster = NoMaster
  Masters = {m1, m2}
  MaxJobs = 2
  MaxChunks = 3
  BatchSize = 2
  Overlap = FALSE
  Manual = FALSE
  Maintains = TRUE
  Slow = FALSE
  Faults = FALSE
  Crashes = FALSE
CHECK_DEADLOCK FALSE
INVARIANTS OwnTarget SpawnedOnce
