SPECIFICATION Spec
CONSTANTS
  m1 = m1
  m2 = m2
  NoMaster = NoMaster
  Masters = {m1}
  MaxJobs = 1
  MaxChunks = 1
  BatchSize = 1
  Overlap = FALSE
  Manual = FALSE
  Maintains = FALSE
  Slow = FALSE
  Faults = TRUE
  Crashes = FALSE
CHECK_DEADLOCK FALSE
INVARIANT OwnTarget
