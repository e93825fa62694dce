SPECIFICATION Spec
CONSTANTS
  m1 = m1
  m2 = m2
  NoMaster = NoMaster
  Masters = {m1, m2}
  MaxJobs = 2
  MaxChunks = 1
  BatchSize = 1
  Overlap = TRUE
  Manual = FALSE
  Maintains = FALSE
  Slow = FALSE
  Faults = FALSE
  Crashes = FALSE
CHECK_DEADLOCK FALSE
INVARIANT NeverTwo
