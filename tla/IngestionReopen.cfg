SPECIFICATION Spec
CONSTANTS
  m1 = m1
  m2 = m2
  NoMaster = NoMaster
  Masters = {m1, m2}
  MaxJobs = 2
  MaxChunks = 1
  BatchSize = 1
  Overlap = FALSE
  Manual = FALSE
  Maintains = FALSE
  Slow = TRUE
  Faults = FALSE
  Crashes = FALSE
CHECK_DEADLOCK FALSE
PROPERTY ClosedForGood
