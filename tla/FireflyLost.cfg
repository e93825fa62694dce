\* A resumed run may complete although transcripts of an earlier run failed:
\* FireflyWhole fails.
SPECIFICATION FairSpec
CONSTANTS
  i1 = i1
  i2 = i2
  c1 = c1
  c2 = c2
  q1 = q1
  q2 = q2
  j1 = j1
  j2 = j2
  Items = {i1}
  NumDomains = 1
  Domain <- OneDomain
  Priority <- EqualPriority
  MaxAttempts <- TwoAttempts
  Upstream <- NoUpstreams
  LeaseLen = 1
  FirstBackoff = 1
  LaterBackoff = 1
  Listed = 3
  PerRun = 2
  MaxFireflyMishaps = 3
  NoRun = NoRun
  Idle = Idle
  Contacts = {c1, c2}
  Requests = {q1, q2}
  m1 = m1
  m2 = m2
  Merges = {m1}
  StepRetries = 1
  MaxCampaignMishaps = 1
  SyncRows = {j1, j2}
  TimeoutLen = 2
  ReconcileLimit = 1
  MaxJobMishaps = 1
  MaxRow = 2
  Days = 2
  Reruns = {}
  KeepDays = 1
  PartRows = 2
  QueryRows = 2
  MaxParts = 2
  MaxBackupMishaps = 2
INVARIANTS FireflyWhole
CHECK_DEADLOCK FALSE
