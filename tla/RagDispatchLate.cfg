SPECIFICATION Spec
CONSTANTS
  i1 = i1
  i2 = i2
  i3 = i3
  d1 = d1
  d2 = d2
  c1 = c1
  c2 = c2
  s1 = s1
  NoItem = NoItem
  Items = {i1, i2}
  NumDomains = 1
  Dispatchers = {d1}
  Consumers = {c1, c2}
  DriverSlots = {s1}
  MaxActive = 2
  DispatchBatch = 2
  Chunk = 1
  DirectCap = 1
  MaxCopies = 1
  Duplicates = FALSE
  Losses = FALSE
  Faults = {}
  Crashes = "never"
  Quick = FALSE
  LeaseLen = 2
  FirstBackoff = 1
  LaterBackoff = 2
  Domain <- OneDomain
  Priority <- EqualPriority
  MaxAttempts <- TwoAttempts
  Upstream <- NoUpstreams
INVARIANT SingleRun
