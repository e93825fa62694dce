SPECIFICATION Spec
CONSTANTS
  i1 = i1
  i2 = i2
  i3 = i3
  d1 = d1
  d2 = d2
  u1 = u1
  NoUpstream = NoUpstream
  Items <- ThreeItems
  Crons = {d1, d2}
  Admins = {}
  NumDomains = 2
  Domain <- FirstEarlier
  Priority <- EqualPriority
  MaxAttempts <- TwoAttempts
  Upstreams = {}
  Upstream <- NoUpstreams
  Spends <- NoUpstreams
  Limit <- OneEach
  Concurrency <- OneEach
  Capped = {2}
  MaxConcurrent <- CapOne
  LeaseLen = 2
  FirstBackoff = 1
  LaterBackoff = 2
  EnqueueDelays = {0}
  DeferDelays <- ByOne
  Faults = FALSE
  Crashes = "never"
  Prompt = TRUE
  Timely = TRUE
INVARIANT EveryCapKept
