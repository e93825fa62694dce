SPECIFICATION Spec
CONSTANTS
  i1 = i1
  i2 = i2
  i3 = i3
  d1 = d1
  d2 = d2
  u1 = u1
  NoUpstream = NoUpstream
  Items <- OneItem
  Crons = {d1, d2}
  Admins = {}
  NumDomains = 1
  Domain <- SameDomain
  Priority <- EqualPriority
  MaxAttempts <- TwoAttempts
  Upstreams = {}
  Upstream <- NoUpstreams
  Spends <- NoUpstreams
  Limit <- OneEach
  Concurrency <- OneEach
  Capped = {}
  MaxConcurrent <- NoCap
  LeaseLen = 2
  FirstBackoff = 1
  LaterBackoff = 2
  EnqueueDelays = {0}
  DeferDelays <- AtOnce
  Faults = FALSE
  Crashes = "never"
  Prompt = TRUE
  Timely = TRUE
INVARIANT AllDoneFinished
