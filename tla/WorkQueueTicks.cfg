SPECIFICATION FairSpec
CONSTANTS
  i1 = i1
  i2 = i2
  i3 = i3
  d1 = d1
  d2 = d2
  u1 = u1
  NoUpstream = NoUpstream
  Items <- ThreeItems
  Crons = {d1, d2}
  Admins = {}
  NumDomains = 2
  Domain <- LastLater
  Priority <- FirstHigher
  MaxAttempts <- OneRetried
  Upstreams = {}
  Upstream <- NoUpstreams
  Spends <- NoUpstreams
  Limit <- TwoEach
  Concurrency <- OneEach
  Capped = {1, 2}
  MaxConcurrent <- CapOne
  LeaseLen = 2
  FirstBackoff = 1
  LaterBackoff = 1
  EnqueueDelays = {0}
  DeferDelays <- LastAtOnce
  Faults = FALSE
  Crashes = "handler"
  Prompt = TRUE
  Timely = TRUE
INVARIANTS SingleExecution NoGhostCompletion ConcurrencyCap
PROPERTIES NoRepeat Settles
