\* Statements sent before an artifact may land after it: BuiltOnce and
\* AnswerKept fail.
SPECIFICATION Spec
CONSTANTS
  t1 = t1
  w1 = w1
  t2 = t2
  w2 = w2
  Items = {t1}
  Workers = {w1}
  NumDomains = 1
  Domain <- OneDomain
  Priority <- EqualPriority
  MaxAttempts <- TwoAttempts
  Upstream <- NoUpstreams
  LeaseLen = 2
  FirstBackoff = 1
  LaterBackoff = 1
  StaleLen = 2
  MaxMishaps = 1
  Prompt = FALSE
  NoTurn = NoTurn
CHECK_DEADLOCK FALSE
INVARIANTS BuiltOnce
PROPERTIES AnswerKept
