\* A MAX turn whose asker, driver, stop request and repairs interleave, with
\* every statement landing before its artifact.
SPECIFICATION FairSpec
CONSTANTS
  t1 = t1
  w1 = w1
  t2 = t2
  w2 = w2
  Items = {t1}
  Workers = {w1}
  NumDomains = 1
  Domain <- OneDomain
  Priority <- EqualPriority
  MaxAttempts <- TwoAttempts
  Upstream <- NoUpstreams
  LeaseLen = 2
  FirstBackoff = 1
  LaterBackoff = 1
  StaleLen = 2
  MaxMishaps = 1
  Prompt = TRUE
  NoTurn = NoTurn
INVARIANTS TypeOK BuiltOnce
PROPERTIES StopBars AnswerKept TurnSettles
CHECK_DEADLOCK FALSE
