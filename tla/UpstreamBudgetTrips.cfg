SPECIFICATION Spec
CONSTANTS
  c1 = c1
  c2 = c2
  c3 = c3
  Callers = {c1}
  Disciplines <- GraphOnly
  Low = {}
  DefaultCap = 3
  WindowLen = 2
  CircuitLen = 3
  MaxTries = 3
  MaxUsed = 9
INVARIANT TripsOnThird
