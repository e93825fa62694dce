SPECIFICATION FairSpec
CONSTANTS
  c1 = c1
  c2 = c2
  c3 = c3
  Callers = {c1, c2, c3}
  Disciplines <- AllDisciplines
  Low = {c3}
  DefaultCap = 3
  WindowLen = 2
  CircuitLen = 2
  MaxTries = 2
  MaxUsed = 4
INVARIANTS TypeOK CapRange BoundedOvershoot
PROPERTIES CapNeverRaised CircuitRecovers
