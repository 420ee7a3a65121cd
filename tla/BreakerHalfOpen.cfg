SPECIFICATION BreakerSpec
CONSTANTS
  Callers = {c1, c2, c3}
  Threshold = 2
  Timeout = 2
  HalfOpenMax = 1
INVARIANTS
  HalfOpenLimit
