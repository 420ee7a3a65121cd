SPECIFICATION OverlapSpec
CONSTANTS
  Keys = {k1, k2}
  Callers = {c1, c2}
  Refreshers = {b1}
  None = None
  Ttl = 1
  StaleTtl = 5
  KeyTtl <- MCKeyTtl
  MaxSize = 1
  MaxAge = 5
  MaxVersion = 1
SYMMETRY MCSymmetry
INVARIANTS
  OnlyRefreshesOverlap
  StoreIsBounded
PROPERTIES
  GoesBackOnlyInOverlap
  KeepsRegister
