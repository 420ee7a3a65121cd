SPECIFICATION ClientFairSpec
CONSTANTS
  Callers = {c1, c2}
  Threshold = 3
  Timeout = 1
  HalfOpenMax = 1
  Projects = {admin}
  KeystoneThreshold = 2
  Retries = 2
INVARIANTS
  ClientTypeOK
  ConnectsOnce
  LockIsHandedOn
PROPERTIES
  RequestEnds
  NoAttemptWhileOpen
  ClosesWhenHealthy
