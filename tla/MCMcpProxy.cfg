SPECIFICATION ProxyFairSpec
CONSTANTS
  NumServers = 3
  Clients = {l1}
  Rate = 1
  Capacity = 3
  Cost = 2
  MaxElapsed = 3
  None = None
INVARIANTS
  ProxyTypeOK
  BurstIsBounded
PROPERTIES
  PickPrefersHealthy
  NobodyIsPassedOver
  RecoveryIsNoticed
  KeepsEagerBucket
