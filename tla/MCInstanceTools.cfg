SPECIFICATION ToolsSpec
CONSTANTS
  Keys = {list, i1}
  ListKey = list
  Callers = {c1}
  Refreshers = {b1}
  None = None
  Ttl = 1
  StaleTtl = 2
  KeyTtl <- MCKeyTtl
  MaxSize = 1
  MaxAge = 2
  MaxVersion = 1
  Retries = 2
  MaxWrites = 1
  Given <- MCGiven
INVARIANTS
  ToolsTypeOK
  PendingMeansRunning
  DetailsFollowReports
PROPERTIES
  AuditIsFinal
  KeepsAuditContract
