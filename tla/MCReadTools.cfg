SPECIFICATION ReadFairSpec
CONSTANTS
  c1 = c1
  w1 = w1
  w2 = w2
  b1 = b1
  n1 = n1
  n2 = n2
  n3 = n3
  Keys = {list, projects, plain}
  ListKey = list
  ProjectsKey = projects
  Callers = {c1, w1, w2, n1, n2, n3}
  Refreshers = {b1}
  Frame <- MCFrame
  WarmProjects = w1
  WarmInstances = w2
  None = None
  Ttl = 1
  StaleTtl = 2
  KeyTtl <- MCKeyTtl
  MaxSize = 1
  MaxAge = 2
  MaxVersion = 0
INVARIANTS
  ReadTypeOK
  NoWaitCycle
  WaiterHasLeader
  InflightIsRunning
PROPERTIES
  FailuresHaveACause
  EveryReadReturns
