SPECIFICATION TunnelFairSpec
CONSTANTS
  Posts = {p1, p2}
  Gets = {g1, g2}
  Feedbacks = {f1}
  Limit = 2
INVARIANTS
  TunnelTypeOK
  OnlyDropsLeak
PROPERTIES
  GoneClientsAreForgotten
