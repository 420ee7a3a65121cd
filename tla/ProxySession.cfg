SPECIFICATION ProxySpec
CONSTANTS
  NumServers = 2
  Clients = {l1}
  Rate = 1
  Capacity = 2
  Cost = 1
  MaxElapsed = 2
  None = None
PROPERTIES
  SessionStaysPut
