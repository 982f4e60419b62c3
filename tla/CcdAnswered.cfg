SPECIFICATION FairSpec
CONSTANTS
  None = None
  MAX_CONNECTIONS = 2
  MaxFd = 2
  NumFilters = 3
  CFW_MAX_TIMEOUTS = 2
  EXP_MAX_TIMEOUTS = 2
  MaxRequests = 2
  Coordinated = TRUE
  Pollers = {c2}
  Faults = {}
  Clients = {c1, c2}
  c1 = c1
  c2 = c2
PROPERTIES
  RequestAnswered
