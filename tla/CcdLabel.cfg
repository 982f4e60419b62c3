SPECIFICATION Spec
CONSTANTS
  None = None
  MAX_CONNECTIONS = 2
  MaxFd = 2
  NumFilters = 2
  CFW_MAX_TIMEOUTS = 2
  EXP_MAX_TIMEOUTS = 2
  MaxRequests = 1
  Coordinated = TRUE
  Pollers = {}
  Faults = {"init"}
  Clients = {c1}
  c1 = c1
INVARIANTS
  LabelTruthful
CHECK_DEADLOCK FALSE
