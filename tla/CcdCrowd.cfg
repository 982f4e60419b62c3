SPECIFICATION Spec
CONSTANTS
  None = None
  MAX_CONNECTIONS = 2
  MaxFd = 3
  NumFilters = 2
  CFW_MAX_TIMEOUTS = 2
  EXP_MAX_TIMEOUTS = 1
  MaxRequests = 2
  Coordinated = FALSE
  Pollers = {}
  Faults = {"hangup", "wheel"}
  Clients = {c1, c2, c3}
  c1 = c1
  c2 = c2
  c3 = c3
SYMMETRY Interchangeable
INVARIANTS
  OneOwner
  ClockNeverLost
  NoLogicError
CHECK_DEADLOCK FALSE
