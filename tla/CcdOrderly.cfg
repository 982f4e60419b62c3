SPECIFICATION Spec
CONSTANTS
  None = None
  MAX_CONNECTIONS = 2
  MaxFd = 2
  NumFilters = 3
  CFW_MAX_TIMEOUTS = 2
  EXP_MAX_TIMEOUTS = 2
  MaxRequests = 3
  Coordinated = TRUE
  Pollers = {}
  Faults = {"sdk", "camera", "wheel"}
  Clients = {c1, c2}
  c1 = c1
  c2 = c2
SYMMETRY Interchangeable
INVARIANTS
  TypeOK
  RightImage
  ApproachFromStaging
CHECK_DEADLOCK FALSE
