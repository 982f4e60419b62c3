SPECIFICATION Spec
CONSTANTS
  \* Night
  Scripts = {s1}
  Quicks = {q1}
  TimeSeqs = {f1}
  EndTime = 2
  FarAhead = 1
  MaxItems = 2
  Exposures = 2
  MaxMessages = 3
  Options <- MCOptions
  NightFaultKinds = {"scheduler", "camera", "field"}
  \* ProcMessages
  Programs = {schedule, focus, stack}
  Callers = {c1, c2}
  NoCaller = NoCaller
  MessageIds = {1}
  MAX_MESSAGES = 2
  MAX_NUM_PROCS = 2
  MaxCalls = 4
  \* ScheduleSearch
  Sizes = {3, 4}
  POPULATION_SIZE = 3
  N_RETAIN = 2
  Score <- MCScore
  \* Timetable
  Fixed = {f1, f2}
  Repeated = {q1}
  Scripted = {p1, p2}
  Frames = {}
  FixedStarts = {1, 3, 4}
  Durations = {2}
  Cadences = {5}
  Delays = {0, 1}
  PastTable <- MCPastTable
  t_quit = 9
  \* Cooler
  Values = {1, 2}
  LeftOver = 9
  MaxOrders = 1
  RampPoints = 1
  CoolerFaultKinds = {"refuse", "leftover"}
PROPERTIES
  CompletedNotRescheduled
CHECK_DEADLOCK FALSE
