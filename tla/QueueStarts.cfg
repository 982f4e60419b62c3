SPECIFICATION FairSpec
CONSTANTS
  None = None
  Sessions = {s1, s2}
  Workers = {w1}
  Files = {f1}
  Tasks = {t1, t2}
  Faults = {}
  s1 = s1
  s2 = s2
  w1 = w1
  f1 = f1
  t1 = t1
  t2 = t2
PROPERTIES
  TaskStarts
CHECK_DEADLOCK FALSE
