SPECIFICATION Spec
CONSTANTS
  None = None
  Sessions = {s1}
  Workers = {w1}
  Files = {f1}
  Tasks = {t1, t2}
  Faults = {"sigchld"}
  s1 = s1
  w1 = w1
  f1 = f1
  t1 = t1
  t2 = t2
INVARIANTS
  WriterHoldsLock
CHECK_DEADLOCK FALSE
