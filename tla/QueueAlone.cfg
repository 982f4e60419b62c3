SPECIFICATION Spec
CONSTANTS
  None = None
  Sessions = {s1}
  Workers = {w1, w2}
  Files = {}
  Tasks = {t1, t2}
  Faults = {"crash", "sigchld"}
  s1 = s1
  w1 = w1
  w2 = w2
  t1 = t1
  t2 = t2
SYMMETRY Interchangeable
INVARIANTS
  IntegrityHolds
PROPERTIES
  Implements
CHECK_DEADLOCK FALSE
