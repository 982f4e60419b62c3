SPECIFICATION Spec
CONSTANTS
  None = None
  Sessions = {s1, s2}
  Workers = {w1, w2}
  Files = {f1}
  Tasks = {t1}
  Faults = {"crash"}
  s1 = s1
  s2 = s2
  w1 = w1
  w2 = w2
  f1 = f1
  t1 = t1
SYMMETRY Interchangeable
INVARIANTS
  TypeOK
  IntegrityHolds
  NoLostWakeup
PROPERTIES
  Implements
CHECK_DEADLOCK FALSE
