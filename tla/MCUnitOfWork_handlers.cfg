\* Signal handlers of writes outside any block use repositories.
SPECIFICATION Spec
CONSTANTS
  t1 = t1
  t2 = t2
  k1 = k1
  k2 = k2
  Tasks = {t1, t2}
  Rows = {k1, k2}
  NoRow = NoRow
  Usage = {"handlerWrites"}
  MaxScopes = 4
  MaxDepth = 3
  MaxFaults = 0
SYMMETRY TaskAndRowSymmetry
INVARIANTS
  RollbackIsComplete
CHECK_DEADLOCK FALSE
