\* Two tasks on two rows that take every liberty, up to four scopes, one fault.
SPECIFICATION Spec
CONSTANTS
  t1 = t1
  t2 = t2
  k1 = k1
  k2 = k2
  Tasks = {t1, t2}
  Rows = {k1, k2}
  NoRow = NoRow
  Usage = {"midCommit", "swallow", "handlerWrites"}
  MaxScopes = 4
  MaxDepth = 3
  MaxFaults = 1
SYMMETRY TaskAndRowSymmetry
INVARIANTS
  TypeOK
  InvalidationFollowsCommit
  ContextRestored
  FailedScopesLeaveNothing
\* The bound on scopes ends the program.
CHECK_DEADLOCK FALSE
