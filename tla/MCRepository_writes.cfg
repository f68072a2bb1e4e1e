\* Two units: three calls on a versioned row, two on the other models.
SPECIFICATION Spec
CONSTANTS
  u1 = u1
  u2 = u2
  r1 = r1
  r2 = r2
  Units = {u1, u2}
  Rows = {r1, r2}
  Models <- SomeModels
  Keys <- KeysOf
  FirstRow = r1
  None = None
  MaxOps <- CallsOf
SYMMETRY UnitSymmetry
INVARIANTS
  TypeOK
  NoLostUpdate
  VersionNamesContent
  DuplicatesNeedOverlap
  RejectedStaysOut
PROPERTIES
  OnlyRestoreRevives
\* The bound on calls ends the program.
CHECK_DEADLOCK FALSE
