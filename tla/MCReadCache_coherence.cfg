\* Two clients, one of which uses blocks, one row, two writes or evictions, one fault.
SPECIFICATION Spec
CONSTANTS
  c1 = c1
  c2 = c2
  k1 = k1
  Clients = {c1, c2}
  BlockClients = {c1}
  Rows = {k1}
  None = None
  List = List
  MaxWrites = 2
  MaxFaults = 1
INVARIANTS
  TypeOK
  CleanQueriesHonourInvalidation
  CurrentListCoherent
  ObjectsCoherent
\* An idle cache may stay idle.
CHECK_DEADLOCK FALSE
