\* A client that reads inside a block, one that reads outside; nothing fails.
SPECIFICATION Spec
CONSTANTS
  c1 = c1
  c2 = c2
  k1 = k1
  Clients = {c1, c2}
  BlockClients = {c1}
  Rows = {k1}
  None = None
  List = List
  MaxWrites = 2
  MaxFaults = 0
INVARIANTS
  QueriesHonourInvalidation
\* An idle cache may stay idle.
CHECK_DEADLOCK FALSE
