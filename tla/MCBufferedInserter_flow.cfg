\* The owner and another task add up to four rows, a batch is full at two, the
\* buffer is capped at three, two inserts fail or are cancelled.
SPECIFICATION Spec
CONSTANTS
  c1 = c1
  c2 = c2
  Callers = {c1, c2}
  Owner = c1
  Timer = Timer
  MaxRow = 4
  MaxRows = 2
  MaxBuffered = 3
  MaxFaults = 2
INVARIANTS
  TypeOK
  RowsAccountedFor
  HeldOnce
  CloseDrains
PROPERTIES
  EventuallyStored
  CloseReturns
\* Nothing needs to happen once the block has been left.
CHECK_DEADLOCK FALSE
