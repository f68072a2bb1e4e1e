\* One task and the timer, no batch size to speak of, a buffer capped at two.
SPECIFICATION Spec
CONSTANTS
  c1 = c1
  Callers = {c1}
  Owner = c1
  Timer = Timer
  MaxRow = 4
  MaxRows = 9
  MaxBuffered = 2
  MaxFaults = 1
INVARIANTS
  HardCap
\* Nothing needs to happen once the block has been left.
CHECK_DEADLOCK FALSE
