\* Batch workers whose publisher maps no connection error: the ClickHousePublisher.
SPECIFICATION Spec
CONSTANTS
  p1 = p1
  w1 = w1
  w2 = w2
  Producers = {p1}
  Workers = {w1, w2}
  BatchWorkers = {w1, w2}
  MappingWorkers = {}
  MaxId = 2
  BatchSize = 2
  MaxAttempts = 2
  MaxFaults = 1
INVARIANTS
  OnlyRefusedDie
CHECK_DEADLOCK FALSE
