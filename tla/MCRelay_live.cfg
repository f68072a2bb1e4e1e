\* Two workers under the fairness of the event loop, of a supervisor that
\* restarts dead workers and of a broker that answers in the end.
SPECIFICATION FairSpec
CONSTANTS
  p1 = p1
  w1 = w1
  w2 = w2
  Producers = {p1}
  Workers = {w1, w2}
  BatchWorkers = {w2}
  MappingWorkers = {w1, w2}
  MaxId = 2
  BatchSize = 2
  MaxAttempts = 2
  MaxFaults = 0
INVARIANTS
  OnlyRefusedDie
PROPERTIES
  EventuallySettled
  StopEnds
\* A deployment whose workers were all stopped may stand still.
CHECK_DEADLOCK FALSE
