\* One per-message worker whose publisher maps connection errors, one batch
\* worker whose publisher does not; two concurrent producers, two rows.
SPECIFICATION Spec
CONSTANTS
  p1 = p1
  p2 = p2
  w1 = w1
  w2 = w2
  Producers = {p1, p2}
  Workers = {w1, w2}
  BatchWorkers = {w2}
  MappingWorkers = {w1}
  MaxId = 2
  BatchSize = 2
  MaxAttempts = 2
  MaxFaults = 2
SYMMETRY ProducerSymmetry
INVARIANTS
  StatusMatchesAttempts
  RedeliveryHasACause
  TakenIsAccountedFor
PROPERTIES
  DeliveryPromise
\* A deployment whose workers were all stopped may stand still.
CHECK_DEADLOCK FALSE
