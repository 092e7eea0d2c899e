SPECIFICATION Spec
CONSTANTS
  Images = {i1}
  Queues = {q1, q2}
  Workers = {w1, w2}
  MaxPresents = 2
INVARIANTS
  TypeOK
  FenceCountsPresents
  PoolIdle
  CalledOnce
PROPERTIES
  EveryExportCalled
CHECK_DEADLOCK FALSE
