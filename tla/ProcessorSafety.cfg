SPECIFICATION Spec
CONSTANTS
  Senders = {s1, s2}
  ChanCap = 1
  MaxMetrics = 3
  ShouldRetryOnFail = FALSE
  JoinsSenders = TRUE
  TotalFailures = 1
SYMMETRY SenderSymmetry
INVARIANTS TypeOK BatcherExclusive FirstInFirstOut AtMostOnce FlushedOnFinish AtMostOneLateFlush
PROPERTIES NothingAfterReturn ImplementsPipe
CHECK_DEADLOCK FALSE
