SPECIFICATION Spec
CONSTANTS
  Senders = {s1, s2}
  ChanCap = 3
  MaxMetrics = 3
  ShouldRetryOnFail = TRUE
  JoinsSenders = FALSE
  TotalFailures = 1
SYMMETRY SenderSymmetry
INVARIANTS IInv RetryKeeps FlushedOnFinish BreakerInStep
