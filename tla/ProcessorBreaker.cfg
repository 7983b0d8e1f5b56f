SPECIFICATION Spec
CONSTANTS
  Senders = {s1, s2}
  ChanCap = 1
  MaxMetrics = 1
  ShouldRetryOnFail = TRUE
  JoinsSenders = FALSE
  TotalFailures = 1
INVARIANT BreakerStopsRequests
