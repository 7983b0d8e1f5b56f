SPECIFICATION SpecTimeout
CONSTANTS
  Senders = {s1, s2}
  ChanCap = 1
  MaxMetrics = 2
  ShouldRetryOnFail = TRUE
  JoinsSenders = TRUE
  TotalFailures = 0
PROPERTIES FinishTerminates AddCompletes
CHECK_DEADLOCK FALSE
