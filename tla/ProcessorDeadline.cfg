SPECIFICATION SpecDeadline
CONSTANTS
  Senders = {s1, s2}
  ChanCap = 2
  MaxMetrics = 2
  ShouldRetryOnFail = FALSE
  JoinsSenders = TRUE
  TotalFailures = 0
PROPERTIES FinishTerminates CancelStopsWorker
