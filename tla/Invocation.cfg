SPECIFICATION Spec
CONSTANTS
  Goroutines = {g1, g2}
  MaxInvocations = 2
  MaxCalls = 2
INVARIANTS
  TypeOK
  RequestsUseOwnContext
  FlushedOnReturn
  FIPSNeverCallsAPI
  EnhancedMetricsAgree
  QuiescentWhenIdle
PROPERTIES
  JoinedNeverPanics
  EachProcessorIsAPipe
  NoGoroutineLeak
