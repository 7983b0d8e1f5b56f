SPECIFICATION Spec
CONSTANTS
  Listeners = {l1, l2}
  MixedTracing = FALSE
  MaxInvocations = 2
  MaxUnreadable = 1
SYMMETRY Interchangeable
INVARIANTS
  TypeOK
  StartThenEnd
  TracerAgrees
  EndReportsSpan
  TracePrecedence
  TracesConnected
  SpanFinishedOnce
