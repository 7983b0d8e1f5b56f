SPECIFICATION Spec
CONSTANTS
  Listeners = {l1, l2}
  MixedTracing = TRUE
  MaxInvocations = 2
  MaxUnreadable = 0
INVARIANT SpanIsCurrent
