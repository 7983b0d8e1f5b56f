SPECIFICATION Spec
CONSTANTS
  Listeners = {l1}
  MixedTracing = FALSE
  MaxInvocations = 1
  MaxUnreadable = 0
INVARIANT DryRunCompletes
