SPECIFICATION Spec
CONSTANTS
  c1 = c1  c2 = c2  c3 = c3
  Calls <- MCCalls  Malformed <- MCMalformed  None = None
  MaxRestarts = 2  MaxBusy = 1
INVARIANT QueuedIsApplied
