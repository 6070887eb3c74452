CONSTANTS
  None = None
  Counts = {0, 1, 2}
  MaxCalls = 3
SPECIFICATION Spec
INVARIANT TotalsAreBilled
INVARIANT CacheIsPartOfRead
