CONSTANTS
  None = None
  Built = {"finalize"}
  Depth = 1
  MaxCalls = 2
SPECIFICATION Spec
INVARIANT WholeObjectOrUnknown
INVARIANT NothingInvented
PROPERTY UsageIsReturned
CHECK_DEADLOCK FALSE
