CONSTANTS
  None = None
  Built = {"finalize"}
  Depth = 1
  MaxCalls = 2
SPECIFICATION Spec
INVARIANT ReportIsObject
CHECK_DEADLOCK FALSE
