CONSTANTS
  None = None
  MaxEntries = 4
SPECIFICATION FairSpec
INVARIANT SessionsHaveTransports
INVARIANT CallsReachTheOpenSession
INVARIANT OnlyAbandonedEntriesLeak
PROPERTY ExitReleases
CHECK_DEADLOCK FALSE
