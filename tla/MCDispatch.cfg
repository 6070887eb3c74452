CONSTANTS
  None = None
  s1 = s1
  s2 = s2
  t1 = t1
  r1 = r1
  Texts <- MCTexts
  ReportIds <- MCReportIds
  Ticks <- MCTicks
  Statuses <- MCStatuses
  MaxSeq = 1
  Slots <- MCSlots
  Trucks <- MCTrucks
  MaxRounds = 2
SPECIFICATION Spec
INVARIANT TypeOK
INVARIANT OrdersNameFiledIncidents
INVARIANT RecordedWereAccepted
INVARIANT AcceptedAreAccountedFor
INVARIANT ClosedHaveReason
INVARIANT OneOrderPerCall
CHECK_DEADLOCK FALSE
SYMMETRY SlotSymmetry
