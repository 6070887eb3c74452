CONSTANTS
  None = None
  Old = Old
  Torn = Torn
  r1 = r1
  Texts <- TwoTexts
  ReportIds <- MCReportIds
  Ticks <- MCTicks
  Statuses <- MCStatuses
  CallerNames <- BeliefNames
  MaxSeq = 1
  Deep <- DeepText
SPECIFICATION LoggedSpec
INVARIANT LogNeverAborts
