CONSTANTS
  None = None
  Old = Old
  Torn = Torn
  r1 = r1
  Texts <- OneText
  ReportIds <- MCReportIds
  Ticks <- MCTicks
  Statuses <- MCStatuses
  CallerNames <- StatusNames
  MaxSeq = 2
  Deep <- Shallow
SPECIFICATION LoggedSpec
INVARIANT TypeOK
INVARIANT NeverStranded
INVARIANT EvidenceLinkedOnce
INVARIANT LogIsCurrentOrWarned
PROPERTY IdentityKept
PROPERTY RejectedCallWritesNothing
PROPERTY LogIsInvisible
