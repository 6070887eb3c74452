CONSTANTS
  None = None
  s1 = s1
  t1 = t1
  r1 = r1
  h1 = h1
  v1 = v1
  Texts <- MCTexts
  ReportIds <- MCReportIds
  Statuses <- MCStatuses
  MaxSeq = 1
  Slots <- MCSlots
  Trucks <- MCTrucks
  MaxRounds = 1
  Ticks <- MCTicks
  Horizon = 2
  Deliveries <- MCDeliveries
  Sensors <- MCSensors
  UseLLM <- MCUseLLM
  Builds <- MCBuilds
SPECIFICATION FairSpec
INVARIANT EpisodeTypeOK
INVARIANT ActsOnTheCurrentTick
INVARIANT NothingInFlightAcrossTicks
INVARIANT EachContactRoutedOnce
INVARIANT TokensBalance
INVARIANT BeliefsAreDated
PROPERTY OrdersLandInTheirTick
PROPERTY ImplementsTickProtocol
PROPERTY Terminates
CHECK_DEADLOCK FALSE
