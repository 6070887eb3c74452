CONSTANTS
  None = None
  Old = Old
  Torn = Torn
  NaN = NaN
  c1 = c1
  c2 = c2
  plain = plain
  odd = odd
  deep = deep
  ContactIds <- MCContactIds
  Claims <- MCClaims
  Places <- MCPlaces
  Ticks <- MCTicks
  Deep <- MCDeep
  Odd <- MCOdd
  MaxOffers = 3
SPECIFICATION Spec
INVARIANT FirstWriteWins
INVARIANT LogIsCurrentOrWarned
INVARIANT TimeWindowsTile
INVARIANT NearMeansNear
CHECK_DEADLOCK FALSE
SYMMETRY ContactSymmetry
