CONSTANTS
  None = None
  NaN = NaN
  Types <- MCTypes
  Places <- MCPlaces
  MaxIncidents = 4
SPECIFICATION FindSpec
INVARIANT FindLosesNothing
INVARIANT MatchesAreNear
INVARIANT NearestFirstAmongPlaced
