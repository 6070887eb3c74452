CONSTANTS
  None = None
  c1 = c1
  c2 = c2
  b1 = b1
  b2 = b2
  Callers <- MCCallers
  Buildings <- MCBuildings
  Points <- MCPoints
  MaxAsks = 4
SPECIFICATION Spec
INVARIANT AnswersAgree
INVARIANT NoNeedlessAsk
SYMMETRY Symmetry
