SPECIFICATION FairSpec
CONSTANTS
  Helpers = {h1}
  Controller = c
  NMoves = 2
  MaxScore = 3
  MaxDepth = 2
  Window = 1
  Pvs = TRUE
CHECK_DEADLOCK FALSE
INVARIANT ClaimsAreCurrent
PROPERTY SearchReturns
