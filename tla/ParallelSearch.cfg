SPECIFICATION Spec
CONSTANTS
  Helpers = {h1, h2}
  Controller = c
  NMoves = 3
  MaxScore = 2
  MaxDepth = 1
  Window = 0
  Pvs = TRUE
SYMMETRY HelperSymmetry
CHECK_DEADLOCK FALSE
INVARIANT SharingIsSound
PROPERTIES AlphaOnlyRises ImplementsDeepening
