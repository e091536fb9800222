CONSTANTS
  c1 = c1
  c2 = c2
  none = none
  Children <- TwoChildren
  NoChild = none
  MaxRespawns = 1
  MaxCycles = 2
  MaxLives = 1
  MaxRows = 2
  MaxBlocks = 0
  Rivals = TRUE
  Returns = TRUE
  Reopens = FALSE
  Faults = FALSE
SPECIFICATION Spec
INVARIANT MergerAfterClose
PROPERTY OnlySilentHandsLoseTheirClaim
SYMMETRY Symmetry
CHECK_DEADLOCK FALSE
