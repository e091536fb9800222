CONSTANTS
  c1 = c1
  c2 = c2
  none = none
  Children <- TwoChildren
  NoChild = none
  MaxRespawns = 1
  MaxCycles = 3
  MaxLives = 2
  MaxRows = 0
  MaxBlocks = 0
  Rivals = FALSE
  Returns = FALSE
  Reopens = FALSE
  Faults = TRUE
SPECIFICATION Spec
PROPERTY RestartPicksUp
CHECK_DEADLOCK FALSE
