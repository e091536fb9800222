CONSTANTS
  c1 = c1
  c2 = c2
  none = none
  Children <- OneChild
  NoChild = none
  MaxRespawns = 1
  MaxCycles = 3
  MaxLives = 2
  MaxRows = 2
  MaxBlocks = 2
  Rivals = TRUE
  Returns = FALSE
  Reopens = TRUE
  Faults = TRUE
SPECIFICATION FairSpec
INVARIANT RespawnCap OneMarkerPerAssignment NoSilentMarker
PROPERTY MergerComes
CHECK_DEADLOCK FALSE
