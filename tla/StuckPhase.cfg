CONSTANTS
  r1 = r1
  alice = alice
  bob = bob
  Rows <- OneRow
  Actors <- TwoActors
  NoActor = NoActor
  DefaultRepairCycleLimit = 1
  CallerLimits = {}
  DirectLiveness = {}
  MaxVersion = 6
  UpdateVersions = {}
  MaxRepairs = 2
SPECIFICATION Spec
CHECK_DEADLOCK FALSE
PROPERTY StuckFlipsPhase
