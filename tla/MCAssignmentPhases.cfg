CONSTANTS
  r1 = r1
  alice = alice
  bob = bob
  Rows <- OneRow
  Actors <- TwoActors
  NoActor = NoActor
  DefaultRepairCycleLimit = 1
  CallerLimits = {0}
  DirectLiveness = {"healthy"}
  MaxVersion = 2
  UpdateVersions = {0}
  MaxRepairs = 2
SPECIFICATION Spec
SYMMETRY ActorSymmetry
INVARIANT TypeOK ApprovalIntegrity OverLimitIsStuck
CHECK_DEADLOCK FALSE
PROPERTY ImplementsReviewGate
