CONSTANTS
  Events <- TwoEvents
  Kinds <- FineOnly
  MaxAttempts = 2
  BatchSize = 2
  MaxFaults = 0
SPECIFICATION Spec
INVARIANT EventsSurviveServer
