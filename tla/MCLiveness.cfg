CONSTANTS
  r1 = r1
  w1 = w1
  w2 = w2
  Rows <- OneRow
  Watchdogs <- TwoWatchdogs
  AtRiskAfter = 1
  StuckAfter = 2
  Faults = TRUE
SPECIFICATION FairSpec
INVARIANT ReplayAgrees
PROPERTY EdgesChain SilenceIsNoticed
CHECK_DEADLOCK FALSE
