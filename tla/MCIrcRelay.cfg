CONSTANTS
  Events <- TwoEvents
  Kinds <- ThreeKinds
  MaxAttempts = 2
  BatchSize = 1
  MaxFaults = 1
SPECIFICATION FairSpec
INVARIANT LoggedBeforeSent SendsAreBounded NoLineIsMislaid QuitIsLast FailuresAreFlared
PROPERTY ImplementsOutbox InOrder Settles
