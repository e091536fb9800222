CONSTANTS
  h1 = h1
  h2 = h2
  Hands <- TwoHands
  Sparks = {s1}
  Nobody = Nobody
  Kinds = {"cli", "ui"}
  UserActions = TRUE
  Faults = TRUE
  DbFails = TRUE
SPECIFICATION Spec
INVARIANT SingleOwner NoHandWithoutClaim
PROPERTY ImplementsOwnership
CHECK_DEADLOCK FALSE
