CONSTANTS
  h1 = h1
  h2 = h2
  Hands <- TwoHands
  Sparks = {s1}
  Nobody = Nobody
  Kinds = {"cli"}
  UserActions = FALSE
  Faults = TRUE
  DbFails = TRUE
SPECIFICATION FairSpec
INVARIANT StrandedIsDetectable
 
CHECK_DEADLOCK FALSE
