CONSTANTS
  h1 = h1
  h2 = h2
  Hands <- TwoHands
  Sparks = {s1}
  Nobody = Nobody
  Kinds = {"ui"}
  UserActions = FALSE
  Faults = FALSE
  DbFails = FALSE
SPECIFICATION Spec
PROPERTY OnlyDeadSessionsEnd
CHECK_DEADLOCK FALSE
