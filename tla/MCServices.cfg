SPECIFICATION Spec
CONSTANTS
  w1 = w1
  w2 = w2
  i1 = i1
  i2 = i2
  Watch = {w1, w2}
  Intent = {i1, i2}
  IntentOf <- TwoIntents
  CadenceOf <- IntervalAndZero
  Until = {w2}
  Runner = {ra, rb}
  CronRetry = 2
  MaxTime = 3
  MaxFaults = 1
  Events <- FourEvents
  Subscribers <- TwoSubscribers
  BatchSize = 2
  Refused <- FirstPoisoned
  MaxRefusals = 2
  MaxStops = 1
  Event <- ThreeEvents
  Stories <- PullRequests
  FirstPhase <- Reviewable
  MaxNow = 2
  MaxTrouble = 1
  s1 = s1
  s2 = s2
  s3 = s3
  Spark = {s1, s2, s3}
  NoParent = NoParent
  Hierarchies <- FlatOrUnderFirst
  Creator = {c1, c2}
  NoBond = NoBond
  Tree = {t1}
  Work = {k1, k2}
  MaxPrunes = 2
  Release = {r1, r2}
  Versions = {1}
  Epic = {e1}
  Closer = {d1, d2}
  MaxFailures = 1
  Task = {ta, tb}
  KeepRecent = 2
  Tapers <- DaysOfTwo
  MaxInstant = 2
  MaxSuffix = 1
  MaxAborts = 1
  Absent = Absent
  Garbage = Garbage
  MaxSecond = 1
  MaxWrites = 2
  MaxMishaps = 1
INVARIANTS
  EachEventOnce
  CursorBehindUnseen
  SomethingIsHot
  OneOpenRelease
  RecordedTagStands
  RestoredAsTaken
  PriorWorkIsKept
PROPERTIES
  ImplementsSchedule
  ImplementsDelivery
  DueIsServed
  RefusedHoldsUpNobody
  EventsSettle
  LostWorkWasLate
  NewestSnapshotRemains
CHECK_DEADLOCK FALSE
