\* Both kinds of counters, with values too large for their column.
SPECIFICATION FairSpec
CONSTANTS
  None = None
  Ifaces = {1}
  Counter32Max = 2
  ColumnMax = 3
  Counter64Max = 5
  Capacity = 20
  Threshold = 50
  Duration = 2
  Interval = 1
  MaxAge = 2
  MaxSpawned = 1
  Widths = {TRUE, FALSE}
  Answers <- MCComplete
  Loads <- MCLoads
INVARIANTS
  TypeOK
  SustainedAlertEarned
  AlertFollowsUtilisation
PROPERTIES
  ElapsedIsHonest
  DeltaIsTraffic
  AttemptsAreRecorded
  MeasurementsKeepComing
