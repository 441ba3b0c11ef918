\* One link id, deleted and reused; every kind of ping result; one page request.
SPECIFICATION HealthSpec
CONSTANTS
  None = None
  MaxLinks = 1
  MaxInterval = 2
  Intervals = {1, 2}
  Overrides = {0, 1}
  Devices = {"up", "down"}
  PingResults <- MCPingResults
  LatencyThreshold = 1
  LossThreshold = 10
  MaxSpawned = 1
INVARIANTS
  HealthTypeOK
  NoOverlap
  OneOpenAlert
  DownFlagHasAlert
  AlertsMatchNewest
  AnswerIsOfTheRequest
PROPERTY
  OutagesAreLogged
