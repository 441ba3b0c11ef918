\* A deletion while a poll is in flight.
SPECIFICATION Spec
CONSTANTS
  None = None
  MaxLinks = 1
  MaxInterval = 1
  Intervals = {1}
  Overrides = {}
  Devices = {"up", "down"}
  PingResults <- MCPlainResults
  LatencyThreshold = 1
  LossThreshold = 10
  MaxSpawned = 1
INVARIANT
  DeleteRemovesEverything
