\* Liveness for one link, beside another whose pings all hang.
SPECIFICATION HangSpec
CONSTANTS
  None = None
  MaxLinks = 2
  MaxInterval = 2
  Intervals = {1, 2}
  Overrides = {}
  Devices = {"up", "down"}
  PingResults <- MCPlainResults
  LatencyThreshold = 1
  LossThreshold = 10
  MaxSpawned = 1
PROPERTIES
  OutageRaisedDespiteHang
  OutageClearedDespiteHang
