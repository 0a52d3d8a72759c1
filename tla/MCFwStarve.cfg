\* A flood during a rediscovery.
SPECIFICATION FairSpec
CONSTANTS
  Modules = 1
  Budget = 2
  EmitterCap = 3
  WorkCap = 1
  IncomingCap = 1
  MaxCount = 3
  MaxBatch = 1
  MaxCmd = 1
  MaxRediscover = 1
  MaxTelemetry = 3
  MaxReports = 0
  Flood = TRUE
PROPERTY TicksGoOn
CHECK_DEADLOCK FALSE
