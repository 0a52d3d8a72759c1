\* A peer that may send module commands without end, after numbered ones.
SPECIFICATION FairSpec
CONSTANTS
  Modules = 1
  Budget = 2
  EmitterCap = 2
  WorkCap = 2
  IncomingCap = 1
  MaxCount = 3
  MaxBatch = 2
  MaxCmd = 2
  MaxRediscover = 0
  MaxTelemetry = 0
  MaxReports = 0
  Flood = TRUE
PROPERTIES TicksGoOn CommandsHandled
