\* Three commands, one of them Rediscover, with telemetry and drop reports.
SPECIFICATION Spec
CONSTANTS
  Modules = 1
  Budget = 2
  EmitterCap = 3
  WorkCap = 2
  IncomingCap = 2
  MaxCount = 3
  MaxBatch = 2
  MaxCmd = 3
  MaxRediscover = 1
  MaxTelemetry = 2
  MaxReports = 1
  Flood = FALSE
INVARIANTS DiscoveryInOrder TelemetryAccounted CommandsInOrder
