\* The same region; whoever moves a servo does so as the code lets them.
SPECIFICATION BoardSpec
CONSTANTS
  Travel = 2
  DefaultPivot = 1
  HoldWhenIdle = FALSE
  MaxMoves = 3
  PivotLimit = 2
  Rois <- OneRegion
  Steps = {2, 3}
  ChunkSize = 2
  Goals <- OneGoal
  Budget = 2
  MaxOrders = 2
  Cards = {"a", "b"}
  Usable = 2
  MaxParts = 3
  MaxSwaps = 2
  MaxScans = 2
  MaxChunks = 2
  MaxReports = 1
  WireCapacity = 2
  WindowLength = 2
  MaxTime = 5
  MaxLine = 2
  MaxBytes = 5
INVARIANT PointsAreClean
CHECK_DEADLOCK FALSE
