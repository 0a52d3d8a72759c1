\* A travel of two half-steps, a region four positions wide and two high scanned in
\* steps of 2 or 3, the first of which leaves a remainder,
\* two cards of two blocks, two scans of two chunks shown, a pairing window of
\* two rounds, lines of two bytes.
SPECIFICATION BoardSpec
CONSTANTS
  Travel = 2
  DefaultPivot = 1
  HoldWhenIdle = FALSE
  MaxMoves = 3
  PivotLimit = 2
  Rois <- OneRegion
  Steps = {2, 3}
  ChunkSize = 2
  Goals <- OneGoal
  Budget = 2
  MaxOrders = 2
  Cards = {"a", "b"}
  Usable = 2
  MaxParts = 3
  MaxSwaps = 2
  MaxScans = 2
  MaxChunks = 2
  MaxReports = 1
  WireCapacity = 2
  WindowLength = 2
  MaxTime = 5
  MaxLine = 2
  MaxBytes = 5
INVARIANTS StaysInTravel IdleIsAsReported ScanCoversRegion UncommandedScanIsClean GoodIsOnCard NeverJoined ViewFollowsScan PairingKeepsToWindow FramesAreLines
PROPERTIES MovesEnd
CHECK_DEADLOCK FALSE
