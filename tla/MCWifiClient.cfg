\* Two connections, three lines, one rediscovery, queues of two and one.
SPECIFICATION FairSpec
CONSTANTS
  Announced <- AnnouncedInOrder
  MaxConns = 2
  MaxLines = 3
  MaxRounds = 1
  MaxDrops = 1
  OutCap = 1
  InCap = 1
INVARIANTS AssociatedIsUp CommandsByConnection DesktopIsUpToDate
PROPERTIES Reconnects
CHECK_DEADLOCK FALSE
