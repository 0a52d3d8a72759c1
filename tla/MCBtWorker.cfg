\* Two links, one and a half lines on each, two events besides opening and closing.
SPECIFICATION FairSpec
CONSTANTS
  Module = {m1}
  System = System
  Event = Event
  WorkCap = 2
  PendingCap = 2
  MaxLinks = 2
  MaxPieces = 3
  MaxEvents = 2
INVARIANTS LinesAreWhole FramesAreWhole DesktopIsUpToDate
PROPERTIES FramesAreWritten GoneLinkIsLeft
CHECK_DEADLOCK FALSE
