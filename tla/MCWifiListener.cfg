\* Two peers that may authenticate at once, replace each other and be stopped.
SPECIFICATION FairSpec
CONSTANTS
  MaxPendingAuth = 2
  MaxPeers = 2
INVARIANTS PendingExact SlotIsServed
PROPERTIES StopEndsEverything
CHECK_DEADLOCK FALSE
