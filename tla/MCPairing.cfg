\* Three requests with restarts, storage faults and a lost line.
SPECIFICATION Spec
CONSTANTS
  MaxKeys = 3
  MaxRequests = 3
  MaxRestarts = 2
  MaxReadFaults = 1
  MaxWriteFaults = 1
  MaxLost = 1
INVARIANTS FailsClosed PairedIsDurable
PROPERTIES HandedOutKeyIsStored
CHECK_DEADLOCK FALSE
