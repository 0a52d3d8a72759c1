\* Liveness under the fairness of the worker and reader threads.
SPECIFICATION FairSpec
CONSTANTS
  k1 = k1
  k2 = k2
  Key <- OneKey
  NoKey = NoKey
  MaxSeq = 4
  MaxConn = 2
  MaxCmd = 2
  MaxKeyChanges = 1
  MaxFaults = 1
  MaxLost = 1
PROPERTIES HandshakeSettles SignedCommandsAreObeyed
CHECK_DEADLOCK FALSE
