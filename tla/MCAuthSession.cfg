\* Two connections, three commands, one key change, one repeated or swapped line.
SPECIFICATION Spec
CONSTANTS
  k1 = k1
  k2 = k2
  Key <- TwoKeys
  NoKey = NoKey
  MaxSeq = 4
  MaxConn = 2
  MaxCmd = 3
  MaxKeyChanges = 1
  MaxFaults = 1
  MaxLost = 1
SYMMETRY Symmetry
INVARIANTS TypeOK Agreement SessionOfThisConnection
PROPERTIES KeyChangeEndsSession ImplementsChannel
CHECK_DEADLOCK FALSE
