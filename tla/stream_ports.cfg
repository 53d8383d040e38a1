SPECIFICATION Spec
CONSTANTS
  Sessions = {s1}
  Ports = {1, 2}
  QueueCap = 3
  Window = 2
  ContentBytes = 1
  GapBytes = 1
  SnapshotBytes = 2
  MaxHistory = 2
  MaxOpens = 2
  MaxReloads = 1
  MaxExits = 1
  MaxCompactions = 0
  MaxRejects = 0
  MaxAckCount = 1
  Rejectable = {}
INVARIANTS CreditConserved
PROPERTY NeverTakenBack
CHECK_DEADLOCK FALSE
