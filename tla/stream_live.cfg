SPECIFICATION FairSpec
CONSTANTS
  Sessions = {s1}
  Ports = {1, 2}
  QueueCap = 3
  Window = 1
  ContentBytes = 1
  GapBytes = 1
  SnapshotBytes = 2
  MaxHistory = 2
  MaxOpens = 1
  MaxReloads = 0
  MaxExits = 1
  MaxCompactions = 1
  MaxRejects = 1
  MaxAckCount = 1
  Rejectable = {"content"}
PROPERTIES NoStall Repaired SamePort
CHECK_DEADLOCK FALSE
