SPECIFICATION RendererSpec
CONSTANTS
  Sessions = {s1, s2}
  Ports = {1}
  QueueCap = 6
  Window = 1
  ContentBytes = 1
  GapBytes = 1
  SnapshotBytes = 2
  MaxHistory = 2
  MaxOpens = 1
  MaxReloads = 0
  MaxExits = 0
  MaxCompactions = 0
  MaxRejects = 1
  MaxAckCount = 2
  Rejectable = {"content"}
  Tabs = {"c1", "c2"}
  Words = {"w1", "w2"}
  Files = {"k"}
  MaxKeys = 3
  MaxCalls = 2
  MaxEvents = 2
  MaxMoves = 6
INVARIANTS PrefixOrFlagged CaughtUp
  TypedOnce MenuAnswersMention StopNotSpent
SYMMETRY SessionSymmetry
CHECK_DEADLOCK FALSE
