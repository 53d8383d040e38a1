SPECIFICATION Spec
CONSTANTS
  Messages = {m1, m2, m3}
  MaxQueued = 1
  MaxOpenings = 2
  MaxMutations = 1
  MaxForeign = 1
  MaxUnreadable = 1
INVARIANTS OneAtATime ForeignWritesStop
PROPERTIES Answered
CHECK_DEADLOCK FALSE
