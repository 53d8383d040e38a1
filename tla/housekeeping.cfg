SPECIFICATION HousekeepingSpec
CONSTANTS
  Conversations = {s1, s2, s3}
  ToolCalls = {t1}
  Requests = {q1}
  Reports = {}
  Capacity = 2
  MaxOpenSpans = 2
  MaxTracked = 2
  MaxLive = 1
  MaxTurns = 3
  Apps = {v1, v2}
  MaxConnects = 2
  MaxMishaps = 2
INVARIANTS RecentIsTrue NothingMiscounted RunsOnWhole InstalledIsFound
SYMMETRY ConversationSymmetry
CHECK_DEADLOCK FALSE
