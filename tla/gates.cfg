SPECIFICATION Spec
CONSTANTS
  RealPath <- MCRealPath
  Dangling <- MCDangling
  DotNames = {}
  MaxRemembered = 1
  Sessions = {s1}
  Calls = {c1, c2}
  Dialogs = {d1}
  Tools = {"write"}
  Arguments <- MCArguments
  Root <- MCRoot
  MaxOpenings = 2
  MaxTrusts = 1
  MaxDeaths = 1
INVARIANTS RanWithLeave WaitsForTheOpen
PROPERTIES RequestsSettle
CHECK_DEADLOCK FALSE
