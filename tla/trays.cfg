SPECIFICATION TraySpec
CONSTANTS
  RealPath <- MCRealPath
  Dangling <- MCDangling
  DotNames = {}
  MaxRemembered = 1
  Sessions = {s1}
  Calls = {c1}
  Dialogs = {d1, d2}
  Tools = {"write"}
  Arguments <- MCArguments
  Root <- MCRoot
  MaxOpenings = 2
  MaxTrusts = 0
  MaxDeaths = 1
  MaxReloads = 1
  MaxInFlight = 2
INVARIANTS ScreenMatches
CHECK_DEADLOCK FALSE
SYMMETRY DialogSymmetry
CONSTRAINT OneDialogWithDeath
