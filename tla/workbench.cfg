SPECIFICATION WorkbenchSpec
CONSTANTS
  a1 = a1 a2 = a2 r1 = r1 c1 = c1 c2 = c2 j1 = j1 v1 = v1 v2 = v2
  Sessions = {a1, a2}
  Roots = {r1}
  Slots = {c1, c2}
  Restore = c2
  Home <- OneHome
  Jobs = {j1}
  MaxIds = 2
  Slow = {2}
  MaxRestarts = 1
  MaxLaunches = 3
  Versions = {v1, v2}
  Packages = {1, 2, 3}
  Optional = {2}
  Concurrency = 2
  Attempts = 2
  MaxInstalls = 2
  MaxCuts = 1
  Directories = {"r1", "r2"}
  AllSessions = {"s1", "s2", "s3"}
  DirectoryOf <- Directory
  Archived = {"s1", "s3"}
  Overdue = {0, 1, 3}
  MaxClicks = 3
  MaxDeaths = 1
  MaxResyncs = 1
SYMMETRY Alike
INVARIANTS
  BlamedStayClosed LedgerMatches NoStrayHost
  WholeUnlessCut
  LatestChoice WindowFollowsHost
CHECK_DEADLOCK FALSE
