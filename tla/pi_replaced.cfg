SPECIFICATION PiSpec
CONSTANTS
  v1 = v1 v2 = v2
  Versions = {v1}
  Packages = {1, 2}
  Optional = {2}
  Concurrency = 2
  Attempts = 2
  MaxInstalls = 2
  MaxCuts = 1
PROPERTY NotLostByInstall
CHECK_DEADLOCK FALSE
