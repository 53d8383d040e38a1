SPECIFICATION LifecycleSpec
CONSTANTS
  Sessions = {s1, s2}
  OnDisk = {s1}
  Tasks = {t1, t2, t3}
  Calls = {c1, c2}
  MaxOpen = 2
  MaxOpenings = 2
  MaxDeaths = 1
  MaxForeign = 1
  Budget = 1
  MaxFaults = 3
  MaxClicks = 3
INVARIANTS OneWriter NoLockLeak ReportsWhatDied
  PageIsServed ActiveIsOpen QuitLeavesNothing
SYMMETRY TaskSymmetry
CHECK_DEADLOCK FALSE
