SPECIFICATION ProcessSpec
CONSTANTS
  Hosts = {h1, h2, h3}
  HardLinks = FALSE
  SlowClaims = TRUE
  MaxCommands = 1
  MaxTickets = 2
  MaxFaults = 1
INVARIANTS ExclusiveWhenSerial OwnExitsAreNoCrashes EndsAgree
PROPERTIES Reclaimed NoStrayLinuxHost
CHECK_DEADLOCK FALSE
