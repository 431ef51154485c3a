\* Every step may fail, and the updater may die; two attempts.
SPECIFICATION FairSpec
CONSTANTS
  Host = "host"
  Service = "service"
  Client = "client"
  Payload <- FourFiles
  Fresh = {"fresh"}
  Faults = {"fetch", "download", "verify", "ask", "move", "place", "register", "relaunch", "health", "stop", "undo", "restore", "delete"}
  SlowClose = FALSE
  RetryTorn = FALSE
  StartsAt = {"Idle", "CheckRequested", "Download", "Verify", "Place", "Register", "RelaunchRequired", "RelaunchOptional", "Probe", "Undo"}
  MaxAttempts = 2
  MaxKilled = 1
  MaxStarts = 1
INVARIANTS
  GivingUpIsHeard
  NothingIsLost
  EndsWhole
  ComesBack
PROPERTIES
  AttemptEnds
CHECK_DEADLOCK FALSE
