\* One end speaks and probes, the other answers; two fragments to a message
\* and one repair.
SPECIFICATION FairSpec
CONSTANTS
  End = {viewer, host}
  Why = {"shutdown"}
  Speaker = {viewer}
  Frags = 2
  MaxQueued = 2
  MaxHeld = 1
  MaxAttempts = 2
  MaxProbes = 1
  MaxSaid = 2
  MaxKey = 1
INVARIANTS
  TypeOK
  InStep
PROPERTIES
  DeliversInOrder
  HeardOrBroken
CHECK_DEADLOCK FALSE
