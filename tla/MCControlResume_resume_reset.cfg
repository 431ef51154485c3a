\* A recovery, then a second viewer.
SPECIFICATION Spec
CONSTANTS
  MaxViewers = 2
  MaxIds = 1
  MaxBreaks = 1
  MaxLate = 0
  LateWaits = {}
  MaxRaised = 1
  Delayed = FALSE
INVARIANT NewViewerIsHeard
CHECK_DEADLOCK FALSE
