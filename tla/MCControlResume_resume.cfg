\* Two viewers, one after the other, three recoveries and two waits for the
\* dispatcher that run out.
SPECIFICATION FairSpec
CONSTANTS
  MaxViewers = 2
  MaxIds = 3
  MaxBreaks = 3
  MaxLate = 2
  LateWaits = {"ask"}
  MaxRaised = 6
  Delayed = FALSE
INVARIANTS
  AnswersAreHonest
PROPERTIES
  WorkingChannelStays
  Repaired
CHECK_DEADLOCK FALSE
