SPECIFICATION FairSpec
CONSTANTS
  None = None
  Account = {a1}
  Device = {d1, d2}
  Window = {w1}
  Slot = {s1}
  DeviceTtl = 9
  GraceTime = 0
  GraceUses = 1
  IssuedKept = 9
  PerAccount = 9
  Tombstone = 9
  MaxOwed = 2
  MaxTries = 1
  Faults = {"write", "read", "counter", "lost", "late", "older", "crash", "ended", "disable"}
  MaxFaults = 1
  MaxAsked = 3
  MaxCred = 2
  MaxTime = 2
INVARIANTS
  TypeOK
PROPERTIES
  OwedIsSettled
