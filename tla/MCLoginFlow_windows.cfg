SPECIFICATION Spec
CONSTANTS
  None = None
  Account = {a1}
  Device = {d1, d2}
  Window = {w1, w2}
  Slot = {s1, s2}
  DeviceTtl = 9
  GraceTime = 0
  GraceUses = 1
  IssuedKept = 9
  PerAccount = 9
  Tombstone = 9
  MaxOwed = 1
  MaxTries = 1
  Faults = {"write", "read", "crash", "lost", "ended"}
  MaxFaults = 2
  MaxAsked = 2
  MaxCred = 3
  MaxTime = 1
SYMMETRY Alike
INVARIANTS
  ComesBackAsTheLastSignIn
  LateAnswerIsNotKept
  LiveDevicesAreHeld
  OneInterruptionIsForgiven
