\* One account with two families and two sessions: rotation, grace, reuse,
\* ending, expiry, pruning and forgetting.  No PCs.
SPECIFICATION Spec
CONSTANTS
  None = None
  Account = {a1}
  Device = {d1, d2}
  Machine = {}
  HostId = {}
  HostToken = {}
  Token = {t1, t2, t3}
  DeviceTtl = 2
  GraceTime = 1
  GraceUses = 1
  IssuedKept = 2
  PerAccount = 1
  Tombstone = 0
  SessionTtl = 1
  MaxPending = 1
  OperatorCli = TRUE
  MaxTime = 4
  MaxCred = 4
  MaxEdition = 1
SYMMETRY Alike
INVARIANTS
  TypeOK
  AnswersSurviveRestart
  SessionsEndWithTheirFamily
  WithinTheLimit
PROPERTIES
  NewFamilyIsLive
  KeepsThePromise
