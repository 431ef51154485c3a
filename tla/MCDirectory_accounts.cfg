\* Accounts made, disabled, deleted and made again while passwords are being
\* checked and changed, with a family, sessions and the PCs of one machine.
SPECIFICATION Spec
CONSTANTS
  None = None
  Account = {a1}
  Device = {d1}
  Machine = {m1}
  HostId = {h1, h2}
  HostToken = {k1, k2}
  Token = {t1, t2}
  DeviceTtl = 2
  GraceTime = 1
  GraceUses = 1
  IssuedKept = 2
  PerAccount = 1
  Tombstone = 0
  SessionTtl = 1
  MaxPending = 1
  OperatorCli = FALSE
  MaxTime = 2
  MaxCred = 2
  MaxEdition = 3
SYMMETRY Alike
INVARIANTS
  MemoryIsDisk
  StandsOnThePresentPassword
  OwnersExist
  IndexIsTheStore
