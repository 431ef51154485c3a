\* Two hosts and two clients behind one NAT, up to their names.
SPECIFICATION FairSpecUpToNames
CONSTANTS
  Hosts = {h1, h2}
  Clients = {c1, c2}
  Ips = {ip}
  IpOf <- OneNat
  Addrs = {"a1", "a2"}
  MaxTokens = 2
  MaxMoves = 3
  MaxCloses = 1
  MaxChanges = 3
  WAKE_RESEND_MAX = 1
  WAKE_RESEND_MAX_TIMERS = 1
INVARIANTS
  TypeOK
  IndexesAgree
  ClosedHostHasNothing
PROPERTIES
  ResendEnds
CHECK_DEADLOCK FALSE
