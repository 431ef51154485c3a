\* Two faults of any kind: safety.
SPECIFICATION Spec
CONSTANTS
  EncoderHolds = 1
  QueueMax = 1
  HeldMax = 2
  PipeMax = 2
  Faults = {"refused", "ignored", "output", "unknown", "rebuilt", "flush", "viewer", "stall", "send", "lost", "overflow", "part", "stale", "lag", "decode"}
  MaxFaults = 2
INVARIANTS
  OnlyARepeatedGapShows
  HostSendsWholeChains
  KeyStateIsTrue
