\* One fault of any kind but a failed send, under fairness.
SPECIFICATION FairSpec
CONSTANTS
  EncoderHolds = 1
  QueueMax = 1
  HeldMax = 1
  PipeMax = 2
  Faults = {"refused", "ignored", "output", "unknown", "rebuilt", "flush", "viewer", "stall", "lost", "overflow", "part", "stale", "lag", "decode"}
  MaxFaults = 1
PROPERTIES
  PictureComesBack
