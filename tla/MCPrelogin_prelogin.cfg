\* Two sessions, the console moves between them.
SPECIFICATION FairSpec
CONSTANTS
  Sessions = {"s1", "s2"}
  MaxEvents = 5
  MaxTries = 1
INVARIANTS
  SingleServer
PROPERTIES
  UsersHostIsLeft
  LogonIsServed
  UserIsServed
