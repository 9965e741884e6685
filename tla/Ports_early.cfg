CONSTANTS
  HostPort = {p1}
  Ip = {i1}
  MaxChanges = 2
  MaxLives = 1
  MaxEvents = 2
SPECIFICATION Spec
INVARIANTS AnnouncedRelayed
CHECK_DEADLOCK FALSE
