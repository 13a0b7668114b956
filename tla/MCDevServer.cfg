SPECIFICATION Spec
CONSTANTS
  c1 = c1
  c2 = c2
  c3 = c3
  None = None
  Conn <- MCConn
  Held <- MCHeld
  Backlog = 2
  Faults = {"accept", "fork"}
INVARIANTS
  OwnConnection
PROPERTIES
  ZombiesReaped
  ConnectionEnds
  QueueServed
CHECK_DEADLOCK FALSE
