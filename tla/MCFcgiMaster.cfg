SPECIFICATION Spec
CONSTANTS
  c1 = c1
  c2 = c2
  c3 = c3
  c4 = c4
  NumWorkers = 2
  Conn <- MCConn
  Held <- MCHeld
  Backlog = 2
  MaxDeaths = 3
  ForkMayFail = TRUE
INVARIANTS
  PoolAccounted
PROPERTIES
  PoolRestored
  QueueServed
CHECK_DEADLOCK FALSE
