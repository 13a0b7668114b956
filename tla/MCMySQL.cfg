SPECIFICATION Spec
CONSTANTS
  MAX_CONNS = 2
  MaxRequests = 2
  MaxHandles = 3
  MaxStmts = 2
INVARIANTS
  LiveObjectsOwn
  NoConnectionLeft
  TransactionsWhole
  CountersOwnRequest
CHECK_DEADLOCK FALSE
