SPECIFICATION Spec
CONSTANTS
  p1 = p1
  p2 = p2
  s1 = s1
  s2 = s2
  None = None
  Proc <- MCProc
  Id <- MCId
  MaxRequests = 4
  MaxSets = 2
  FailMay = TRUE
INVARIANTS
  SessionIsOwn
  OwnWritesSeen
  SerialSessionKept
SYMMETRY Symmetry
CHECK_DEADLOCK FALSE
