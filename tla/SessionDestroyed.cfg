SPECIFICATION Spec
CONSTANTS
  p1 = p1
  p2 = p2
  s1 = s1
  s2 = s2
  None = None
  Proc <- MCProc
  Id <- MCId
  MaxRequests = 3
  MaxSets = 3
  FailMay = FALSE
INVARIANT
  DestroyEnds
SYMMETRY Symmetry
CHECK_DEADLOCK FALSE
