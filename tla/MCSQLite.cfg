SPECIFICATION Spec
CONSTANTS
  p1 = p1
  p2 = p2
  p3 = p3
  Proc <- MCProc
  MaxValue = 3
SYMMETRY Symmetry
INVARIANTS
  NoLostUpdate
  IdleHoldsNoLock
CHECK_DEADLOCK FALSE
