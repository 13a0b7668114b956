SPECIFICATION Spec
CONSTANTS
  MaxSends = 2
  MaxPieces = 3
INVARIANTS
  SendReal
  MessagesOwn
CHECK_DEADLOCK FALSE
PROPERTIES
  CallsReturn
