SPECIFICATION Spec
CONSTANTS
  MaxBody = 3
  MaxOutput = 4
  PipeCap = 2
  HeadRoom = 2
  MaxResponse = 3
  ServerStdin = "empty"
  Faults = {"pipe", "fork", "crash"}
INVARIANTS
  BodyIsWhole
  PageIsWhole
  Answered
PROPERTIES
  ImplementsLife
CHECK_DEADLOCK FALSE
