SPECIFICATION Spec
CONSTANTS
  NumRequests = 3
  MaxBody = 2
  MaxOutput = 3
  PipeCap = 3
  MaxContent = 2
  ExactLengths = TRUE
INVARIANTS
  CgiIsOwn
  BodyIsOwn
  BodyIsWhole
  ReplyIsWhole
PROPERTIES
  ImplementsService
  EventuallySettled
CHECK_DEADLOCK FALSE
