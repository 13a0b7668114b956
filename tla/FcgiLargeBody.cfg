SPECIFICATION Spec
CONSTANTS
  NumRequests = 2
  MaxBody = 2
  MaxOutput = 1
  PipeCap = 1
  MaxContent = 1
  ExactLengths = TRUE
PROPERTY
  UploadSettled
CHECK_DEADLOCK FALSE
