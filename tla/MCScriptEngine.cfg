SPECIFICATION Spec
CONSTANTS
  NumExecs = 2
  MaxUploads = 3
  MaxFiles = 4
  MaxJobs = 2
  MaxTempFiles = 2
  Extensions = 2
  TimeLimit = "positive"
  Modules = TRUE
  FullDisks = {"upload", "target"}
INVARIANTS
  NoTempLeft
  UploadsAvailable
  ExtensionsInContext
  PageIsRight
PROPERTIES
  ExecutionEnds
CHECK_DEADLOCK FALSE
