SPECIFICATION Spec
CONSTANTS
  Half = 4
  MaxParams = 5
  MaxUpload = 2
  MAX_EXTENSIONS = 2
  MaxWorkers = 64
  Default = "default"
  Number <- Numbers
  IniFile <- IniFiles
  Memory <- Memories
  Word = {"script", "--serve", "8080", "9001", "few", "none", "many"}
  Key = {"memory_limit", "extension"}
  Value = {"a", "b"}
  Files = {"system", "local", "custom"}
  Lengths = {0, 3, 4}
  MaxPairs = 3
  MaxText = 8
  MaxData = 5
  MaxItems = 4
  HeaderSpace = 8
  BodySpace = 4
  LineRoom = 16
  MaxCalls = 3
  Char = {"2", "5", "NUL", "CR", "LF", ":", "/", "/a", "200", "204", "404", "Path", "Set-Cookie",
          "Max-Age", "HttpOnly", "Secure", "SameSite", "Content-Type", "content-type", "X-Name", "Status"}
INVARIANTS
  PairsDecoded
  AssignmentsParsed
  MultipartParsed
  StartsAsTold
  BuffersHold
  AnsweredAsMade
CHECK_DEADLOCK FALSE
