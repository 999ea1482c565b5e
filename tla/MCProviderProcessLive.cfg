SPECIFICATION FairSpec
CONSTANTS
  child = child
  grandchild = grandchild
  Child = child
  Descendants = {}
  RequestSize = 2
  ResponseSize = 2
  PipeSize = 2
  BufferSize = 2
  Limit = 2
  Timeout = 1
  KillAvailable = TRUE
  MaxOutput = 3
CHECK_DEADLOCK FALSE
PROPERTY RunReturns
