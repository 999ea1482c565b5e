SPECIFICATION FairSpec
CONSTANTS
  child = child
  grandchild = grandchild
  Child = child
  Descendants = {grandchild}
  RequestSize = 1
  ResponseSize = 2
  PipeSize = 1
  BufferSize = 2
  Limit = 2
  Timeout = 1
  KillAvailable = TRUE
  MaxOutput = 1
CHECK_DEADLOCK FALSE
PROPERTY RunReturns
