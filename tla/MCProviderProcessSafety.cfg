SPECIFICATION Spec
CONSTANTS
  child = child
  grandchild = grandchild
  Child = child
  Descendants = {grandchild}
  RequestSize = 1
  ResponseSize = 2
  PipeSize = 2
  BufferSize = 2
  Limit = 2
  Timeout = 1
  KillAvailable = TRUE
  MaxOutput = 4
CHECK_DEADLOCK FALSE
INVARIANTS TypeOK AcceptedResponseIsWhole LimitIsExact FailedRunLeavesNoGroup
