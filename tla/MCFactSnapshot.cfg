CONSTANTS
  adr = adr
  settings = settings
  tool = tool
  data = data
  v1 = v1
  v2 = v2
  Absent = Absent
  None = None
  Paths <- MCPaths
  SpecPaths <- MCSpecPaths
  Config = settings
  Sources <- MCSources
  Decisions <- MCDecisions
  Contents <- MCContents
  ExecutablesOf <- MCExecutablesOf
  ObligationsOf <- MCObligationsOf
  Order <- MCOrder
  Contexts = {"sandbox", "other"}
  MaxEdits = 3
SPECIFICATION MCSpec
INVARIANT TypeOK
INVARIANT CaptureIsOfOneInstant
INVARIANT ExecutedIsInPolicy
INVARIANT AcceptedIsApproved
INVARIANT AcceptedIsPresent
CHECK_DEADLOCK FALSE
