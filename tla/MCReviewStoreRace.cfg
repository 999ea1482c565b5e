SPECIFICATION Spec
CONSTANTS
  p1 = p1  p2 = p2
  a = a  b = b  c = c  d = d  x = x  z = z
  q1 = q1  q2 = q2
  v1 = v1  v2 = v2  v3 = v3  v4 = v4
  none = none
  NoRecord = none
  Procs <- MCProcs2
  Submitted <- Successors
  Records <- Successors
  Requirements <- MCRequirements
  Revisions <- MCRevisions
  RequirementOf <- MCRequirementOf
  SupersedesOf <- MCSupersedesOf
  DecisionOf <- MCDecisionOf
  BoundTo <- MCBoundTo
  Formalization <- MCFormalization
  Known <- MCKnown
  Active <- MCActive
  Mapped <- MCMapped
  GapFree <- MCGapFree
SYMMETRY Symmetry
INVARIANTS TypeOK AcceptedHistoriesAgree AckedInOneHistory CurrentRestsOnFullApproval
PROPERTIES StoredRecordsNeverChange ImplementsHistory
