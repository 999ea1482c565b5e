SPECIFICATION MCSpec
CONSTANTS
  c1 = c1  c2 = c2  c3 = c3  s1 = s1  s2 = s2  k1 = k1  k2 = k2
  none = none  unreadable = unreadable
  None = none
  Unreadable = unreadable
  Checkers = {c1, c2, c3}
  StateRoots = {s1, s2}
  StateRootOf <- MCStateRootOf
  RevisionNames <- AllRevisions
  Revisions <- AllRevisions
  RevisionsIn <- MCRevisionsIn
  Texts <- MCTexts
  SmtOf <- MCSmtOf
  Satisfiable <- MCSatisfiable
  Covered <- MCCovered
  Hashes <- MCHashes
  FilesHash <- MCFilesHash
  Configs = {k1, k2}
  EditsDuringChecks = TRUE
  MaxRecords = 2
INVARIANTS
  TypeOK VerdictHoldsForRecordedInputs CompletedCheckIsReported
  ArtifactsNameStoredEvidence
PROPERTIES
  ImplementsLog
