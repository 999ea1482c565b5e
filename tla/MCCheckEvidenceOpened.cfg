SPECIFICATION MCSpec
CONSTANTS
  c1 = c1  c2 = c2  c3 = c3  s1 = s1  s2 = s2  k1 = k1  k2 = k2
  none = none  unreadable = unreadable
  None = none
  Unreadable = unreadable
  Checkers = {c1}
  StateRoots = {s1}
  StateRootOf <- MCStateRootOf
  RevisionNames <- OpenedRevisions
  Revisions <- OpenedRevisions
  RevisionsIn <- OpenedRevisionsIn
  Texts <- MCTexts
  SmtOf <- MCSmtOf
  Satisfiable <- MCSatisfiable
  Covered <- MCCovered
  Hashes <- MCHashes
  FilesHash <- MCFilesHash
  Configs = {k1}
  EditsDuringChecks = TRUE
  MaxRecords = 2
INVARIANTS
  VerdictHoldsForRecordedInputs
