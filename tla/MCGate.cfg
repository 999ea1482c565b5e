SPECIFICATION GateSpec
CONSTANTS
  s1 = s1  a = a  b = b  k1 = k1  q1 = q1  t1 = t1  claim = claim
  none = none  unreadable = unreadable
  None = none
  Unreadable = unreadable
  StateRoots = {s1}
  Revisions <- MCRevisions
  Texts = {"smt"}
  SmtOf <- MCSmtOf
  Satisfiable <- MCSatisfiable
  Covered <- MCCovered
  Hashes <- MCHashes
  FilesHash <- MCFilesHash
  Configs = {k1}
  GateRoot = s1
  SpecRevisions <- MCSpecRevisions
  SpecOf <- MCSpecOf
  Records = {a, b}
  Requirements = {q1}
  RequirementOf <- MCRequirementOf
  SupersedesOf <- MCSupersedesOf
  DecisionOf <- MCDecisionOf
  BoundTo <- MCBoundTo
  Formalization <- MCFormalization
  Known <- MCOneRequirement
  Active <- MCOneRequirement
  Mapped <- MCOneRequirement
  GapFree <- MCSpecRevisions
  Claims = {claim}
  ClaimsOf <- MCClaimsOf
  ClosedOf <- MCClaimsOf
  Natives = {t1}
  Definitions = {"definition"}
  DefinitionOf <- MCDefinitionOf
  NativeHashes = {"input"}
  NativeInputsOf <- MCNativeInputsOf
INVARIANTS
  TypeOK PassIsWarranted PassRestsOnApproval
