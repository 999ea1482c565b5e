CONSTANTS
  None = None
  Files = {"code", "mapping", "model"}
  MaxVersion = 1
  Scenarios = {"s"}
  Models = {"m"}
  Natives = {"n"}
  Correspondences = {"c"}
  Validations = {"v"}
  Parents = {"p", "q"}
  InputsOf <- MCInputsOf
  DefinedIn <- MCDefinedIn
  MappingsOf <- MCMappingsOf
  ChildrenOf <- MCChildrenOf
  ExpectedOf <- MCExpectedOf
  CheckOf <- MCCheckOf
  TestsOf <- MCTestsOf
  Policies <- MCPolicies
  Times = {0, 1}
  Met <- MCMet
  TracesOf <- MCTracesOf
  Violates <- MCViolates
  Report <- MCReport
  Transitions <- MCTransitions
  Bundled = {"scenario1", "scenario2", "validation1", "validation2"}
  DirectoryOf <- MCDirectoryOf
  Cites <- MCCites
  Artifact = "ledger"
  Contents = {"old", "new"}
  Torn = "torn"
  Keys = {"key"}
  Absent = Absent
  Partial = Partial
  MaxDamage = 1
  t = t  u = u  v = v  x = x  y = y
  int = int  text = text  core = core  net = net
  Nobody = Nobody
  NoEvidence = NoEvidence
  AtomsOf <- MCAtomsOf
  HoldsIn <- MCHoldsIn
  HasType <- MCHasType
  SchemaOf <- MCSchemaOf
  Decisions <- MCDecisions
  Propositions <- MCPropositions
  Members <- MCMembers
  Signatures <- MCSignatures
  Clauses <- MCClauses
  Initial <- MCInitial
  Supersessions <- MCSupersessions
  Statements <- MCStatements
  Packages = {core}
  Declarations <- MCDeclarations
  MaxChanges = 3
SPECIFICATION MCSpec
INVARIANT TypeOK
INVARIANT CurrentVerdictIsOfPresentFiles
INVARIANT CurrentValidationCorresponds
INVARIANT AcceptanceIsWarranted
PROPERTY ImpactIsComplete
INVARIANT BundleTypeOK
INVARIANT CreatedBundleVerifies
INVARIANT VerifiedBundleIsWhole
INVARIANT LaterCitationsResolve
INVARIANT ObligationTypeOK
INVARIANT ClosedCoverageIsRight
INVARIANT VerdictIsOfProject
INVARIANT NoIntentIsLost
INVARIANT CurrentVerdictIsReproducible
CHECK_DEADLOCK FALSE
