CONSTANTS
  t = t  u = u  v = v  x = x  y = y
  int = int  text = text  core = core  net = net
  Nobody = Nobody
  NoEvidence = NoEvidence
  AtomsOf <- MCAtomsOf
  HoldsIn <- MCHoldsIn
  HasType <- MCHasType
  SchemaOf <- MCSchemaOf
  Decisions <- MCDecisions
  Propositions <- MCPropositions
  Members <- MCMembers
  Signatures <- MCSignatures
  Clauses <- MCClauses
  Initial <- MCInitial
  Supersessions <- MCSupersessions
  Statements <- MCStatements
  Packages = {core}
  Declarations <- MCDeclarations
  MaxChanges = 3
SPECIFICATION ObligationSpec
INVARIANT AbsenceIsDecidedWhereClosed
CHECK_DEADLOCK FALSE
