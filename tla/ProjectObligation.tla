------------------------- MODULE ProjectObligation -------------------------
(***************************************************************************)
(* From the decisions and the project to a verdict: which ADRs are in      *)
(* force (lib.rs effective), the facts and the coverage that the SQL and   *)
(* Cargo providers supply (MigrationSchema, cargo_facts.rs), the absences  *)
(* that closed coverage adds, the obligation that is given to the solver   *)
(* and the verdict that run_check records, next to the database and the    *)
(* manifests that it is about.  Files are edited and checks are run one at *)
(* a time; checks while files are edited are the subject of CheckEvidence. *)
(***************************************************************************)
EXTENDS MigrationSchema

CONSTANTS
  Decisions,       \* ADRs, numbers in the order of their ids
  Propositions,    \* [Decisions -> sets of names]
  Members,         \* [Decisions -> [entity types -> sets of members]]
  Signatures,      \* [Decisions -> [relations -> sequences of entity types]]
  Clauses,         \* [Decisions -> sets of formulas]
  Initial,         \* the ADRs at first
  Supersessions,   \* pairs <<a, b>>: a may come to supersede b
  Statements,      \* what migrations may contain
  Packages,        \* packages of the workspace
  Declarations,    \* declarations a manifest may hold
  NoEvidence,
  MaxChanges,      \* bound: so many migrations and edits of other files
  \* What ClauseFormulas says of a formula, whatever its depth:
  AtomsOf(_),          \* its atoms [name, arguments, env: the variables bound around it]
  HoldsIn(_, _, _),    \* whether it is true, given the entities, in a world of true atoms
  HasType(_, _, _, _)  \* whether it has a type, given propositions, entities, relations

ASSUME ObligationAssumption ==
  /\ Decisions \subseteq Nat /\ IsFiniteSet(Decisions)
  /\ MaxChanges \in Nat
  /\ DOMAIN Initial \subseteq Decisions
  /\ \A a \in DOMAIN Initial :
       /\ Initial[a].status \in {"proposed", "accepted"}
       /\ Initial[a].supersedes \subseteq Decisions
  /\ \A a \in Decisions : \A r \in DOMAIN Signatures[a] : Signatures[a][r] \in Seq(STRING)
  /\ Supersessions \subseteq Decisions \X Decisions
  /\ Nobody \notin DOMAIN SchemaOf
  /\ \A s \in Statements : WellFormed(s)

VARIABLES
  adrs,        \* [Decisions -> status, supersedes, refers]
  manifests,   \* [Packages -> sets of declared dependencies]
  extraction,  \* the effective schema after all migrations
  applied,     \* number of migrations
  database,    \* the database they were run on
  missed,      \* what it knows and the extractor cannot (Overlooked)
  evidence,    \* the latest record: inputs, text and result of a check
  edits

modelVars == <<adrs, manifests, extraction, applied, database, missed, evidence, edits>>

-----------------------------------------------------------------------------
(* effective                                                               *)

\* Whatever status an ADR has, what it supersedes is out of force.
Superseded_ByAny == UNION {adrs[a].supersedes : a \in DOMAIN adrs}

Superseded ==
  UNION {adrs[a].supersedes : a \in {b \in DOMAIN adrs : adrs[b].status = "accepted"}}

ActiveDecisions == {a \in DOMAIN adrs \ Superseded : adrs[a].status = "accepted"}

\* supersedes, amends and exception_to name ADRs that exist.
ReferencesResolve ==
  \A a \in DOMAIN adrs : adrs[a].supersedes \cup adrs[a].refers \subseteq DOMAIN adrs

Constraints == UNION {Clauses[a] : a \in ActiveDecisions}
AtomsIn == [f \in UNION {Clauses[a] : a \in Decisions} |-> AtomsOf(f)]
ConstraintAtoms == UNION {AtomsIn[f] : f \in Constraints}
ConstraintRelations == {a.name : a \in ConstraintAtoms}
Propositional == UNION {Propositions[a] : a \in ActiveDecisions}

\* Of relations declared twice the last declaration counts.
Relations ==
  [r \in UNION {DOMAIN Signatures[a] : a \in ActiveDecisions} |->
     LET last == CHOOSE a \in ActiveDecisions : /\ r \in DOMAIN Signatures[a]
                                       /\ \A b \in ActiveDecisions : b > a => r \notin DOMAIN Signatures[b]
     IN  Signatures[last][r]]

-----------------------------------------------------------------------------
(* Cargo: `cargo metadata --no-deps` lists the packages of the workspace.  *)

Depends == "declares_direct_dependency"

\* fact_is_solver_supported
Supported(d) == d.kind = "normal" /\ ~d.optional /\ ~d.targeted

\* A dependency may be declared twice under different local names, d.alias.
\* The facts have one id then, and the one of the last local name remains
\* (add_facts).
Reported(p) ==
  {d \in manifests[p] : \A e \in manifests[p] :
     e.name = d.name /\ e.kind = d.kind /\ e.targeted = d.targeted => e.alias <= d.alias}

Declared(p) == {d.name : d \in Reported(p)}
DeclaredSupported(p) == {d.name : d \in {e \in Reported(p) : Supported(e)}}

CargoAtoms ==
  UNION {{<<"package", <<p>>>>, <<"workspace_member", <<p>>>>}
           \cup {<<Depends, <<p, q>>>> : q \in Declared(p)} : p \in DOMAIN manifests}

CargoCoverage == {[relation |-> Depends, closed |-> TRUE, scope |-> Global]}

\* enrich_package_domain
PackageNames == DOMAIN manifests \cup UNION {Declared(p) : p \in DOMAIN manifests}

MembersIn(a) ==
  [t \in DOMAIN Members[a] |->
     IF t = "Package" THEN Members[a][t] \cup PackageNames ELSE Members[a][t]]

Declaring(t) == {a \in ActiveDecisions : t \in DOMAIN Members[a]}

\* The solver and the type checker take an entity type for all that active
\* ADRs declare it to be, ...
EntityTypes ==
  [t \in UNION {DOMAIN Members[a] : a \in ActiveDecisions} |-> UNION {MembersIn(a)[t] : a \in Declaring(t)}]

\* ... but the closure for the last of these declarations, or, in the case of
\* packages, the first.
LastMembers(t) == MembersIn(CHOOSE a \in Declaring(t) : \A b \in Declaring(t) : b <= a)[t]
FirstMembers(t) == MembersIn(CHOOSE a \in Declaring(t) : \A b \in Declaring(t) : b >= a)[t]

-----------------------------------------------------------------------------
(* Coverage                                                                *)

\* CoverageScope::covers
Covers(scope, asked) ==
  \/ scope.kind = "global"
  \/ scope = asked
  \/ scope.kind = "schema" /\ asked.kind \in {"table", "view"} /\ SchemaOf[asked.name] = scope.name

Coverage == SqlCoverage(extraction) \cup CargoCoverage

\* One closed claim is enough.
IsClosed_ByAnyClaim(relation, scope) ==
  \E c \in Coverage : c.relation = relation /\ Covers(c.scope, scope) /\ c.closed

\* coverage_for: one partial claim is enough.
IsClosed(relation, scope) ==
  LET matching == {c \in Coverage : c.relation = relation /\ Covers(c.scope, scope)}
  IN  matching # {} /\ \A c \in matching : c.closed

\* coverage_scope_for_atom
ScopeOf(relation, arguments, bound) ==
  CASE arguments = <<>> -> Global
    [] arguments[1] \in bound -> Global
    [] relation \in {Depends, "package", "workspace_member"} ->
         [kind |-> "package", name |-> arguments[1]]
    [] relation = "schema" -> [kind |-> "schema", name |-> arguments[1]]
    [] relation = "materialized_view" -> OfView(arguments[1])
    [] OTHER -> OfTable(arguments[1])

-----------------------------------------------------------------------------
(* The obligation                                                          *)

Observed == SqlAtoms(extraction) \cup CargoAtoms

\* apply_closed_world_facts: what no manifest declares without conditions.
CargoAbsences ==
  IF Declaring("Package") = {} THEN {}
  ELSE UNION {{<<Depends, <<p, q>>>> : q \in FirstMembers("Package") \ DeclaredSupported(p)} :
                p \in DOMAIN manifests}

TypesDeclared(signature) == \A i \in DOMAIN signature : Declaring(signature[i]) # {}

Tuples(signature) ==
  {t \in [DOMAIN signature -> UNION {LastMembers(signature[i]) : i \in DOMAIN signature}] :
     \A i \in DOMAIN signature : t[i] \in LastMembers(signature[i])}

\* apply_generic_closed_world_facts: what is not observed, where coverage is
\* closed.
OtherAbsences ==
  LET relations == Relations
      observed == Observed
  IN  UNION {{<<r, t>> : t \in {u \in Tuples(relations[r]) :
                                  /\ <<r, u>> \notin observed
                                  /\ IsClosed(r, ScopeOf(r, u, {}))}} :
               r \in {q \in DOMAIN relations \ {Depends} : TypesDeclared(relations[q])}}

Unsupported ==
  UNION {{<<Depends, <<p, q>>>> : q \in Declared(p) \ DeclaredSupported(p)} : p \in DOMAIN manifests}

\* formula_references_fact: a bound variable stands for anything.
Matches(a, relation, arguments) ==
  /\ a.name = relation
  /\ Len(a.arguments) = Len(arguments)
  /\ \A i \in DOMAIN arguments :
       a.arguments[i] \in DOMAIN a.env \/ a.arguments[i] = arguments[i]

\* relational_obligation: the facts that some constraint can refer to.
RelevantAtoms(atoms) ==
  LET wanted == ConstraintAtoms
  IN  {a \in atoms : \E w \in wanted : Matches(w, a[1], a[2])}

\* obligation_to_smt
Asserted ==
  LET relations == Relations
  IN  {a \in RelevantAtoms(Observed \ Unsupported) : a[1] \in DOMAIN relations}
Denied == RelevantAtoms(CargoAbsences \cup OtherAbsences)

SmtText == [constraints |-> Constraints, propositions |-> Propositional,
            entities |-> EntityTypes, relations |-> Relations,
            asserted |-> Asserted, denied |-> Denied]

\* effective checks the references before the types.
Valid ==
  /\ ReferencesResolve
  /\ \A f \in Constraints :
       HasType(f, Propositional, EntityTypes, Relations)

WellSorted(arguments, signature, entities) ==
  /\ Len(arguments) = Len(signature)
  /\ \A i \in DOMAIN signature : arguments[i] \in entities[signature[i]]

\* A text that Z3 rejects: a sort without members, an unknown sort, an unknown
\* relation or one of no arguments, a constant that no entity type has.
Rejected ==
  LET relations == Relations
      entities == EntityTypes
  IN  \/ \E t \in DOMAIN entities : entities[t] = {}
      \/ \E r \in DOMAIN relations : ~TypesDeclared(relations[r])
      \/ \E r \in ConstraintRelations : r \notin DOMAIN relations \/ relations[r] = <<>>
      \/ \E a \in Asserted \cup Denied : ~WellSorted(a[2], relations[a[1]], entities)

\* The atoms that the truth of the constraints depends on.
GroundAtoms ==
  LET relations == Relations
      entities == EntityTypes
      AllOf(r) == {<<r, t>> : t \in {u \in [DOMAIN relations[r] -> UNION {entities[k] : k \in DOMAIN entities}] :
                                       WellSorted(u, relations[r], entities)}}
  IN  RelevantAtoms(UNION {AllOf(r) : r \in ConstraintRelations \cap DOMAIN relations})

\* What the text leaves to the solver to choose.
Open == ({<<n, <<>>>> : n \in Propositional} \cup GroundAtoms) \ (Asserted \cup Denied)

\* Some world of the atoms that are true and any of those left loose has all
\* constraints true.
Possible(true, loose) ==
  LET entities == EntityTypes
      constraints == Constraints
  IN  \E choice \in SUBSET loose :
        \A f \in constraints : HoldsIn(f, entities, true \cup choice)

\* External: the solver, exact and in time.
Satisfiable == Possible(Asserted, Open)

\* formula_requires_uncovered_absence: an atom of a constraint that is not
\* observed as it is written, where coverage is not closed.
RequiresUncoveredAbsence ==
  LET observed == Observed
  IN  \E a \in ConstraintAtoms :
        /\ <<a.name, a.arguments>> \notin observed
        /\ ~IsClosed(a.name, ScopeOf(a.name, a.arguments, DOMAIN a.env))

\* run_check_with_roots.  INVALID stands for an error before the solver.
Verdict ==
  CASE ~Valid -> "INVALID"
    [] Valid /\ Rejected -> "ERROR"
    [] OTHER -> IF RequiresUncoveredAbsence THEN "UNVERIFIED"
                ELSE IF Satisfiable THEN "PASS" ELSE "FAIL"

-----------------------------------------------------------------------------
(* The inputs of the evidence: relevant_semantic_inputs.                   *)

CargoSources == {a[2][1] : a \in RelevantAtoms(CargoAtoms \cup CargoAbsences)} \cap DOMAIN manifests

UsesSql == ConstraintRelations \cap SqlRelations # {}

ClauseFiles(some) == {<<"adr", a, adrs[a]>> : a \in some}
Manifests(some) == {<<"manifest", p, manifests[p]>> : p \in some}
Migrations(counted) == {<<"migration", k>> : k \in IF counted THEN 1..applied ELSE {}}

WithClauses == {a \in ActiveDecisions : Clauses[a] # {}}

\* Migrations count when a constraint refers to one of the facts they make.
SelectedInputs_OfFacts ==
  ClauseFiles(WithClauses) \cup Manifests(CargoSources)
    \cup Migrations(RelevantAtoms(SqlAtoms(extraction)) # {})

\* Every migration counts when a constraint has a relation of the schema.
\* Where that leaves no input, all that the providers read count.
SelectedInputs ==
  LET relevant == ClauseFiles(WithClauses) \cup Manifests(CargoSources) \cup Migrations(UsesSql)
  IN  IF relevant # {} THEN relevant
      ELSE Manifests(DOMAIN manifests) \cup Migrations(TRUE)

-----------------------------------------------------------------------------
(* Behaviour: the files are edited, migrations are written and run.        *)

ObligationInit ==
  /\ adrs = Initial
  /\ manifests = [p \in Packages |-> {}]
  /\ extraction = EmptySchema /\ database = EmptyDatabase
  /\ applied = 0 /\ missed = {} /\ evidence = NoEvidence /\ edits = 0

ProjectFiles == <<adrs, manifests>>
MigrationState == <<extraction, applied, database, missed>>

\* A new migration.  What the extractor had overlooked about a table is
\* forgotten when neither side has the table any more.
Migrate(s) ==
  /\ applied + edits < MaxChanges
  /\ Accepted(database, s)
  /\ applied' = applied + 1
  /\ extraction' = Apply(extraction, s)
  /\ database' = After(database, s)
  /\ missed' = {m \in missed \cup Overlooked(database, extraction, s, missed) :
                   m[2] \in DOMAIN database' \cup DOMAIN extraction'.tables \cup extraction'.views}
  /\ UNCHANGED <<ProjectFiles, evidence, edits>>

EditFiles ==
  /\ applied + edits < MaxChanges
  /\ edits' = edits + 1
  /\ UNCHANGED <<MigrationState, evidence>>

SetStatus(a, status) ==
  /\ EditFiles
  /\ status # adrs[a].status
  /\ adrs' = [adrs EXCEPT ![a].status = status]
  /\ UNCHANGED manifests

Supersede(a, b) ==
  /\ EditFiles
  /\ b \notin adrs[a].supersedes
  /\ adrs' = [adrs EXCEPT ![a].supersedes = @ \cup {b}]
  /\ UNCHANGED manifests

RemoveAdr(a) ==
  /\ EditFiles
  /\ adrs' = Without(adrs, {a})
  /\ UNCHANGED manifests

Declare(p, d) ==
  /\ EditFiles
  /\ manifests' = [manifests EXCEPT ![p] = IF d \in @ THEN @ \ {d} ELSE @ \cup {d}]
  /\ UNCHANGED adrs

\* run_check_with_roots: an error before the solver leaves no record.
Check ==
  /\ LET verdict == Verdict
     IN  /\ verdict # "INVALID"
         /\ evidence' = [inputs |-> SelectedInputs, text |-> SmtText, result |-> verdict]
  /\ UNCHANGED <<ProjectFiles, MigrationState, edits>>

\* current_evidence_status_with_roots: the record's result is reported when
\* text and inputs are the recorded ones.
Current ==
  /\ evidence # NoEvidence /\ Valid
  /\ evidence.inputs = SelectedInputs /\ evidence.text = SmtText

ObligationNext ==
  \/ Check
  \/ \E s \in Statements : Migrate(s)
  \/ \E a \in DOMAIN adrs : \/ \E status \in {"proposed", "accepted"} : SetStatus(a, status)
                            \/ RemoveAdr(a)
  \/ \E pair \in Supersessions : pair[1] \in DOMAIN adrs /\ Supersede(pair[1], pair[2])
  \/ \E p \in Packages, d \in Declarations : Declare(p, d)

ObligationSpec == ObligationInit /\ [][ObligationNext]_modelVars

-----------------------------------------------------------------------------
(* Properties                                                              *)

\* Every state is one that files and statements can be in; a table that the
\* extractor has a parent of is one it has; a name is not both a table and a
\* view to it, unless it cannot know better.
ObligationTypeOK ==
  /\ DOMAIN adrs \subseteq Decisions
  /\ \A a \in DOMAIN adrs :
       adrs[a].status \in {"proposed", "accepted"} /\ adrs[a].supersedes \subseteq Decisions
  /\ \A p \in Packages : manifests[p] \subseteq Declarations
  /\ DOMAIN extraction.partitions \cup DOMAIN extraction.inheritance \subseteq DOMAIN extraction.tables
  /\ \A n \in extraction.views \cap DOMAIN extraction.tables :
       <<"table", n>> \in missed \/ Gap({"table"}, Global) \subseteq extraction.gaps
  /\ missed \subseteq Compared \X DOMAIN SchemaOf

\* What the tables and views of the database are said to have where coverage
\* is closed, they have; what is not said, they do not have.  Beyond that, a
\* fact inside a partial region is an observation of an earlier migration.
\* (sql_migrations.rs extract, apply_file, emit_facts)
ClosedCoverageIsRight ==
  LET known(a) == /\ a[1] \in Compared
                  /\ <<a[1], a[2][1]>> \notin missed
                  /\ IsClosed(a[1], IF a[2][1] \in extraction.views
                                    THEN OfView(a[2][1]) ELSE OfTable(a[2][1]))
  IN  \A a \in SqlAtoms(extraction) \cup DatabaseAtoms(database) :
        known(a) => (a \in SqlAtoms(extraction) <=> a \in DatabaseAtoms(database))

DeclaredUnconditionally(p) == {d.name : d \in {e \in manifests[p] : Supported(e)}}

\* What holds in the project.  Of the relations in which facts and database are
\* not compared it is what is observed.
Truth ==
  DatabaseAtoms(database)
    \cup {a \in SqlAtoms(extraction) : a[1] \notin Compared}
    \cup (UNION {{<<"package", <<p>>>>, <<"workspace_member", <<p>>>>}
                  \cup {<<Depends, <<p, q>>>> : q \in DeclaredUnconditionally(p)} :
                    p \in DOMAIN manifests})

\* Whether somebody answers for an atom that is not asserted: for dependencies
\* of a package of the workspace on a member of the type, as it is first
\* declared; for anything else where coverage is closed and the closure takes
\* the declarations that have its arguments.
Answered(a) ==
  IF a[1] = Depends
  THEN /\ Declaring("Package") # {}
       /\ \E p \in DOMAIN manifests, q \in FirstMembers("Package") : a[2] = <<p, q>>
  ELSE /\ IsClosed(a[1], ScopeOf(a[1], a[2], {}))
       /\ \A i \in DOMAIN a[2] : a[2][i] \in LastMembers(Relations[a[1]][i])

\* What is left loose: propositions, and what nobody answers for.
Loose ==
  {<<n, <<>>>> : n \in Propositional}
    \cup {a \in GroundAtoms \ (Observed \ Unsupported) : ~Answered(a)}

\* A verdict that is reported as current is one about the project.  A check
\* passed because some choice of what is left loose makes all constraints true
\* of the database and the manifests as they are; it failed because none does.
\* (The facts that a rename or an unknown block leaves behind, what the
\* extractor overlooks, and a dependency that a second declaration of it hides
\* are excepted.)
\* (lib.rs run_check_with_roots, obligation_to_smt, apply_generic_closed_world_facts)
VerdictIsOfProject ==
  /\ Current
  /\ evidence.result \in {"PASS", "FAIL"}
  /\ missed = {}
  /\ Gap({"table"}, Global) \cap extraction.gaps = {}
  /\ (\A p \in DOMAIN manifests : DeclaredSupported(p) = DeclaredUnconditionally(p))
  => (evidence.result = "PASS" <=> Possible((Truth \cap GroundAtoms) \ Loose, Loose))

\* An absent atom is decided only where coverage is closed: an instance of a
\* constraint's atom that is not observed and lies in a partial region makes the
\* verdict UNVERIFIED (docs/SQL_MIGRATION_FACT_PROVIDER.md; the run expects this
\* to be violated, because quantified atoms are looked up in the global scope).
\* (lib.rs formula_requires_uncovered_absence, coverage_scope_for_atom)
AbsenceIsDecidedWhereClosed ==
  Current /\ evidence.result \in {"PASS", "FAIL"} =>
    \A a \in GroundAtoms \ Observed : IsClosed(a[1], ScopeOf(a[1], a[2], {}))

Accepting == {a \in DOMAIN adrs : adrs[a].status = "accepted"}
Above(some) == {b \in Accepting : adrs[b].supersedes \cap some # {}}

\* The accepted ADRs that supersede a, directly or not.
Heir(a) == {b \in Accepting : \A some \in SUBSET Accepting :
                                Above({a} \cup some) \subseteq some => b \in some}

\* Where accepted ADRs supersede each other without a cycle, every accepted ADR
\* is in force or an ADR that has come in its place, directly or not, is.
\* (lib.rs effective)
NoIntentIsLost ==
  \A a \in Accepting \ ActiveDecisions :
    \/ \E b \in {a} \cup Heir(a) : b \in Heir(b)
    \/ Heir(a) \cap ActiveDecisions # {}

\* Whatever the project has been through since a check, its recorded verdict is
\* reported as current only next to files that would get the same verdict again.
\* (lib.rs relevant_semantic_inputs, current_evidence_status_with_roots)
CurrentVerdictIsReproducible == Current => evidence.result = Verdict
=============================================================================
