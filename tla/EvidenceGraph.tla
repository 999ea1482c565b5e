--------------------------- MODULE EvidenceGraph ---------------------------
(***************************************************************************)
(* The evidence next to the solver's: scenario runs, model checks,         *)
(* correspondence checks and imported native tests (the Checks), the       *)
(* validations that link scenarios to models, and the parent obligations   *)
(* that require any of them.  Every kind keeps append-only records, judges *)
(* its newest by hashing the inputs again, and derives from the newest of  *)
(* others.  `diagnose` reads them all and applies a waiver policy          *)
(* (main.rs); `impact` says what a file bears upon (query.rs).             *)
(*                                                                         *)
(* Files carry version numbers: an edit makes a file what it has never     *)
(* been, at any moment; the mappings of a validation depend on the version *)
(* of its definition.  One command at a time writes evidence; what two do  *)
(* at once is the subject of CheckEvidence.  As the newest record alone is *)
(* read, only it is kept.                                                  *)
(***************************************************************************)
EXTENDS AssessmentRules, FiniteSets

CONSTANTS
  Files,
  MaxVersion,      \* bound: no edit once a file has this version
  Scenarios, Models, Natives, Correspondences, Validations, Parents,
  InputsOf,        \* [Checks -> SUBSET Files], definition included
  DefinedIn,       \* [Validations -> Files]
  MappingsOf,      \* [Validations -> [Versions -> Seq]], of its definition
  ChildrenOf,      \* [Parents -> Seq(obligations)], sorted
  ExpectedOf,      \* [Scenarios -> sets of postconditions]
  CheckOf,         \* [Models -> expected, unsupported]
  TestsOf,         \* [Natives -> minimum, maximum, required]
  Policies, Times, \* waiver policies and the clock they are applied at
  \* What a tool finds in the versions of the inputs it has seen:
  Met(_, _), TracesOf(_, _), Violates(_, _), Report(_, _), Transitions(_, _)

Checks == Scenarios \cup Models \cup Natives \cup Correspondences
Records == Checks \cup Validations
Obligations == Records \cup Parents
Versions == 0..MaxVersion

InputVersions == UNION {[InputsOf[d] -> Versions] : d \in Checks}

\* What a validation keeps of the evidence of one side.
DependencyRecord == [result : Results, validity : Validities, inputs : InputVersions]

ASSUME GraphAssumption ==
  /\ MaxVersion \in Nat
  /\ InputsOf \in [Checks -> SUBSET Files]
  /\ DefinedIn \in [Validations -> Files]
  /\ \A v \in Validations : \A n \in Versions :
       /\ Len(MappingsOf[v][n]) \in Nat
       /\ DOMAIN MappingsOf[v][n] = 1..Len(MappingsOf[v][n])
       /\ \A i \in DOMAIN MappingsOf[v][n] :
            /\ MappingsOf[v][n][i].scenario \in Scenarios
            /\ MappingsOf[v][n][i].model \in Models
  /\ \A p \in Parents : \A k \in DOMAIN ChildrenOf[p] : ChildrenOf[p][k] \in Records
  /\ None \notin DependencyRecord
  /\ Natives \cap (Scenarios \cup Models \cup Correspondences) = {}
  /\ Models \cap (Scenarios \cup Correspondences) = {}
  /\ Scenarios \cap Correspondences = {}
  /\ Validations \cap Checks = {}

VARIABLES
  tree,    \* [Files -> Versions]
  latest,  \* the newest record of each check and validation
  job      \* the command that makes evidence

vars == <<tree, latest, job>>

Idle == [pc |-> "idle"]

Init ==
  /\ tree = [f \in Files |-> 0]
  /\ latest = [r \in Records |-> None]
  /\ job = Idle

-----------------------------------------------------------------------------
(* Reading: the assessments.                                               *)

\* current_inputs
Fingerprint(d) == [f \in InputsOf[d] |-> tree[f]]

\* assess.  A model check also records the backend it has met.
Assess(d) ==
  IF latest[d] = None THEN None
  ELSE LET current == latest[d].inputs = Fingerprint(d) /\ latest[d].backend = "pinned"
       IN  [result |-> latest[d].result, inputs |-> latest[d].inputs,
            trace |-> latest[d].trace,
            validity |-> IF current THEN "CURRENT" ELSE "STALE"]

\* A dependency without the inputs it was found for.
Dependency_NoInputs(a) ==
  IF a = None THEN None ELSE [result |-> a.result, validity |-> a.validity]

\* What a validation fingerprints of an assessment: neither the identity of its
\* evidence nor the trace, which may be another one for the same inputs.
Dependency(a) ==
  IF a = None THEN None
  ELSE [result |-> a.result, validity |-> a.validity, inputs |-> a.inputs]

\* The scenarios and models of the first k mappings of a definition.
Sides(v, n, k) == UNION {{MappingsOf[v][n][i].scenario, MappingsOf[v][n][i].model} : i \in 1..k}

\* The definition in its present version.
Present == [v \in Validations |-> tree[DefinedIn[v]]]

Dependencies(v) ==
  [d \in Sides(v, Present[v], Len(MappingsOf[v][Present[v]])) |-> Dependency(Assess(d))]

\* assess_validation takes the definition as it is now, and evaluates its
\* mappings anew, for their dependencies: what has become of the old ones'
\* results is not looked at.
AssessValidation(v) ==
  IF latest[v] = None THEN None
  ELSE [result |-> latest[v].result,
        validity |-> IF /\ latest[v].definition = Present[v]
                        /\ latest[v].dependencies = Dependencies(v)
                       THEN "CURRENT" ELSE "STALE"]

LatestAssessment(r) == IF r \in Validations THEN AssessValidation(r) ELSE Assess(r)

-----------------------------------------------------------------------------
(* Writing: run, import, run_validation, and store.                        *)

\* A tool reads its inputs at any time of its run, so it has seen each file
\* in some version between the first and the last.
Between(low, high) ==
  {s \in [DOMAIN low -> Versions] : \A f \in DOMAIN low : low[f] <= s[f] /\ s[f] <= high[f]}

\* A runner has some trace, on the same files not always the same.  Its output
\* may be broken; a trace it has all the same counts for nothing.
FoundByScenario(d, seen) ==
  {[result |-> ScenarioResult(ExpectedOf[d], [broken |-> b, met |-> Met(d, seen)]),
    trace |-> IF b THEN <<>> ELSE trace, backend |-> "pinned"] :
      b \in BOOLEAN, trace \in TracesOf(d, seen)}

\* Quint may put out anything except the wrong one of its two verdicts.
FoundByModel(d, seen) ==
  {[result |-> ModelResult(CheckOf[d], output), trace |-> <<>>,
    backend |-> RecordedBackend(CheckOf[d], output)] :
     output \in {o \in ModelOutputs :
       Cardinality(o.marks) = 1 =>
         o.marks = {IF Violates(d, seen) THEN "violation" ELSE "no violation"}}}

FoundByNative(d, seen) ==
  {[result |-> NativeResult(TestsOf[d], Report(d, seen)), trace |-> <<>>, backend |-> "pinned"]}

FoundByCorrespondence(d, seen) ==
  {[result |-> CorrespondenceResult(Transitions(d, seen)), trace |-> <<>>, backend |-> "pinned"]}

Found(d, seen) ==
  CASE d \in Scenarios -> FoundByScenario(d, seen)
    [] d \in Models -> FoundByModel(d, seen)
    [] d \in Natives -> FoundByNative(d, seen)
    [] OTHER -> FoundByCorrespondence(d, seen)

\* The inputs are hashed, then the tool starts.
StartRun(d) ==
  /\ job = Idle
  /\ job' = [pc |-> "running", item |-> d, inputs |-> Fingerprint(d)]
  /\ UNCHANGED <<tree, latest>>

Stamped(d, inputs, seen, found) ==
  [pc |-> "stamped", item |-> d,
   record |-> [inputs |-> inputs, seen |-> seen, result |-> found.result,
               trace |-> found.trace, backend |-> found.backend]]

\* The inputs are hashed when the tool has ended.
FinishRun_HashLast ==
  /\ job.pc = "running"
  /\ \E seen \in Between(job.inputs, Fingerprint(job.item)) :
       \E found \in Found(job.item, seen) :
         job' = Stamped(job.item, Fingerprint(job.item), seen, found)
  /\ UNCHANGED <<tree, latest>>

FinishRun ==
  /\ job.pc = "running"
  /\ \E seen \in Between(job.inputs, Fingerprint(job.item)) :
       \E found \in Found(job.item, seen) :
         job' = Stamped(job.item, job.inputs, seen, found)
  /\ UNCHANGED <<tree, latest>>

\* A report of any earlier test run is read ...
ReadReport(n) ==
  /\ job = Idle
  /\ \E seen \in Between([f \in InputsOf[n] |-> 0], Fingerprint(n)) :
       job' = [pc |-> "report", item |-> n, seen |-> seen]
  /\ UNCHANGED <<tree, latest>>

\* ... and then the inputs are hashed.
FinishImport ==
  /\ job.pc = "report"
  /\ \E found \in Found(job.item, job.seen) :
       job' = Stamped(job.item, Fingerprint(job.item), job.seen, found)
  /\ UNCHANGED <<tree, latest>>

\* model_command has loaded the definition before it is evaluated.
StartValidation(v) ==
  /\ job = Idle
  /\ job' = [pc |-> "scenario", item |-> v, loaded |-> Present[v], at |-> 1,
             dependencies |-> <<>>, results |-> {}]
  /\ UNCHANGED <<tree, latest>>

\* The mappings that are evaluated are those loaded.
Mappings == MappingsOf[job.item][job.loaded]

Mapping == Mappings[job.at]

ReadScenario ==
  /\ job.pc = "scenario"
  /\ job.at <= Len(Mappings)
  /\ job' = [pc |-> "model", item |-> job.item, loaded |-> job.loaded, at |-> job.at,
             dependencies |-> job.dependencies, results |-> job.results,
             scenario |-> Assess(Mapping.scenario)]
  /\ UNCHANGED <<tree, latest>>

\* BTreeMap::insert
Inserted(map, key, value) ==
  [k \in DOMAIN map \cup {key} |-> IF k = key THEN value ELSE map[k]]

\* Only mappings with evidence on both sides are dependencies.
ReadModel_PresentOnly ==
  /\ job.pc = "model"
  /\ LET scenario == job.scenario
         model == Assess(Mapping.model)
     IN  job' = [pc |-> "scenario", item |-> job.item, loaded |-> job.loaded, at |-> job.at + 1,
                 dependencies |->
                   IF None \in {scenario, model} THEN job.dependencies
                   ELSE Inserted(Inserted(job.dependencies, Mapping.scenario, Dependency(scenario)),
                             Mapping.model, Dependency(model)),
                 results |-> job.results \cup {"UNVERIFIED"}]
  /\ UNCHANGED <<tree, latest>>

ReadModel ==
  /\ job.pc = "model"
  /\ LET scenario == job.scenario
         model == Assess(Mapping.model)
         trace == IF scenario = None THEN <<>> ELSE scenario.trace
         result == MappingResult(Mapping.expected, scenario, model,
                                 Subsequence(Mapping.pattern, trace))
     IN  job' = [pc |-> "scenario", item |-> job.item, loaded |-> job.loaded, at |-> job.at + 1,
                 dependencies |->
                   Inserted(Inserted(job.dependencies, Mapping.scenario, Dependency(scenario)),
                        Mapping.model, Dependency(model)),
                 results |-> job.results \cup {result}]
  /\ UNCHANGED <<tree, latest>>

\* The definition's file is hashed as it is by then, and the record stamped.
\* `loaded` is history: the record does not say which version was evaluated.
FinishValidation ==
  /\ job.pc = "scenario"
  /\ job.at > Len(Mappings)
  /\ job' = [pc |-> "stamped", item |-> job.item,
             record |-> [definition |-> Present[job.item], loaded |-> job.loaded,
                         dependencies |-> job.dependencies,
                         result |-> Combined(job.results)]]
  /\ UNCHANGED <<tree, latest>>

\* The temporary file is renamed.
Store ==
  /\ job.pc = "stamped"
  /\ latest' = [latest EXCEPT ![job.item] = job.record]
  /\ job' = Idle
  /\ UNCHANGED tree

\* An unreadable file, a tool that cannot be started, a crash: no record.
JobFails ==
  /\ job # Idle
  /\ job' = Idle
  /\ UNCHANGED <<tree, latest>>

Edit(f) ==
  /\ \A g \in Files : tree[g] < MaxVersion
  /\ tree' = [tree EXCEPT ![f] = @ + 1]
  /\ UNCHANGED <<latest, job>>

-----------------------------------------------------------------------------
(* What status, diagnose and impact say, of a tree and stores that hold     *)
(* still meanwhile: they write nothing, and nothing is claimed of the       *)
(* mixture that they report if they are disturbed.                          *)

\* aggregate_parents: the children are assessed one by one.  One without a
\* definition or a record is supplied as UNVERIFIED.
Children(p) ==
  [c \in {ChildrenOf[p][k] : k \in DOMAIN ChildrenOf[p]} |-> ChildOf(LatestAssessment(c))]

\* Parents are judged by the results of their children alone.
ParentStatus_AnyValidity(p) ==
  Combined({Children(p)[c].result : c \in DOMAIN Children(p)})

ParentStatus(p) == ParentResult(DOMAIN Children(p), Children(p))

\* diagnose_command: scenarios, native tests, models, validations,
\* correspondences, then parents.
Findings ==
  {r \in Records : NeedsAttention(LatestAssessment(r))}
    \cup {p \in Parents : ParentStatus(p) # "PASS"}

-----------------------------------------------------------------------------
Next ==
  \/ \E d \in Checks \ Natives : StartRun(d)
  \/ \E n \in Natives : ReadReport(n)
  \/ \E v \in Validations : StartValidation(v)
  \/ \E f \in Files : Edit(f)
  \/ FinishRun \/ FinishImport
  \/ ReadScenario \/ ReadModel \/ FinishValidation
  \/ Store \/ JobFails

Spec == Init /\ [][Next]_vars
-----------------------------------------------------------------------------
(* heterogeneous_impact: what a file bears upon.                           *)

Relevant ==
  {e \in Files \X Checks : e[1] \in InputsOf[e[2]]}
    \cup {<<DefinedIn[v], v>> : v \in Validations}

\* Validations require what their definitions name, in these versions.
Requires(versions) ==
  (UNION {{<<v, d>> : d \in Sides(v, versions[v], Len(MappingsOf[v][versions[v]]))} :
            v \in Validations})
    \cup (UNION {{<<p, ChildrenOf[p][k]>> : k \in DOMAIN ChildrenOf[p]} : p \in Parents})

\* Only what parents require is followed backwards.
Edges_ParentsOnly(versions) ==
  Relevant \cup Requires(versions)
    \cup {<<e[2], e[1]>> : e \in {r \in Requires(versions) : r[1] \in Parents}}

\* Every Requires edge is followed both ways.
Edges(versions) ==
  Relevant \cup Requires(versions) \cup {<<e[2], e[1]>> : e \in Requires(versions)}

\* reachable_nodes, for every version of the definitions: an edge leads out of
\* every set that a node reached is not in.
ImpactOf ==
  [versions \in [Validations -> Versions] |->
     LET edges == Edges(versions)
     IN  [f \in Files |->
            {o \in Obligations : \A S \in SUBSET (Obligations \ {o}) :
               \E e \in edges : (e[1] = f \/ e[1] \in S) /\ e[2] \notin S}]]

-----------------------------------------------------------------------------
(* Properties                                                              *)

Traces ==
  {<<>>} \cup
    UNION {UNION {TracesOf(d, seen) : seen \in [InputsOf[d] -> Versions]} : d \in Scenarios}

CheckRecord ==
  [inputs : InputVersions, seen : InputVersions, result : Results, trace : Traces,
   backend : {"pinned", "other", "undetected"}]

Assessment == [result : Results, inputs : InputVersions, trace : Traces, validity : Validities]

IsDependency(a) == a = None \/ (a.result \in Results /\ a.validity \in Validities)

IsDependencies(map) == \A d \in DOMAIN map : IsDependency(map[d])

IsRecord(r, record) ==
  IF r \in Checks THEN record \in CheckRecord
  ELSE /\ record.definition \in Versions /\ record.loaded \in Versions
       /\ record.result \in Results
       /\ IsDependencies(record.dependencies)
       /\ DOMAIN record.dependencies
            = Sides(r, record.loaded, Len(MappingsOf[r][record.loaded]))

JobOK ==
  CASE job.pc = "idle" -> job = Idle
    [] job.pc = "running" -> job.item \in Checks /\ job.inputs \in InputVersions
    [] job.pc = "report" -> job.item \in Natives /\ job.seen \in InputVersions
    [] job.pc = "stamped" -> job.item \in Records /\ IsRecord(job.item, job.record)
    [] job.pc \in {"scenario", "model"} ->
         /\ job.item \in Validations
         /\ job.loaded \in Versions
         /\ job.at \in 1..Len(Mappings) + 1
         /\ DOMAIN job.dependencies = Sides(job.item, job.loaded, job.at - 1)
         /\ IsDependencies(job.dependencies)
         /\ job.results \subseteq Results
         /\ job.pc = "model" => job.scenario \in Assessment \cup {None}

\* Every stored record, and every command under way, has what its kind of
\* evidence has: a validation names as its dependencies both sides of every
\* mapping it has judged (scenario.rs, quint.rs, native_test.rs,
\* correspondence.rs).
TypeOK ==
  /\ tree \in [Files -> Versions]
  /\ \A r \in Records : latest[r] = None \/ IsRecord(r, latest[r])
  /\ JobOK

Complete == {"PASS", "FAIL"}

\* The verdict of evidence that is current now was found on the files of now,
\* whatever was edited while the tool ran: inputs are hashed before it starts
\* (scenario.rs run, quint.rs run_with_executable, correspondence.rs run).
\* Imported reports are excepted: nothing ties them to the files hashed.
CurrentVerdictIsOfPresentFiles ==
  \A d \in Checks \ Natives :
    latest[d] # None =>
      (Assess(d).validity = "CURRENT" /\ Assess(d).result \in Complete =>
         latest[d].seen = Fingerprint(d))

\* What a complete run of the tool would say of these versions ...
ResultOn(d, seen) ==
  CASE d \in Scenarios -> IF ExpectedOf[d] \subseteq Met(d, seen) THEN "PASS" ELSE "FAIL"
    [] d \in Models -> IF (CheckOf[d].expected = "violation") <=> Violates(d, seen)
                         THEN "PASS" ELSE "FAIL"
    [] d \in Natives -> NativeResult(TestsOf[d], Report(d, seen))
    [] OTHER -> CorrespondenceResult(Transitions(d, seen))

\* ... and of the files as they are.
Fresh(d) == ResultOn(d, Fingerprint(d))

\* A definition, in some version, is right about the files as they are.
Corresponds(v, n) ==
  \A i \in DOMAIN MappingsOf[v][n] :
    LET m == MappingsOf[v][n][i]
    IN  /\ Fresh(m.scenario) = m.expected
        /\ Fresh(m.model) = "PASS"
        /\ \E trace \in TracesOf(m.scenario, Fingerprint(m.scenario)) :
             Subsequence(m.pattern, trace)

\* What a validation that is current and passes has evaluated is right about
\* the files as they are, although it only ever looked at records, of both
\* sides, read one after another, and forgets their identity and their traces
\* (evaluate_validation, assess_validation).
CurrentValidationCorresponds ==
  \A v \in Validations :
    latest[v] # None =>
      (AssessValidation(v) = [result |-> "PASS", validity |-> "CURRENT"] =>
         Corresponds(v, latest[v].loaded))

\* "For each mapping it requires: current immutable scenario evidence with the
\* expected observed result; [...] the documented abstract trace pattern"
\* (docs/QUINT_MODEL_EVIDENCE.md): a validation that is current and passes is
\* one of the definition as it is (run_validation, assess_validation).
CurrentValidationFitsDefinition ==
  \A v \in Validations :
    latest[v] # None =>
      (AssessValidation(v) = [result |-> "PASS", validity |-> "CURRENT"] =>
         Corresponds(v, Present[v]))

\* The exceptions: a report that was imported with other files than it was made
\* from, and a validation whose definition was edited while it ran.
Misattributed(r) ==
  /\ latest[r] # None
  /\ \/ r \in Natives /\ latest[r].seen # latest[r].inputs
     \/ r \in Validations /\ latest[r].loaded # latest[r].definition

Holds(r) == IF r \in Validations THEN Corresponds(r, Present[r]) ELSE Fresh(r) = "PASS"

\* A diagnosis that accepts hides nothing: all that does not hold of the files
\* as they are, and every parent that requires it, has a waiver of its own that
\* has not expired, but for evidence that is misattributed; and one without
\* waivers accepts only if all of it holds (diagnose_command,
\* aggregate_parents, policy.rs apply).
AcceptanceIsWarranted ==
  LET found == Findings
      warranted == {r \in Records : Holds(r) \/ Misattributed(r)}
  IN  \A policy \in Policies, now \in Times :
        DiagnoseResult(policy, found, now) # "ATTENTION" =>
          LET waived == {o \in DOMAIN policy : policy[o] > now}
          IN  /\ Records \subseteq waived \cup warranted
              /\ \A p \in Parents :
                   \/ p \in waived
                   \/ /\ ChildrenOf[p] # <<>>
                      /\ \A k \in DOMAIN ChildrenOf[p] : ChildrenOf[p][k] \in warranted

\* What is reported of an obligation.
Standing(o) == IF o \in Parents THEN ParentStatus(o) ELSE LatestAssessment(o)

\* When a file is edited, whatever is reported differently afterwards, however
\* far from the file, is named by its impact (heterogeneous_impact).
ImpactIsComplete ==
  [][\A f \in Files : tree'[f] # tree[f] =>
       \A o \in Obligations \ ImpactOf[Present][f] : Standing(o)' = Standing(o)]_vars
=============================================================================
