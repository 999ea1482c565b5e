--------------------------- MODULE EvidenceProofs ---------------------------
(***************************************************************************)
(* Proofs about EvidenceGraph and, below, EvidenceBundle, which share no   *)
(* state.                                                                  *)
(*                                                                         *)
(* Records of a check never lie about what the tool has seen, what it has  *)
(* seen lies between the inputs hashed before and the files as they are,   *)
(* and a validation keeps of each side enough to find the files again that *)
(* it was right about.                                                     *)
(***************************************************************************)
EXTENDS EvidenceGraph, EvidenceBundle, FiniteSetTheorems, TLAPS

\* A result that says something about what the tool has seen says the right
\* thing.
Truthful(d, seen, result) ==
  result = "PASS" \/ (d \in Scenarios /\ result = "FAIL") => result = ResultOn(d, seen)

FoundOK(d, seen, found) ==
  /\ found.result \in Results
  /\ found.trace \in Traces
  /\ found.backend \in {"pinned", "other", "undetected"}
  /\ Truthful(d, seen, found.result)
  /\ d \in Scenarios =>
       /\ found.result \in {"PASS", "FAIL", "ERROR"}
       /\ found.result \in Complete => found.trace \in TracesOf(d, seen)

Older(d, low, high) == \A f \in InputsOf[d] : low[f] <= high[f]

\* The record of a check, when the files are as in `now`.
CheckOK(d, record, now) ==
  /\ record \in CheckRecord
  /\ record.inputs \in [InputsOf[d] -> Versions]
  /\ record.seen \in [InputsOf[d] -> Versions]
  /\ FoundOK(d, record.seen, record)
  /\ d \notin Natives => Older(d, record.inputs, record.seen) /\ Older(d, record.seen, now)

\* What a mapping that passed has left in the dependencies.
Linked(v, n, i, dependencies) ==
  LET m == MappingsOf[v][n][i]
      scenario == dependencies[m.scenario]
      model == dependencies[m.model]
  IN  /\ scenario # None /\ model # None
      /\ scenario.validity = "CURRENT" /\ model.validity = "CURRENT"
      /\ scenario.result \in Complete /\ scenario.result = m.expected
      /\ model.result = "PASS"
      /\ \E trace \in TracesOf(m.scenario, scenario.inputs) : Subsequence(m.pattern, trace)

ValidationOK(v, record) ==
  /\ record.definition \in Versions /\ record.loaded \in Versions
  /\ record.result \in Results
  /\ DOMAIN record.dependencies = Sides(v, record.loaded, Len(MappingsOf[v][record.loaded]))
  /\ \A d \in DOMAIN record.dependencies :
       record.dependencies[d] \in DependencyRecord \cup {None}
  /\ record.result = "PASS" =>
       \A i \in DOMAIN MappingsOf[v][record.loaded] :
         Linked(v, record.loaded, i, record.dependencies)

RecordOK(r, record, now) ==
  IF r \in Checks THEN CheckOK(r, record, now) ELSE ValidationOK(r, record)

\* What a validation has in hand of a scenario's evidence.
SideOK(d, a) ==
  /\ a \in Assessment
  /\ a.inputs \in [InputsOf[d] -> Versions]
  /\ d \in Scenarios => a.result \in {"PASS", "FAIL", "ERROR"}
  /\ d \in Scenarios /\ a.result \in Complete /\ a.validity = "CURRENT" =>
       a.trace \in TracesOf(d, a.inputs)

\* Nothing is stored while a validation reads, so that what it has read of one
\* side in two mappings differs by its validity alone.
FromLatest(d, a) ==
  a # None => latest[d] # None /\ a.result = latest[d].result /\ a.inputs = latest[d].inputs

DependenciesOK(dependencies) ==
  \A d \in DOMAIN dependencies :
    dependencies[d] \in DependencyRecord \cup {None} /\ FromLatest(d, dependencies[d])

LatestInv ==
  /\ DOMAIN latest = Records
  /\ \A r \in Records : latest[r] = None \/ RecordOK(r, latest[r], tree)

JobInv ==
  /\ job.pc \in {"idle", "running", "report", "stamped", "scenario", "model"}
  /\ job.pc = "idle" => job = Idle
  /\ job.pc = "running" =>
       /\ job.item \in Checks \ Natives
       /\ job.inputs \in [InputsOf[job.item] -> Versions]
       /\ Older(job.item, job.inputs, tree)
  /\ job.pc = "report" =>
       job.item \in Natives /\ job.seen \in [InputsOf[job.item] -> Versions]
  /\ job.pc = "stamped" => job.item \in Records /\ RecordOK(job.item, job.record, tree)
  /\ job.pc \in {"scenario", "model"} =>
       /\ job.item \in Validations
       /\ job.loaded \in Versions
       /\ job.at \in 1..Len(Mappings) + 1
       /\ DOMAIN job.dependencies = Sides(job.item, job.loaded, job.at - 1)
       /\ DependenciesOK(job.dependencies)
       /\ job.results \subseteq Results
       /\ job.results \subseteq {"PASS"} =>
            \A i \in 1..job.at - 1 : Linked(job.item, job.loaded, i, job.dependencies)
  /\ job.pc = "model" =>
       /\ job.at <= Len(Mappings)
       /\ FromLatest(Mapping.scenario, job.scenario)
       /\ job.scenario = None \/ SideOK(Mapping.scenario, job.scenario)

IInv == tree \in [Files -> Versions] /\ LatestInv /\ JobInv

-----------------------------------------------------------------------------
(* The rules                                                               *)

LEMMA CombinedIsResult ==
  ASSUME NEW results
  PROVE  Combined(results) \in Results /\ (Combined(results) = "PASS" => results = {"PASS"})
  BY DEF Combined, Results

LEMMA ScenarioFound ==
  ASSUME NEW d \in Scenarios, NEW seen \in [InputsOf[d] -> Versions],
         NEW found \in FoundByScenario(d, seen)
  PROVE  FoundOK(d, seen, found)
<1>1. PICK b \in BOOLEAN, trace \in TracesOf(d, seen) :
        found = [result |-> ScenarioResult(ExpectedOf[d], [broken |-> b, met |-> Met(d, seen)]),
                 trace |-> IF b THEN <<>> ELSE trace, backend |-> "pinned"]
  BY DEF FoundByScenario
<1>2. trace \in Traces /\ <<>> \in Traces
  BY DEF Traces
<1>3. ResultOn(d, seen) = IF ExpectedOf[d] \subseteq Met(d, seen) THEN "PASS" ELSE "FAIL"
  BY GraphAssumption DEF ResultOn
<1>4. CASE b
  BY <1>1, <1>2, <1>4 DEF ScenarioResult, FoundOK, Truthful, Complete, Results
<1>5. CASE ~b
  BY <1>1, <1>2, <1>3, <1>5 DEF ScenarioResult, FoundOK, Truthful, Complete, Results
<1>6. QED
  BY <1>4, <1>5

LEMMA ModelFound ==
  ASSUME NEW d \in Models, NEW seen \in [InputsOf[d] -> Versions],
         NEW found \in FoundByModel(d, seen)
  PROVE  FoundOK(d, seen, found)
<1>1. PICK output \in ModelOutputs :
        /\ Cardinality(output.marks) = 1 =>
             output.marks = {IF Violates(d, seen) THEN "violation" ELSE "no violation"}
        /\ found = [result |-> ModelResult(CheckOf[d], output), trace |-> <<>>,
                    backend |-> RecordedBackend(CheckOf[d], output)]
  BY DEF FoundByModel
<1>2. <<>> \in Traces /\ d \notin Scenarios
  BY GraphAssumption DEF Traces
<1>3. /\ ModelResult(CheckOf[d], output) \in Results
      /\ ModelResult(CheckOf[d], output) = "PASS" => output.marks = {CheckOf[d].expected}
  BY DEF ModelResult, Results
<1>4. output.backend \in {"pinned", "other", "undetected"}
  BY DEF ModelOutputs
<1>5. ASSUME output.marks = {CheckOf[d].expected}
      PROVE  ResultOn(d, seen) = "PASS"
  <2>1. Cardinality(output.marks) = 1
    BY <1>5, FS_Singleton
  <2>2. CheckOf[d].expected = IF Violates(d, seen) THEN "violation" ELSE "no violation"
    BY <1>1, <1>5, <2>1
  <2>3. (CheckOf[d].expected = "violation") <=> Violates(d, seen)
    BY <2>2
  <2>4. QED
    BY <1>2, <2>3, GraphAssumption DEF ResultOn
<1>6. QED
  BY <1>1, <1>2, <1>3, <1>4, <1>5 DEF FoundOK, Truthful, RecordedBackend

LEMMA OtherFound ==
  ASSUME NEW d \in Checks \ (Scenarios \cup Models), NEW seen \in [InputsOf[d] -> Versions],
         NEW found \in Found(d, seen)
  PROVE  FoundOK(d, seen, found)
<1>1. <<>> \in Traces
  BY DEF Traces
<1>2. CASE d \in Natives
  <2>1. found = [result |-> NativeResult(TestsOf[d], Report(d, seen)), trace |-> <<>>,
                 backend |-> "pinned"]
    BY <1>2, GraphAssumption DEF Found, FoundByNative
  <2>2. ResultOn(d, seen) = NativeResult(TestsOf[d], Report(d, seen))
    BY <1>2, GraphAssumption DEF ResultOn
  <2>3. NativeResult(TestsOf[d], Report(d, seen)) \in Results
    BY DEF NativeResult, Results
  <2>4. QED
    BY <1>1, <2>1, <2>2, <2>3 DEF FoundOK, Truthful
<1>3. CASE d \notin Natives
  <2>1. found = [result |-> CorrespondenceResult(Transitions(d, seen)), trace |-> <<>>,
                 backend |-> "pinned"]
    BY <1>3 DEF Found, FoundByCorrespondence
  <2>2. ResultOn(d, seen) = CorrespondenceResult(Transitions(d, seen))
    BY <1>3 DEF ResultOn
  <2>3. CorrespondenceResult(Transitions(d, seen)) \in Results
    BY CombinedIsResult DEF CorrespondenceResult
  <2>4. QED
    BY <1>1, <2>1, <2>2, <2>3 DEF FoundOK, Truthful
<1>4. QED
  BY <1>2, <1>3

LEMMA EverythingFound ==
  ASSUME NEW d \in Checks, NEW seen \in [InputsOf[d] -> Versions], NEW found \in Found(d, seen)
  PROVE  FoundOK(d, seen, found)
<1>1. CASE d \in Scenarios
  <2>1. d \notin Models \cup Natives
    BY <1>1, GraphAssumption
  <2>2. QED
    BY <1>1, <2>1, ScenarioFound DEF Found
<1>2. CASE d \in Models
  <2>1. d \notin Scenarios \cup Natives
    BY <1>2, GraphAssumption
  <2>2. QED
    BY <1>2, <2>1, ModelFound DEF Found
<1>3. CASE d \notin Scenarios \cup Models
  BY <1>3, OtherFound
<1>4. QED
  BY <1>1, <1>2, <1>3

-----------------------------------------------------------------------------
(* Records                                                                 *)

LEMMA InputsAreVersions ==
  ASSUME NEW d \in Checks, NEW seen \in [InputsOf[d] -> Versions]
  PROVE  seen \in InputVersions
  BY DEF InputVersions

LEMMA FingerprintIsVersions ==
  ASSUME tree \in [Files -> Versions], NEW d \in Checks
  PROVE  Fingerprint(d) \in [InputsOf[d] -> Versions]
  BY GraphAssumption DEF Fingerprint

LEMMA PresentIsVersions ==
  ASSUME tree \in [Files -> Versions]
  PROVE  Present \in [Validations -> Versions]
  BY GraphAssumption DEF Present

\* What a tool has seen lies between the inputs hashed and the files at its end.
LEMMA BetweenIsBetween ==
  ASSUME tree \in [Files -> Versions], NEW d \in Checks,
         NEW low \in [InputsOf[d] -> Versions],
         NEW seen \in Between(low, Fingerprint(d))
  PROVE  /\ seen \in [InputsOf[d] -> Versions]
         /\ Older(d, low, seen) /\ Older(d, seen, tree)
  BY DEF Between, Fingerprint, Older

LEMMA StampedIsRecord ==
  ASSUME NEW d \in Checks, NEW now,
         NEW inputs \in [InputsOf[d] -> Versions],
         NEW seen \in [InputsOf[d] -> Versions],
         NEW found, FoundOK(d, seen, found),
         d \notin Natives => Older(d, inputs, seen) /\ Older(d, seen, now)
  PROVE  CheckOK(d, Stamped(d, inputs, seen, found).record, now)
<1> DEFINE r == Stamped(d, inputs, seen, found).record
<1>1. /\ r = [inputs |-> inputs, seen |-> seen, result |-> found.result,
              trace |-> found.trace, backend |-> found.backend]
      /\ r.inputs = inputs /\ r.seen = seen /\ r.result = found.result
      /\ r.trace = found.trace /\ r.backend = found.backend
  BY DEF Stamped
<1> HIDE DEF r
<1>2. r \in CheckRecord
  BY <1>1, InputsAreVersions DEF FoundOK, CheckRecord
<1>3. FoundOK(d, r.seen, r)
  BY <1>1 DEF FoundOK
<1>4. QED
  BY <1>1, <1>2, <1>3 DEF CheckOK, r

\* Files only get newer, and records stay what they are.
LEMMA RecordKeeps ==
  ASSUME NEW r \in Records, NEW record, NEW then, NEW now,
         then \in [Files -> Versions], now \in [Files -> Versions],
         \A f \in Files : then[f] <= now[f],
         RecordOK(r, record, then)
  PROVE  RecordOK(r, record, now)
<1>1. CASE r \in Checks
  <2>1. CheckOK(r, record, then)
    BY <1>1 DEF RecordOK
  <2>2. ASSUME Older(r, record.seen, then)
        PROVE  Older(r, record.seen, now)
    <3>1. SUFFICES ASSUME NEW f \in InputsOf[r]
                   PROVE  record.seen[f] <= now[f]
      BY DEF Older
    <3>2. record.seen[f] \in Nat /\ then[f] \in Nat /\ now[f] \in Nat
      BY <1>1, <2>1, GraphAssumption DEF CheckOK, Versions
    <3>3. record.seen[f] <= then[f] /\ then[f] <= now[f]
      BY <1>1, <2>2, GraphAssumption DEF Older
    <3>4. QED
      BY <3>2, <3>3
  <2>3. QED
    BY <1>1, <2>1, <2>2 DEF RecordOK, CheckOK
<1>2. CASE r \notin Checks
  BY <1>2 DEF RecordOK
<1>3. QED
  BY <1>1, <1>2

\* Evidence whose inputs are still the same has seen the files as they are.
LEMMA CurrentHasSeen ==
  ASSUME tree \in [Files -> Versions], NEW d \in Checks \ Natives, NEW record,
         CheckOK(d, record, tree), record.inputs = Fingerprint(d)
  PROVE  record.seen = Fingerprint(d)
<1>1. Fingerprint(d) \in [InputsOf[d] -> Versions] /\ record.seen \in [InputsOf[d] -> Versions]
  BY FingerprintIsVersions DEF CheckOK
<1>2. ASSUME NEW f \in InputsOf[d]
      PROVE  record.seen[f] = Fingerprint(d)[f]
  <2>1. Fingerprint(d)[f] = tree[f]
    BY DEF Fingerprint
  <2>2. record.seen[f] \in Nat /\ tree[f] \in Nat
    BY <1>1, <2>1, GraphAssumption DEF Versions
  <2>3. Fingerprint(d)[f] <= record.seen[f] /\ record.seen[f] <= tree[f]
    BY DEF CheckOK, Older
  <2>4. QED
    BY <2>1, <2>2, <2>3
<1>3. QED
  BY <1>1, <1>2

\* An assessment has the trace of the inputs it is current for.
LEMMA AssessmentIsSide ==
  ASSUME IInv, NEW d \in Checks \ Natives
  PROVE  Assess(d) = None \/ SideOK(d, Assess(d))
<1>1. CASE latest[d] = None
  BY <1>1 DEF Assess
<1>2. CASE latest[d] # None
  <2> DEFINE r == latest[d]
             a == Assess(d)
  <2>1. CheckOK(d, r, tree) /\ tree \in [Files -> Versions]
    BY <1>2 DEF IInv, LatestInv, RecordOK, Records
  <2>2. /\ a = [result |-> r.result, inputs |-> r.inputs, trace |-> r.trace,
                validity |-> IF r.inputs = Fingerprint(d) /\ r.backend = "pinned"
                               THEN "CURRENT" ELSE "STALE"]
        /\ a.result = r.result /\ a.inputs = r.inputs /\ a.trace = r.trace
        /\ a.validity = "CURRENT" => r.inputs = Fingerprint(d)
    BY <1>2 DEF Assess
  <2>3. a \in Assessment
    <3>1. r.result \in Results /\ r.inputs \in InputVersions /\ r.trace \in Traces
      BY <2>1 DEF CheckOK, CheckRecord
    <3>2. QED
      BY <2>2, <3>1 DEF Assessment, Validities
  <2>4. ASSUME d \in Scenarios, a.result \in Complete, a.validity = "CURRENT"
        PROVE  a.trace \in TracesOf(d, a.inputs)
    <3>1. r.seen = r.inputs
      BY <2>1, <2>2, <2>4, CurrentHasSeen
    <3>2. r.trace \in TracesOf(d, r.seen)
      BY <2>1, <2>2, <2>4 DEF CheckOK, FoundOK
    <3>3. QED
      BY <2>2, <3>1, <3>2
  <2> HIDE DEF r, a
  <2>5. a.inputs \in [InputsOf[d] -> Versions]
        /\ (d \in Scenarios => a.result \in {"PASS", "FAIL", "ERROR"})
    BY <2>1, <2>2 DEF CheckOK, FoundOK
  <2>6. SideOK(d, a)
    BY <2>3, <2>4, <2>5 DEF SideOK
  <2>7. QED
    BY <2>6 DEF a
<1>3. QED
  BY <1>1, <1>2

-----------------------------------------------------------------------------
(* The invariant                                                           *)

LEMMA InvInit == Init => IInv
<1> SUFFICES ASSUME Init PROVE IInv
  OBVIOUS
<1>1. tree \in [Files -> Versions]
  BY GraphAssumption DEF Init, Versions
<1>2. LatestInv
  BY DEF Init, LatestInv
<1>3. JobInv
  BY DEF Init, JobInv, Idle
<1>4. QED
  BY <1>1, <1>2, <1>3 DEF IInv

\* A mapping that passes has both sides, current, with the results wanted, and
\* a trace that fits.
LEMMA MappingPasses ==
  ASSUME NEW expected, NEW scenario, NEW model, NEW matches,
         MappingResult(expected, scenario, model, matches) = "PASS"
  PROVE  /\ scenario # None /\ model # None
         /\ scenario.result # "ERROR" /\ scenario.validity # "STALE"
         /\ model.validity # "STALE"
         /\ scenario.result = expected /\ model.result = "PASS" /\ matches
  BY DEF MappingResult

LEMMA MappingIsResult ==
  ASSUME NEW expected, NEW scenario, NEW model, NEW matches
  PROVE  MappingResult(expected, scenario, model, matches) \in Results
  BY DEF MappingResult, Results

LEMMA SideIsDependency ==
  ASSUME NEW d \in Checks, NEW a, a = None \/ SideOK(d, a)
  PROVE  /\ Dependency(a) \in DependencyRecord \cup {None}
         /\ a # None => /\ Dependency(a) # None
                        /\ Dependency(a).result = a.result
                        /\ Dependency(a).validity = a.validity
                        /\ Dependency(a).inputs = a.inputs
<1>1. CASE a = None
  BY <1>1 DEF Dependency
<1>2. CASE a # None
  <2>1. Dependency(a) = [result |-> a.result, validity |-> a.validity, inputs |-> a.inputs]
    BY <1>2 DEF Dependency
  <2>2. a.result \in Results /\ a.validity \in Validities /\ a.inputs \in InputVersions
    BY <1>2 DEF SideOK, Assessment
  <2>3. Dependency(a) \in DependencyRecord
    BY <2>1, <2>2 DEF DependencyRecord
  <2>4. QED
    BY <2>1, <2>3, GraphAssumption
<1>3. QED
  BY <1>1, <1>2

LEMMA SidesGrow ==
  ASSUME NEW v, NEW n, NEW k \in Nat \ {0}
  PROVE  Sides(v, n, k) =
           Sides(v, n, k - 1) \cup {MappingsOf[v][n][k].scenario, MappingsOf[v][n][k].model}
<1> DEFINE sides(i) == {MappingsOf[v][n][i].scenario, MappingsOf[v][n][i].model}
<1>1. Sides(v, n, k) = UNION {sides(i) : i \in 1..k}
  BY DEF Sides
<1>2. Sides(v, n, k - 1) = UNION {sides(i) : i \in 1..k - 1}
  BY DEF Sides
<1> HIDE DEF sides
<1>3. 1..k = (1..k - 1) \cup {k}
  OBVIOUS
<1>4. UNION {sides(i) : i \in 1..k} = (UNION {sides(i) : i \in 1..k - 1}) \cup sides(k)
  BY <1>3
<1>5. QED
  BY <1>1, <1>2, <1>4 DEF sides

\* The two sides of a mapping are different checks, and among the sides.
LEMMA MappingSides ==
  ASSUME NEW v \in Validations, NEW n \in Versions, NEW i \in DOMAIN MappingsOf[v][n]
  PROVE  /\ MappingsOf[v][n][i].scenario \in Scenarios
         /\ MappingsOf[v][n][i].model \in Models
         /\ MappingsOf[v][n][i].scenario \in Checks \ Natives
         /\ MappingsOf[v][n][i].model \in Checks \ Natives
         /\ MappingsOf[v][n][i].scenario # MappingsOf[v][n][i].model
         /\ \A k \in Nat : i \in 1..k =>
              /\ MappingsOf[v][n][i].scenario \in Sides(v, n, k)
              /\ MappingsOf[v][n][i].model \in Sides(v, n, k)
<1>1. MappingsOf[v][n][i].scenario \in Scenarios /\ MappingsOf[v][n][i].model \in Models
  BY GraphAssumption
<1>2. /\ MappingsOf[v][n][i].scenario \in Checks \ Natives
      /\ MappingsOf[v][n][i].model \in Checks \ Natives
      /\ MappingsOf[v][n][i].scenario # MappingsOf[v][n][i].model
  BY <1>1, GraphAssumption DEF Checks
<1>3. ASSUME NEW k \in Nat, i \in 1..k
      PROVE  /\ MappingsOf[v][n][i].scenario \in Sides(v, n, k)
             /\ MappingsOf[v][n][i].model \in Sides(v, n, k)
  BY <1>3 DEF Sides
<1>4. QED
  BY <1>1, <1>2, <1>3

LEMMA AssessmentIsFromLatest ==
  ASSUME NEW d
  PROVE  FromLatest(d, Assess(d))
  BY DEF Assess, FromLatest

LEMMA DependencyIsFromLatest ==
  ASSUME NEW d, NEW a, FromLatest(d, a)
  PROVE  FromLatest(d, Dependency(a))
  BY DEF Dependency, FromLatest

\* Reading a side once more leaves a mapping that passed linked, if the side is
\* still current.
LEMMA LinkStays ==
  ASSUME NEW v \in Validations, NEW n \in Versions, NEW i \in DOMAIN MappingsOf[v][n],
         NEW before, NEW after,
         Linked(v, n, i, before),
         \A d \in {MappingsOf[v][n][i].scenario, MappingsOf[v][n][i].model} :
           \/ after[d] = before[d]
           \/ /\ after[d] # None /\ after[d].validity = "CURRENT"
              /\ FromLatest(d, after[d]) /\ FromLatest(d, before[d])
  PROVE  Linked(v, n, i, after)
<1> DEFINE m == MappingsOf[v][n][i]
           s == m.scenario
           t == m.model
<1>1. /\ before[s] # None /\ before[t] # None
      /\ before[s].validity = "CURRENT" /\ before[t].validity = "CURRENT"
      /\ before[s].result \in Complete /\ before[s].result = m.expected
      /\ before[t].result = "PASS"
      /\ \E trace \in TracesOf(s, before[s].inputs) : Subsequence(m.pattern, trace)
  BY DEF Linked
<1>2. \A d \in {s, t} :
        /\ after[d] # None /\ after[d].validity = "CURRENT"
        /\ after[d].result = before[d].result /\ after[d].inputs = before[d].inputs
  BY <1>1 DEF FromLatest
<1> HIDE DEF s, t
<1>3. /\ after[s] # None /\ after[t] # None
      /\ after[s].validity = "CURRENT" /\ after[t].validity = "CURRENT"
      /\ after[s].result \in Complete /\ after[s].result = m.expected
      /\ after[t].result = "PASS"
      /\ \E trace \in TracesOf(s, after[s].inputs) : Subsequence(m.pattern, trace)
  BY <1>1, <1>2
<1>4. QED
  BY <1>3 DEF Linked, s, t

\* Judging one more mapping keeps what is known of those that passed.
LEMMA ReadModelKeeps ==
  ASSUME IInv, ReadModel
  PROVE  JobInv'
<1> DEFINE v == job.item
           n == job.loaded
           m == MappingsOf[v][n][job.at]
           p == m.scenario
           q == m.model
           s == job.scenario
           a == Assess(q)
           trace == IF s = None THEN <<>> ELSE s.trace
           result == MappingResult(m.expected, s, a, Subsequence(m.pattern, trace))
           after == Inserted(Inserted(job.dependencies, p, Dependency(s)), q, Dependency(a))
<1>1. /\ job.pc = "model" /\ v \in Validations /\ n \in Versions
      /\ job.at \in 1..Len(MappingsOf[v][n]) + 1 /\ job.at <= Len(MappingsOf[v][n])
      /\ DOMAIN job.dependencies = Sides(v, n, job.at - 1)
      /\ DependenciesOK(job.dependencies)
      /\ job.results \subseteq Results
      /\ job.results \subseteq {"PASS"} =>
           \A i \in 1..job.at - 1 : Linked(v, n, i, job.dependencies)
      /\ FromLatest(p, s)
      /\ s = None \/ SideOK(p, s)
  BY DEF ReadModel, IInv, JobInv, Mapping, Mappings
<1>2. /\ job'.pc = "scenario" /\ job'.item = v /\ job'.loaded = n /\ job'.at = job.at + 1
      /\ job'.dependencies = after
      /\ job'.results = job.results \cup {result}
      /\ latest' = latest
  BY DEF ReadModel, Mapping, Mappings
<1>3. Len(MappingsOf[v][n]) \in Nat /\ DOMAIN MappingsOf[v][n] = 1..Len(MappingsOf[v][n])
  BY <1>1, GraphAssumption
<1>4. job.at \in DOMAIN MappingsOf[v][n] /\ job.at \in Nat \ {0}
  BY <1>1, <1>3
<1>5. /\ p \in Scenarios /\ q \in Models /\ p # q
      /\ p \in Checks /\ q \in Checks \ Natives
  BY <1>1, <1>4, MappingSides
<1>6. a = None \/ SideOK(q, a)
  BY <1>5, AssessmentIsSide
<1>7. /\ Dependency(s) \in DependencyRecord \cup {None}
      /\ Dependency(a) \in DependencyRecord \cup {None}
  BY <1>1, <1>5, <1>6, SideIsDependency
<1>8. FromLatest(p, Dependency(s)) /\ FromLatest(q, Dependency(a))
  BY <1>1, AssessmentIsFromLatest, DependencyIsFromLatest
<1>9. /\ DOMAIN after = DOMAIN job.dependencies \cup {p, q}
      /\ after[p] = Dependency(s) /\ after[q] = Dependency(a)
      /\ \A d \in DOMAIN job.dependencies \ {p, q} : after[d] = job.dependencies[d]
  <2> DEFINE map == job.dependencies
             one == Inserted(map, p, Dependency(s))
  <2> HIDE DEF map, m, p, q, s, a
  <2>1. /\ DOMAIN one = DOMAIN map \cup {p} /\ one[p] = Dependency(s)
        /\ \A d \in DOMAIN map \ {p} : one[d] = map[d]
    BY DEF Inserted
  <2> HIDE DEF one
  <2>2. after = Inserted(one, q, Dependency(a))
    BY DEF one, map
  <2>3. /\ DOMAIN after = DOMAIN one \cup {q} /\ after[q] = Dependency(a)
        /\ \A d \in DOMAIN one \ {q} : after[d] = one[d]
    BY <2>2 DEF Inserted
  <2> HIDE DEF after
  <2>4. p # q
    BY <1>5
  <2>5. /\ DOMAIN after = DOMAIN map \cup {p, q}
        /\ after[p] = Dependency(s) /\ after[q] = Dependency(a)
        /\ \A d \in DOMAIN map \ {p, q} : after[d] = map[d]
    BY <2>1, <2>3, <2>4
  <2>6. QED
    BY <2>5 DEF map
<1>10. result \in Results
  BY MappingIsResult
<1>11. ASSUME result = "PASS"
       PROVE  /\ s # None /\ a # None
              /\ Dependency(s) # None /\ Dependency(a) # None
              /\ Dependency(s).validity = "CURRENT" /\ Dependency(a).validity = "CURRENT"
              /\ Dependency(s).result \in Complete /\ Dependency(s).result = m.expected
              /\ Dependency(a).result = "PASS"
              /\ \E other \in TracesOf(p, Dependency(s).inputs) : Subsequence(m.pattern, other)
  <2>1. /\ s # None /\ a # None
        /\ s.result # "ERROR" /\ s.validity # "STALE" /\ a.validity # "STALE"
        /\ s.result = m.expected /\ a.result = "PASS" /\ Subsequence(m.pattern, trace)
    BY <1>11, MappingPasses
  <2>2. s.validity = "CURRENT" /\ a.validity = "CURRENT" /\ s.result \in Complete
    BY <1>1, <1>5, <1>6, <2>1 DEF SideOK, Assessment, Validities, Complete
  <2>3. trace \in TracesOf(p, s.inputs)
    BY <1>1, <1>5, <2>1, <2>2 DEF SideOK
  <2>4. /\ Dependency(s) # None /\ Dependency(s).result = s.result
        /\ Dependency(s).validity = s.validity /\ Dependency(s).inputs = s.inputs
    BY <1>1, <1>5, <2>1, SideIsDependency
  <2>5. /\ Dependency(a) # None /\ Dependency(a).result = a.result
        /\ Dependency(a).validity = a.validity
    BY <1>5, <1>6, <2>1, SideIsDependency
  <2> HIDE DEF m, p, q, s, a, trace, result, after
  <2>6. QED
    BY <2>1, <2>2, <2>3, <2>4, <2>5
<1>12. Linked(v, n, job.at, after) <=>
         /\ after[p] # None /\ after[q] # None
         /\ after[p].validity = "CURRENT" /\ after[q].validity = "CURRENT"
         /\ after[p].result \in Complete /\ after[p].result = m.expected
         /\ after[q].result = "PASS"
         /\ \E other \in TracesOf(p, after[p].inputs) : Subsequence(m.pattern, other)
  BY DEF Linked
<1> HIDE DEF m, p, q, s, a, trace, result, after
<1>13. DOMAIN after = Sides(v, n, job.at)
  <2>1. Sides(v, n, job.at) = Sides(v, n, job.at - 1) \cup {p, q}
    BY <1>4, SidesGrow DEF p, q, m
  <2>2. QED
    BY <1>1, <1>9, <2>1
<1>14. DependenciesOK(after)
  <2>1. SUFFICES ASSUME NEW d \in DOMAIN after
                 PROVE  after[d] \in DependencyRecord \cup {None} /\ FromLatest(d, after[d])
    BY DEF DependenciesOK
  <2>2. CASE d \in {p, q}
    BY <1>7, <1>8, <1>9, <2>2
  <2>3. CASE d \notin {p, q}
    BY <1>1, <1>9, <2>3 DEF DependenciesOK
  <2>4. QED
    BY <2>2, <2>3
<1>15. ASSUME job'.results \subseteq {"PASS"}, NEW i \in 1..job.at
       PROVE  Linked(v, n, i, after)
  <2>1. result = "PASS" /\ job.results \subseteq {"PASS"}
    BY <1>2, <1>15
  <2>2. CASE i = job.at
    BY <1>9, <1>11, <1>12, <2>1, <2>2
  <2>3. CASE i \in 1..job.at - 1
    <3>1. Linked(v, n, i, job.dependencies)
      BY <1>1, <2>1, <2>3
    <3>2. i \in DOMAIN MappingsOf[v][n] /\ job.at - 1 \in Nat
      BY <1>1, <1>3, <1>4, <2>3
    <3>3. /\ MappingsOf[v][n][i].scenario \in DOMAIN job.dependencies
          /\ MappingsOf[v][n][i].model \in DOMAIN job.dependencies
      BY <1>1, <2>3, <3>2, MappingSides
    <3>4. ASSUME NEW d \in DOMAIN job.dependencies
          PROVE  \/ after[d] = job.dependencies[d]
                 \/ /\ after[d] # None /\ after[d].validity = "CURRENT"
                    /\ FromLatest(d, after[d]) /\ FromLatest(d, job.dependencies[d])
      <4>1. CASE d \in {p, q}
        BY <1>1, <1>8, <1>9, <1>11, <2>1, <4>1 DEF DependenciesOK
      <4>2. CASE d \notin {p, q}
        BY <1>9, <4>2
      <4>3. QED
        BY <4>1, <4>2
    <3>5. \A d \in {MappingsOf[v][n][i].scenario, MappingsOf[v][n][i].model} :
            \/ after[d] = job.dependencies[d]
            \/ /\ after[d] # None /\ after[d].validity = "CURRENT"
               /\ FromLatest(d, after[d]) /\ FromLatest(d, job.dependencies[d])
      BY <3>3, <3>4
    <3>6. v \in Validations /\ n \in Versions
      BY <1>1
    <3>7. QED
      BY <3>1, <3>2, <3>5, <3>6, LinkStays
  <2>4. QED
    BY <1>1, <1>3, <2>2, <2>3
<1>16. job'.at \in 1..Len(Mappings') + 1 /\ job'.at - 1 = job.at
  BY <1>1, <1>2, <1>3 DEF Mappings
<1>17. job'.results \subseteq Results
  BY <1>1, <1>2, <1>10
<1>18. DependenciesOK(job.dependencies)'
  BY <1>2, <1>14 DEF DependenciesOK, FromLatest
<1>19. QED
  BY <1>1, <1>2, <1>13, <1>15, <1>16, <1>17, <1>18 DEF JobInv

\* An edit makes every record and every command at most older.
LEMMA EditKeeps ==
  ASSUME IInv, NEW f \in Files, Edit(f)
  PROVE  IInv'
<1>1. /\ tree \in [Files -> Versions] /\ tree[f] < MaxVersion
      /\ tree' = [tree EXCEPT ![f] = @ + 1] /\ latest' = latest /\ job' = job
  BY DEF Edit, IInv
<1>2. tree' \in [Files -> Versions]
  BY <1>1, GraphAssumption DEF Versions
<1>3. \A g \in Files : tree[g] <= tree'[g]
  BY <1>1, GraphAssumption DEF Versions
<1>4. LatestInv'
  <2>1. ASSUME NEW r \in Records, latest[r] # None
        PROVE  RecordOK(r, latest[r], tree')
    <3>1. RecordOK(r, latest[r], tree)
      BY <2>1 DEF IInv, LatestInv
    <3>2. QED
      BY <1>1, <1>2, <1>3, <3>1, RecordKeeps
  <2>2. QED
    BY <1>1, <2>1 DEF IInv, LatestInv
<1>5. JobInv'
  <2>1. ASSUME job.pc = "running"
        PROVE  Older(job.item, job.inputs, tree')
    <3>1. /\ job.item \in Checks /\ job.inputs \in [InputsOf[job.item] -> Versions]
          /\ Older(job.item, job.inputs, tree)
      BY <2>1 DEF IInv, JobInv
    <3>2. SUFFICES ASSUME NEW g \in InputsOf[job.item]
                   PROVE  job.inputs[g] <= tree'[g]
      BY DEF Older
    <3>3. g \in Files /\ job.inputs[g] \in Nat /\ tree[g] \in Nat /\ tree'[g] \in Nat
      BY <1>1, <1>2, <3>1, GraphAssumption DEF Versions
    <3>4. job.inputs[g] <= tree[g] /\ tree[g] <= tree'[g]
      BY <1>3, <3>1, <3>3 DEF Older
    <3>5. QED
      BY <3>3, <3>4
  <2>2. ASSUME job.pc = "stamped"
        PROVE  RecordOK(job.item, job.record, tree')
    <3>1. job.item \in Records /\ RecordOK(job.item, job.record, tree)
      BY <2>2 DEF IInv, JobInv
    <3>2. QED
      BY <1>1, <1>2, <1>3, <3>1, RecordKeeps
  <2>3. JobInv
    BY DEF IInv
  <2>4. Mappings' = Mappings /\ Mapping' = Mapping
    BY <1>1 DEF Mapping, Mappings
  <2>5. \A d, a : FromLatest(d, a)' <=> FromLatest(d, a)
    BY <1>1 DEF FromLatest
  <2>6. DependenciesOK(job.dependencies)' <=> DependenciesOK(job.dependencies)
    BY <1>1 DEF DependenciesOK, FromLatest
  <2>7. FromLatest(Mapping.scenario, job.scenario)' <=> FromLatest(Mapping.scenario, job.scenario)
    BY <1>1, <2>4 DEF FromLatest
  <2> DEFINE m == Mapping
             ms == Mappings
  <2>8. /\ job.pc = "model" => job.scenario = None \/ SideOK(m.scenario, job.scenario)
        /\ Mapping' = m /\ Mappings' = ms /\ Mapping = m /\ Mappings = ms
    BY <2>3, <2>4 DEF JobInv
  <2> HIDE DEF m, ms
  <2>9. QED
    BY <1>1, <2>1, <2>2, <2>3, <2>6, <2>7, <2>8 DEF JobInv
<1>6. QED
  BY <1>2, <1>4, <1>5 DEF IInv

\* Starting and ending a check.
LEMMA RunKeeps ==
  ASSUME IInv, (\E d \in Checks \ Natives : StartRun(d)) \/ FinishRun
               \/ (\E n \in Natives : ReadReport(n)) \/ FinishImport
  PROVE  JobInv'
<1>1. tree \in [Files -> Versions] /\ tree' = tree
  BY DEF IInv, StartRun, FinishRun, ReadReport, FinishImport
<1>2. Natives \subseteq Checks
  BY DEF Checks
<1>3. ASSUME NEW d \in Checks \ Natives, StartRun(d)
      PROVE  JobInv'
  <2>1. Fingerprint(d) \in [InputsOf[d] -> Versions]
    BY <1>1, FingerprintIsVersions
  <2>2. Older(d, Fingerprint(d), tree)
    <3>1. \A f \in InputsOf[d] : Fingerprint(d)[f] = tree[f] /\ tree[f] \in Nat
      BY <1>1, GraphAssumption DEF Fingerprint, Versions
    <3>2. QED
      BY <3>1 DEF Older
  <2>3. job' = [pc |-> "running", item |-> d, inputs |-> Fingerprint(d)]
    BY <1>3 DEF StartRun
  <2>4. QED
    BY <1>1, <2>1, <2>2, <2>3 DEF JobInv
<1>4. ASSUME NEW d, NEW inputs, NEW seen, NEW found,
             d \in Checks, inputs \in [InputsOf[d] -> Versions],
             seen \in [InputsOf[d] -> Versions], found \in Found(d, seen),
             d \notin Natives => Older(d, inputs, seen) /\ Older(d, seen, tree),
             job' = Stamped(d, inputs, seen, found)
      PROVE  JobInv'
  <2>1. FoundOK(d, seen, found)
    BY <1>4, EverythingFound
  <2>2. CheckOK(d, job'.record, tree)
    BY <1>4, <2>1, StampedIsRecord
  <2>3. job'.pc = "stamped" /\ job'.item = d
    BY <1>4 DEF Stamped
  <2>4. RecordOK(job'.item, job'.record, tree') /\ job'.item \in Records
    BY <1>1, <1>4, <2>2, <2>3 DEF RecordOK, Records
  <2>5. QED
    BY <2>3, <2>4 DEF JobInv
<1>5. CASE FinishRun
  <2>1. job.item \in Checks \ Natives /\ job.inputs \in [InputsOf[job.item] -> Versions]
    BY <1>5 DEF FinishRun, IInv, JobInv
  <2>2. PICK seen \in Between(job.inputs, Fingerprint(job.item)) :
          \E found \in Found(job.item, seen) :
            job' = Stamped(job.item, job.inputs, seen, found)
    BY <1>5 DEF FinishRun
  <2>3. PICK found \in Found(job.item, seen) :
          job' = Stamped(job.item, job.inputs, seen, found)
    BY <2>2
  <2>4. /\ seen \in [InputsOf[job.item] -> Versions]
        /\ Older(job.item, job.inputs, seen) /\ Older(job.item, seen, tree)
    BY <1>1, <2>1, <2>2, BetweenIsBetween
  <2>5. QED
    BY <1>4, <2>1, <2>3, <2>4
<1>6. ASSUME NEW n \in Natives, ReadReport(n)
      PROVE  JobInv'
  <2>1. PICK seen \in Between([f \in InputsOf[n] |-> 0], Fingerprint(n)) :
          job' = [pc |-> "report", item |-> n, seen |-> seen]
    BY <1>6 DEF ReadReport
  <2>2. seen \in [InputsOf[n] -> Versions]
    BY DEF Between
  <2>3. QED
    BY <2>1, <2>2 DEF JobInv
<1>7. CASE FinishImport
  <2>1. job.item \in Natives /\ job.seen \in [InputsOf[job.item] -> Versions]
    BY <1>7 DEF FinishImport, IInv, JobInv
  <2>2. PICK found \in Found(job.item, job.seen) :
          job' = Stamped(job.item, Fingerprint(job.item), job.seen, found)
    BY <1>7 DEF FinishImport
  <2>3. Fingerprint(job.item) \in [InputsOf[job.item] -> Versions]
    BY <1>1, <1>2, <2>1, FingerprintIsVersions
  <2>4. QED
    BY <1>2, <1>4, <2>1, <2>2, <2>3
<1>8. QED
  BY <1>3, <1>5, <1>6, <1>7

\* Starting and ending a validation, and reading its scenarios.
LEMMA ValidationKeeps ==
  ASSUME IInv, (\E v \in Validations : StartValidation(v)) \/ ReadScenario \/ FinishValidation
  PROVE  JobInv'
<1>1. ASSUME NEW v \in Validations, StartValidation(v)
      PROVE  JobInv'
  <2>1. job' = [pc |-> "scenario", item |-> v, loaded |-> Present[v], at |-> 1,
                dependencies |-> <<>>, results |-> {}]
    BY <1>1 DEF StartValidation
  <2>2. Present[v] \in Versions
    BY PresentIsVersions DEF IInv
  <2>3. Len(MappingsOf[v][Present[v]]) \in Nat
    BY <2>2, GraphAssumption
  <2> DEFINE n == Present[v]
  <2> HIDE DEF n
  <2>4. /\ job'.pc = "scenario" /\ job'.item = v /\ job'.loaded = n /\ job'.at = 1
        /\ job'.dependencies = <<>> /\ job'.results = {}
    BY <2>1 DEF n
  <2>5. job'.at \in 1..Len(Mappings') + 1
    BY <2>3, <2>4 DEF Mappings, n
  <2>6. 1 - 1 = 0 /\ 1..0 = {} /\ DOMAIN <<>> = {} /\ Sides(v, n, 0) = {}
    <3>1. DOMAIN <<>> = {}
      OBVIOUS
    <3>2. 1 - 1 = 0 /\ 1..0 = {}
      OBVIOUS
    <3>3. Sides(v, n, 0) = {}
      BY <3>2 DEF Sides
    <3>4. QED
      BY <3>1, <3>2, <3>3
  <2>7. DependenciesOK(job.dependencies)'
    BY <2>4, <2>6 DEF DependenciesOK
  <2>8. n \in Versions
    BY <2>2 DEF n
  <2>9. QED
    BY <2>4, <2>5, <2>6, <2>7, <2>8 DEF JobInv
<1>2. CASE ReadScenario
  <2>1. /\ job.pc = "scenario" /\ job.item \in Validations /\ job.loaded \in Versions
        /\ job.at \in 1..Len(Mappings) + 1
        /\ job.at <= Len(Mappings) /\ JobInv /\ latest' = latest
        /\ job' = [pc |-> "model", item |-> job.item, loaded |-> job.loaded, at |-> job.at,
                   dependencies |-> job.dependencies, results |-> job.results,
                   scenario |-> Assess(Mapping.scenario)]
    BY <1>2 DEF ReadScenario, IInv, JobInv
  <2>2. Mapping.scenario \in Checks \ Natives
    <3>1. job.at \in DOMAIN MappingsOf[job.item][job.loaded]
      BY <2>1, GraphAssumption DEF Mappings
    <3>2. QED
      BY <2>1, <3>1, MappingSides DEF Mapping, Mappings
  <2>3. Assess(Mapping.scenario) = None \/ SideOK(Mapping.scenario, Assess(Mapping.scenario))
    BY <2>2, AssessmentIsSide
  <2>4. FromLatest(Mapping.scenario, Assess(Mapping.scenario))
    BY AssessmentIsFromLatest
  <2>5. /\ job'.pc = "model" /\ job'.item = job.item /\ job'.loaded = job.loaded
        /\ job'.at = job.at
        /\ job'.dependencies = job.dependencies /\ job'.results = job.results
        /\ job'.scenario = Assess(Mapping.scenario) /\ Mapping' = Mapping /\ Mappings' = Mappings
    BY <2>1 DEF Mapping, Mappings
  <2>6. /\ DependenciesOK(job.dependencies)' <=> DependenciesOK(job.dependencies)
        /\ FromLatest(Mapping.scenario, job.scenario)'
    BY <2>1, <2>4, <2>5 DEF DependenciesOK, FromLatest
  <2> DEFINE m == Mapping
             ms == Mappings
             a == Assess(Mapping.scenario)
  <2>7. /\ job'.scenario = a /\ Mapping' = m /\ (a = None \/ SideOK(m.scenario, a))
        /\ Mappings' = ms /\ Mappings = ms
    BY <2>3, <2>5
  <2> HIDE DEF m, a, ms
  <2>8. QED
    BY <2>1, <2>5, <2>6, <2>7 DEF JobInv
<1>3. CASE FinishValidation
  <2> DEFINE v == job.item
             n == job.loaded
             r == [definition |-> Present[v], loaded |-> n, dependencies |-> job.dependencies,
                   result |-> Combined(job.results)]
  <2>1. /\ job.pc = "scenario" /\ v \in Validations /\ n \in Versions
        /\ job.at > Len(MappingsOf[v][n]) /\ job.at \in 1..Len(MappingsOf[v][n]) + 1
        /\ JobInv /\ tree \in [Files -> Versions] /\ tree' = tree
        /\ job' = [pc |-> "stamped", item |-> v, record |-> r]
    BY <1>3 DEF FinishValidation, IInv, JobInv, Mappings
  <2>2. Len(MappingsOf[v][n]) \in Nat /\ DOMAIN MappingsOf[v][n] = 1..Len(MappingsOf[v][n])
    BY <2>1, GraphAssumption
  <2>3. job.at - 1 = Len(MappingsOf[v][n])
    BY <2>1, <2>2
  <2>4. r.definition \in Versions /\ r.result \in Results
    BY <2>1, CombinedIsResult, PresentIsVersions
  <2>5. DOMAIN job.dependencies = Sides(v, n, Len(MappingsOf[v][n]))
    BY <2>1, <2>3 DEF JobInv
  <2>6. \A d \in DOMAIN job.dependencies : job.dependencies[d] \in DependencyRecord \cup {None}
    BY <2>1 DEF JobInv, DependenciesOK
  <2>7. ASSUME r.result = "PASS", NEW i \in DOMAIN MappingsOf[v][n]
        PROVE  Linked(v, n, i, job.dependencies)
    <3>1. job.results \subseteq {"PASS"}
      BY <2>7, CombinedIsResult
    <3>2. i \in 1..job.at - 1
      BY <2>2, <2>3
    <3>3. QED
      BY <2>1, <3>1, <3>2 DEF JobInv
  <2>8. r.loaded = n /\ r.dependencies = job.dependencies
    OBVIOUS
  <2> HIDE DEF r
  <2>9. ValidationOK(v, r)
    BY <2>1, <2>4, <2>5, <2>6, <2>7, <2>8 DEF ValidationOK
  <2>10. RecordOK(v, r, tree) /\ v \in Records
    BY <2>1, <2>9, GraphAssumption DEF RecordOK, Records
  <2>11. job'.pc = "stamped" /\ job'.item = v /\ job'.record = r
    BY <2>1
  <2>12. QED
    BY <2>1, <2>10, <2>11 DEF JobInv
<1>4. QED
  BY <1>1, <1>2, <1>3

LEMMA StoreKeeps ==
  ASSUME IInv, Store
  PROVE  IInv'
<1>1. /\ job.pc = "stamped" /\ job.item \in Records /\ RecordOK(job.item, job.record, tree)
      /\ latest' = [latest EXCEPT ![job.item] = job.record] /\ job' = Idle
      /\ tree \in [Files -> Versions] /\ tree' = tree /\ LatestInv
  BY DEF Store, IInv, JobInv
<1>2. LatestInv'
  <2>1. DOMAIN latest' = Records
    BY <1>1 DEF LatestInv
  <2>2. ASSUME NEW r \in Records
        PROVE  latest'[r] = None \/ RecordOK(r, latest'[r], tree')
    <3>1. CASE r = job.item
      BY <1>1, <3>1 DEF LatestInv
    <3>2. CASE r # job.item
      <4>1. latest'[r] = latest[r]
        BY <1>1, <3>2 DEF LatestInv
      <4>2. QED
        BY <1>1, <4>1 DEF LatestInv
    <3>3. QED
      BY <3>1, <3>2
  <2>3. QED
    BY <2>1, <2>2 DEF LatestInv
<1>3. JobInv'
  BY <1>1 DEF Idle, JobInv
<1>4. QED
  BY <1>1, <1>2, <1>3 DEF IInv

LEMMA InvNext == IInv /\ [Next]_vars => IInv'
<1> SUFFICES ASSUME IInv, [Next]_vars PROVE IInv'
  OBVIOUS
<1>1. ASSUME UNCHANGED <<tree, latest>>, JobInv'
      PROVE  IInv'
  BY <1>1 DEF IInv, LatestInv
<1>2. CASE (\E d \in Checks \ Natives : StartRun(d)) \/ FinishRun
           \/ (\E n \in Natives : ReadReport(n)) \/ FinishImport
  <2>1. UNCHANGED <<tree, latest>>
    BY <1>2 DEF StartRun, FinishRun, ReadReport, FinishImport
  <2>2. QED
    BY <1>1, <1>2, <2>1, RunKeeps
<1>3. CASE (\E v \in Validations : StartValidation(v)) \/ ReadScenario \/ FinishValidation
  <2>1. UNCHANGED <<tree, latest>>
    BY <1>3 DEF StartValidation, ReadScenario, FinishValidation
  <2>2. QED
    BY <1>1, <1>3, <2>1, ValidationKeeps
<1>4. CASE ReadModel
  <2>1. UNCHANGED <<tree, latest>>
    BY <1>4 DEF ReadModel
  <2>2. QED
    BY <1>1, <1>4, <2>1, ReadModelKeeps
<1>5. CASE Store
  BY <1>5, StoreKeeps
<1>6. CASE JobFails
  <2>1. job' = Idle /\ UNCHANGED <<tree, latest>>
    BY <1>6 DEF JobFails
  <2>2. JobInv'
    BY <2>1 DEF Idle, JobInv
  <2>3. QED
    BY <1>1, <2>1, <2>2
<1>7. CASE \E f \in Files : Edit(f)
  BY <1>7, EditKeeps
<1>8. CASE UNCHANGED vars
  BY <1>8 DEF vars, IInv, LatestInv, JobInv, Mapping, Mappings, DependenciesOK, FromLatest
<1>9. QED
  BY <1>2, <1>3, <1>4, <1>5, <1>6, <1>7, <1>8 DEF Next

\* What is recorded stays truthful, and what has been seen stays between the
\* hashed inputs and the files, whatever is run and edited in whatever order.
THEOREM GraphInvariantHolds == Spec => []IInv
<1>1. Init => IInv
  BY InvInit
<1>2. IInv /\ [Next]_vars => IInv'
  BY InvNext
<1>3. QED
  BY <1>1, <1>2, PTL DEF Spec

-----------------------------------------------------------------------------
(* The properties                                                          *)

LEMMA DependenciesAreTyped ==
  ASSUME NEW map, \A d \in DOMAIN map : map[d] \in DependencyRecord \cup {None}
  PROVE  IsDependencies(map)
  BY DEF IsDependencies, IsDependency, DependencyRecord

LEMMA RecordsAreTyped ==
  ASSUME NEW r \in Records, NEW record, RecordOK(r, record, tree)
  PROVE  IsRecord(r, record)
<1>1. CASE r \in Checks
  BY <1>1 DEF RecordOK, CheckOK, IsRecord
<1>2. CASE r \notin Checks
  BY <1>2, DependenciesAreTyped DEF RecordOK, ValidationOK, IsRecord
<1>3. QED
  BY <1>1, <1>2

\* Records and commands have what their kinds of evidence have.
THEOREM GraphTypeCorrect == Spec => []TypeOK
<1>1. ASSUME IInv
      PROVE  TypeOK
  <2>1. tree \in [Files -> Versions]
    BY <1>1 DEF IInv
  <2>2. \A r \in Records : latest[r] = None \/ IsRecord(r, latest[r])
    BY <1>1, RecordsAreTyped DEF IInv, LatestInv
  <2>3. JobInv
    BY <1>1 DEF IInv
  <2>4. JobOK
    <3>1. CASE job.pc = "idle"
      BY <2>3, <3>1 DEF JobInv, JobOK
    <3>2. CASE job.pc = "running"
      <4>1. job.item \in Checks /\ job.inputs \in InputVersions
        BY <2>3, <3>2, InputsAreVersions DEF JobInv
      <4>2. QED
        BY <3>2, <4>1 DEF JobOK
    <3>3. CASE job.pc = "report"
      <4>1. job.item \in Natives /\ job.seen \in InputVersions
        BY <2>3, <3>3, InputsAreVersions DEF JobInv, Checks
      <4>2. QED
        BY <3>3, <4>1 DEF JobOK
    <3>4. CASE job.pc = "stamped"
      <4>1. job.item \in Records /\ IsRecord(job.item, job.record)
        BY <2>3, <3>4, RecordsAreTyped DEF JobInv
      <4>2. QED
        BY <3>4, <4>1 DEF JobOK
    <3>5. CASE job.pc \in {"scenario", "model"}
      <4>1. /\ job.item \in Validations
            /\ job.loaded \in Versions
            /\ job.at \in 1..Len(Mappings) + 1
            /\ DOMAIN job.dependencies = Sides(job.item, job.loaded, job.at - 1)
            /\ job.results \subseteq Results
            /\ job.pc = "model" => job.scenario \in Assessment \cup {None}
        BY <2>3, <3>5 DEF JobInv, SideOK
      <4>2. IsDependencies(job.dependencies)
        BY <2>3, <3>5, DependenciesAreTyped DEF JobInv, DependenciesOK
      <4>3. QED
        BY <3>5, <4>1, <4>2 DEF JobOK
    <3>6. QED
      BY <2>3, <3>1, <3>2, <3>3, <3>4, <3>5 DEF JobInv
  <2>5. QED
    BY <2>1, <2>2, <2>4 DEF TypeOK
<1>2. QED
  BY <1>1, GraphInvariantHolds, PTL

\* A verdict that is current was found on the files as they are: the inputs
\* were hashed before the tool started.
THEOREM VerdictsAreOfPresentFiles == Spec => []CurrentVerdictIsOfPresentFiles
<1>1. ASSUME IInv
      PROVE  CurrentVerdictIsOfPresentFiles
  <2>1. SUFFICES ASSUME NEW d \in Checks \ Natives, latest[d] # None,
                        Assess(d).validity = "CURRENT"
                 PROVE  latest[d].seen = Fingerprint(d)
    BY DEF CurrentVerdictIsOfPresentFiles
  <2>2. CheckOK(d, latest[d], tree) /\ tree \in [Files -> Versions]
    BY <1>1, <2>1 DEF IInv, LatestInv, RecordOK, Records
  <2>3. latest[d].inputs = Fingerprint(d)
    BY <2>1 DEF Assess
  <2>4. QED
    BY <2>2, <2>3, CurrentHasSeen
<1>2. QED
  BY <1>1, GraphInvariantHolds, PTL

\* What current evidence says of a check is what a complete run would say now.
LEMMA CurrentIsFresh ==
  ASSUME IInv, NEW d \in Checks, latest[d] # None, Assess(d).validity = "CURRENT",
         ~Misattributed(d),
         \/ Assess(d).result = "PASS"
         \/ d \in Scenarios /\ Assess(d).result \in Complete
  PROVE  Fresh(d) = Assess(d).result
<1>1. CheckOK(d, latest[d], tree) /\ tree \in [Files -> Versions]
  BY DEF IInv, LatestInv, RecordOK, Records
<1>2. latest[d].inputs = Fingerprint(d) /\ Assess(d).result = latest[d].result
  BY DEF Assess
<1>3. latest[d].seen = Fingerprint(d)
  <2>1. CASE d \in Natives
    BY <1>2, <2>1 DEF Misattributed
  <2>2. CASE d \notin Natives
    BY <1>1, <1>2, <2>2, CurrentHasSeen
  <2>3. QED
    BY <2>1, <2>2
<1>4. Truthful(d, latest[d].seen, latest[d].result)
  BY <1>1 DEF CheckOK, FoundOK
<1>5. QED
  BY <1>2, <1>3, <1>4 DEF Truthful, Fresh, Complete

LEMMA ValidationIsRight ==
  ASSUME IInv, NEW v \in Validations, latest[v] # None,
         AssessValidation(v).result = "PASS", AssessValidation(v).validity = "CURRENT"
  PROVE  Corresponds(v, latest[v].loaded)
<1> DEFINE n == latest[v].loaded
<1>1. ValidationOK(v, latest[v])
  BY GraphAssumption DEF IInv, LatestInv, RecordOK, Records
<1>2. latest[v].result = "PASS" /\ latest[v].dependencies = Dependencies(v)
  BY DEF AssessValidation
<1>3. SUFFICES ASSUME NEW i \in DOMAIN MappingsOf[v][n]
               PROVE  LET m == MappingsOf[v][n][i]
                      IN  /\ Fresh(m.scenario) = m.expected
                          /\ Fresh(m.model) = "PASS"
                          /\ \E trace \in TracesOf(m.scenario, Fingerprint(m.scenario)) :
                               Subsequence(m.pattern, trace)
  BY DEF Corresponds
<1> DEFINE m == MappingsOf[v][n][i]
           s == m.scenario
           t == m.model
<1>4. n \in Versions /\ i \in 1..Len(MappingsOf[v][n]) /\ Len(MappingsOf[v][n]) \in Nat
  BY <1>1, GraphAssumption DEF ValidationOK
<1>5. /\ s \in Scenarios /\ t \in Models
      /\ s \in Checks \ Natives /\ t \in Checks \ Natives
      /\ s \in Sides(v, n, Len(MappingsOf[v][n])) /\ t \in Sides(v, n, Len(MappingsOf[v][n]))
  BY <1>4, MappingSides
<1>6. Linked(v, n, i, Dependencies(v)) /\ s \in DOMAIN Dependencies(v) /\ t \in DOMAIN Dependencies(v)
  BY <1>1, <1>2, <1>5 DEF ValidationOK
<1>7. Dependencies(v)[s] = Dependency(Assess(s)) /\ Dependencies(v)[t] = Dependency(Assess(t))
  BY <1>6 DEF Dependencies
<1>8. /\ Dependency(Assess(s)) # None /\ Dependency(Assess(t)) # None
      /\ Dependency(Assess(s)).validity = "CURRENT" /\ Dependency(Assess(t)).validity = "CURRENT"
      /\ Dependency(Assess(s)).result \in Complete /\ Dependency(Assess(s)).result = m.expected
      /\ Dependency(Assess(t)).result = "PASS"
      /\ \E trace \in TracesOf(s, Dependency(Assess(s)).inputs) : Subsequence(m.pattern, trace)
  BY <1>6, <1>7 DEF Linked
<1>9. Assess(s) # None /\ Assess(t) # None
  BY <1>8 DEF Dependency
<1>10. latest[s] # None /\ latest[t] # None
  BY <1>9 DEF Assess
<1>11. /\ Dependency(Assess(s)).result = Assess(s).result
       /\ Dependency(Assess(s)).validity = Assess(s).validity
       /\ Dependency(Assess(s)).inputs = Assess(s).inputs
       /\ Dependency(Assess(t)).result = Assess(t).result
       /\ Dependency(Assess(t)).validity = Assess(t).validity
  BY <1>9 DEF Dependency
<1>12. Assess(s).inputs = Fingerprint(s)
  <2>1. Assess(s).validity = "CURRENT"
    BY <1>8, <1>11
  <2>2. QED
    BY <1>10, <2>1 DEF Assess
<1>13. ~Misattributed(s) /\ ~Misattributed(t)
  BY <1>5, GraphAssumption DEF Misattributed
<1>14. Fresh(s) = Assess(s).result /\ Fresh(t) = Assess(t).result
  BY <1>5, <1>8, <1>10, <1>11, <1>13, CurrentIsFresh
<1>15. QED
  BY <1>8, <1>11, <1>12, <1>14

\* What a validation that is current and passes has evaluated is right about
\* the files as they are, for any number of mappings, whenever the evidence was
\* read.  Nothing says that the definition is still the one evaluated: that is
\* false of the code (CurrentValidationFitsDefinition).
THEOREM ValidationsCorrespond == Spec => []CurrentValidationCorresponds
<1>1. ASSUME IInv
      PROVE  CurrentValidationCorresponds
  <2>1. SUFFICES ASSUME NEW v \in Validations, latest[v] # None,
                        AssessValidation(v) = [result |-> "PASS", validity |-> "CURRENT"]
                 PROVE  Corresponds(v, latest[v].loaded)
    BY DEF CurrentValidationCorresponds
  <2>2. AssessValidation(v).result = "PASS" /\ AssessValidation(v).validity = "CURRENT"
    BY <2>1
  <2>3. QED
    BY <1>1, <2>1, <2>2, ValidationIsRight
<1>2. QED
  BY <1>1, GraphInvariantHolds, PTL

\* What is reported as a current PASS holds of the files as they are, unless it
\* is misattributed: a validation that is current and stamped with what it has
\* evaluated has evaluated the definition as it is.
LEMMA ReportedHolds ==
  ASSUME IInv, NEW r \in Records, ~Misattributed(r),
         LatestAssessment(r) # None, LatestAssessment(r).result = "PASS",
         LatestAssessment(r).validity = "CURRENT"
  PROVE  Holds(r)
<1>1. CASE r \in Validations
  <2>1. LatestAssessment(r) = AssessValidation(r)
    BY <1>1 DEF LatestAssessment
  <2>2. latest[r] # None
    BY <2>1 DEF AssessValidation
  <2>3. Corresponds(r, latest[r].loaded)
    BY <1>1, <2>1, <2>2, ValidationIsRight
  <2>4. latest[r].definition = Present[r]
    BY <2>1, <2>2 DEF AssessValidation
  <2>5. latest[r].loaded = latest[r].definition
    BY <1>1, <2>2 DEF Misattributed
  <2>6. QED
    BY <1>1, <2>3, <2>4, <2>5 DEF Holds
<1>2. CASE r \notin Validations
  <2>1. LatestAssessment(r) = Assess(r) /\ r \in Checks
    BY <1>2 DEF LatestAssessment, Records
  <2>2. latest[r] # None
    BY <2>1 DEF Assess
  <2>3. Fresh(r) = "PASS"
    BY <2>1, <2>2, CurrentIsFresh
  <2>4. QED
    BY <1>2, <2>3 DEF Holds
<1>3. QED
  BY <1>1, <1>2

LEMMA ParentPasses ==
  ASSUME NEW required, NEW children, ParentResult(required, children) = "PASS"
  PROVE  /\ required # {}
         /\ \A c \in required : children[c].result = "PASS" /\ children[c].validity = "CURRENT"
  BY DEF ParentResult

\* What diagnose does not list, nor waives, holds.
LEMMA DiagnosisAccepts ==
  ASSUME NEW policy, NEW findings, NEW now, DiagnoseResult(policy, findings, now) # "ATTENTION"
  PROVE  findings \subseteq {o \in DOMAIN policy : policy[o] > now}
<1>1. findings = {} \/ findings \subseteq Active(policy, now)
  BY DEF DiagnoseResult
<1>2. QED
  BY <1>1 DEF Active

\* A diagnosis that accepts hides nothing but evidence that is misattributed,
\* for any policy, any number of checks, validations and parents, any meaning of
\* the files and any versions of the definitions.
THEOREM AcceptancesAreWarranted == Spec => []AcceptanceIsWarranted
<1>1. ASSUME IInv
      PROVE  AcceptanceIsWarranted
  <2> DEFINE warranted == {r \in Records : Holds(r) \/ Misattributed(r)}
  <2>1. SUFFICES ASSUME NEW policy \in Policies, NEW now \in Times,
                        DiagnoseResult(policy, Findings, now) # "ATTENTION"
                 PROVE  LET waived == {o \in DOMAIN policy : policy[o] > now}
                        IN  /\ Records \subseteq waived \cup warranted
                            /\ \A p \in Parents :
                                 \/ p \in waived
                                 \/ /\ ChildrenOf[p] # <<>>
                                    /\ \A k \in DOMAIN ChildrenOf[p] :
                                         ChildrenOf[p][k] \in warranted
    BY DEF AcceptanceIsWarranted
  <2> DEFINE waived == {o \in DOMAIN policy : policy[o] > now}
  <2>2. Findings \subseteq waived
    BY <2>1, DiagnosisAccepts
  <2> HIDE DEF waived
  <2>3. ASSUME NEW r \in Records, r \notin waived
        PROVE  r \in warranted
    <3>1. ~NeedsAttention(LatestAssessment(r))
      BY <2>2, <2>3 DEF Findings
    <3>2. QED
      BY <1>1, <2>3, <3>1, ReportedHolds DEF NeedsAttention
  <2>4. ASSUME NEW p \in Parents, p \notin waived
        PROVE  /\ ChildrenOf[p] # <<>>
               /\ \A k \in DOMAIN ChildrenOf[p] : ChildrenOf[p][k] \in warranted
    <3> DEFINE names == {ChildrenOf[p][k] : k \in DOMAIN ChildrenOf[p]}
    <3>1. ParentStatus(p) = "PASS"
      BY <2>2, <2>4 DEF Findings
    <3>2. /\ DOMAIN Children(p) = names
          /\ \A c \in names : Children(p)[c] = ChildOf(LatestAssessment(c))
      BY DEF Children
    <3>3. /\ names # {}
          /\ \A c \in names : /\ ChildOf(LatestAssessment(c)).result = "PASS"
                              /\ ChildOf(LatestAssessment(c)).validity = "CURRENT"
      <4>1. ParentResult(names, Children(p)) = "PASS"
        BY <3>1, <3>2 DEF ParentStatus
      <4> HIDE DEF names
      <4>2. QED
        BY <3>2, <4>1, ParentPasses
    <3>4. ASSUME NEW k \in DOMAIN ChildrenOf[p]
          PROVE  ChildrenOf[p][k] \in warranted
      <4> DEFINE c == ChildrenOf[p][k]
      <4>1. c \in Records
        BY GraphAssumption
      <4>2. /\ ChildOf(LatestAssessment(c)).result = "PASS"
            /\ ChildOf(LatestAssessment(c)).validity = "CURRENT"
        BY <3>3
      <4>3. /\ LatestAssessment(c) # None /\ LatestAssessment(c).result = "PASS"
            /\ LatestAssessment(c).validity = "CURRENT"
        BY <4>2 DEF ChildOf
      <4>4. QED
        BY <1>1, <4>1, <4>3, ReportedHolds
    <3>5. DOMAIN ChildrenOf[p] # {}
      BY <3>3
    <3>6. ChildrenOf[p] # <<>>
      BY <3>5
    <3>7. QED
      BY <3>4, <3>6
  <2> HIDE DEF warranted
  <2>5. Records \subseteq waived \cup warranted
    BY <2>3
  <2>6. QED
    BY <2>4, <2>5 DEF waived
<1>2. QED
  BY <1>1, GraphInvariantHolds, PTL

-----------------------------------------------------------------------------
(* Impact                                                                  *)

\* What a closed set of obligations does not name keeps its standing.
LEMMA OutsideKeeps ==
  ASSUME tree \in [Files -> Versions], NEW f \in Files, Edit(f),
         NEW S \in SUBSET Obligations,
         \A e \in Edges(Present) : e[1] \in S \cup {f} => e[2] \in S,
         NEW o \in Obligations \ S
  PROVE  Standing(o)' = Standing(o)
<1>1. latest' = latest /\ \A g \in Files : g # f => tree'[g] = tree[g]
  BY DEF Edit
<1>2. ASSUME NEW d \in Checks, d \notin S
      PROVE  Assess(d)' = Assess(d)
  <2>1. f \notin InputsOf[d]
    <3>1. SUFFICES ASSUME f \in InputsOf[d] PROVE FALSE
      OBVIOUS
    <3>2. <<f, d>> \in Edges(Present)
      BY <3>1 DEF Edges, Relevant
    <3>3. QED
      BY <1>2, <3>2
  <2>2. Fingerprint(d)' = Fingerprint(d)
    BY <1>1, <2>1, GraphAssumption DEF Fingerprint
  <2>3. QED
    BY <1>1, <2>2 DEF Assess
<1>3. ASSUME NEW v \in Validations, v \notin S
      PROVE  AssessValidation(v)' = AssessValidation(v)
  <2>1. DefinedIn[v] # f
    <3>1. <<DefinedIn[v], v>> \in Edges(Present)
      BY DEF Edges, Relevant
    <3>2. QED
      BY <1>3, <3>1
  <2>2. Present'[v] = Present[v]
    BY <1>1, <2>1, GraphAssumption DEF Present
  <2> DEFINE n == Present[v]
             sides == Sides(v, n, Len(MappingsOf[v][n]))
  <2>3. ASSUME NEW d \in sides
        PROVE  Assess(d)' = Assess(d)
    <3>1. n \in Versions
      BY PresentIsVersions
    <3>2. PICK i \in 1..Len(MappingsOf[v][n]) :
            d \in {MappingsOf[v][n][i].scenario, MappingsOf[v][n][i].model}
      BY <2>3 DEF Sides
    <3>3. i \in DOMAIN MappingsOf[v][n]
      BY <3>1, GraphAssumption
    <3>4. d \in Checks
      BY <3>1, <3>2, <3>3, MappingSides
    <3>5. <<v, d>> \in Requires(Present)
      BY DEF Requires
    <3>6. <<d, v>> \in Edges(Present)
      BY <3>5 DEF Edges
    <3>7. d \notin S
      BY <1>3, <3>6
    <3>8. QED
      BY <1>2, <3>4, <3>7
  <2>4. Dependencies(v) = [d \in sides |-> Dependency(Assess(d))]
    BY DEF Dependencies
  <2>5. Dependencies(v)' = [d \in sides |-> Dependency(Assess(d)')]
    BY <2>2 DEF Dependencies, Dependency
  <2> HIDE DEF sides
  <2>6. Dependencies(v)' = Dependencies(v)
    BY <2>3, <2>4, <2>5
  <2>7. QED
    BY <1>1, <2>2, <2>6 DEF AssessValidation
<1>4. ASSUME NEW r \in Records, r \notin S
      PROVE  LatestAssessment(r)' = LatestAssessment(r)
  <2>1. CASE r \in Validations
    BY <1>3, <1>4, <2>1 DEF LatestAssessment
  <2>2. CASE r \notin Validations
    BY <1>2, <1>4, <2>2 DEF LatestAssessment, Records
  <2>3. QED
    BY <2>1, <2>2
<1>5. ASSUME NEW p \in Parents, p \notin S
      PROVE  ParentStatus(p)' = ParentStatus(p)
  <2>1. ASSUME NEW k \in DOMAIN ChildrenOf[p]
        PROVE  LatestAssessment(ChildrenOf[p][k])' = LatestAssessment(ChildrenOf[p][k])
    <3> DEFINE c == ChildrenOf[p][k]
    <3>1. c \in Records
      BY GraphAssumption
    <3>2. <<p, c>> \in Requires(Present)
      BY DEF Requires
    <3> HIDE DEF c
    <3>3. <<c, p>> \in Edges(Present)
      BY <3>2 DEF Edges
    <3>4. c \notin S
      BY <1>5, <3>3
    <3>5. LatestAssessment(c)' = LatestAssessment(c)
      BY <1>4, <3>1, <3>4
    <3>6. QED
      BY <3>5 DEF c
  <2>2. Children(p)' = Children(p)
    BY <2>1 DEF Children, ChildOf
  <2>3. QED
    BY <2>2 DEF ParentStatus
<1>6. QED
  BY <1>4, <1>5 DEF Standing, Obligations

\* An edit changes the standing of nothing that its impact does not name,
\* through any number of links between records and parents.
THEOREM ImpactsAreComplete == Spec => ImpactIsComplete
<1>1. ASSUME IInv, [Next]_vars
      PROVE  \A f \in Files : tree'[f] # tree[f] =>
               \A o \in Obligations \ ImpactOf[Present][f] : Standing(o)' = Standing(o)
  <2>1. SUFFICES ASSUME NEW f \in Files, tree'[f] # tree[f],
                        NEW o \in Obligations \ ImpactOf[Present][f]
                 PROVE  Standing(o)' = Standing(o)
    OBVIOUS
  <2>2. tree \in [Files -> Versions]
    BY <1>1 DEF IInv
  <2>3. PICK g \in Files : Edit(g)
    BY <1>1, <2>1 DEF Next, vars, StartRun, ReadReport, StartValidation, FinishRun, FinishImport,
       ReadScenario, ReadModel, FinishValidation, Store, JobFails
  <2>4. Edit(f)
    BY <2>1, <2>2, <2>3 DEF Edit
  <2>5. PICK S \in SUBSET Obligations :
          (\A e \in Edges(Present) : e[1] \in S \cup {f} => e[2] \in S) /\ o \notin S
    <3>1. Present \in [Validations -> Versions]
      BY <2>2, PresentIsVersions
    <3>2. ImpactOf[Present][f] =
            {x \in Obligations : \A S \in SUBSET (Obligations \ {x}) :
               \E e \in Edges(Present) : (e[1] = f \/ e[1] \in S) /\ e[2] \notin S}
      BY <3>1 DEF ImpactOf
    <3>3. QED
      BY <2>1, <3>2
  <2>6. QED
    BY <2>1, <2>2, <2>4, <2>5, OutsideKeeps
<1>2. QED
  BY <1>1, GraphInvariantHolds, PTL DEF Spec, ImpactIsComplete

-----------------------------------------------------------------------------
(***************************************************************************)
(* Bundles, for any records, contents, keys and any amount of damage.  The *)
(* argument is one of order: nothing that verify goes by is there before   *)
(* the hashes are complete, and the hashes do not change from then on, so  *)
(* whatever parses is what the creator meant it to be.                     *)
(***************************************************************************)

Stages == {"idle", "list", "copy", "manifest", "sign", "signature", "done", "stopped"}

Creators ==
  [pc : Stages, key : Keys \cup {Absent}, unlisted : SUBSET Directories,
   found : SUBSET Directories, listed : SUBSET Paths, hashes : PartialData]

Bundles ==
  [exists : BOOLEAN, data : PartialData, manifest : PartialData \cup {Absent, Partial},
   signature : SignatureFiles \cup {Absent, Partial}]

\* The records with their fields, which BundleTypeOK does not need to name.
FieldsOK ==
  /\ stored \subseteq Bundled
  /\ artifact \in Contents \cup {Torn}
  /\ damage \in 0..MaxDamage
  /\ creator \in Creators /\ creator.unlisted \subseteq creator.found
  /\ creator.pc \in {"sign", "signature"} => creator.key # Absent
  /\ bundle \in Bundles

StartOK == ~bundle.exists => bundle = NoBundle /\ creator = Dead

Early == {"idle", "list", "copy"}
Late == {"manifest", "sign", "signature", "done"}

\* What the stages have in common: before the manifest there is nothing to go
\* by; from it on every listed file is hashed; a signature takes a key.
OrderInv ==
  /\ creator.pc \in {"idle", "list"} => bundle.data = <<>> /\ creator.hashes = <<>>
  /\ creator.pc \in Early => bundle.manifest = Absent /\ bundle.signature = Absent
  /\ creator.pc \in {"manifest", "sign"} => bundle.signature = Absent
  /\ creator.pc = "manifest" => bundle.manifest = Partial
  /\ creator.pc \in Late => DOMAIN creator.hashes = creator.listed
  /\ creator.pc \notin {"done", "stopped"} => damage = 0
  /\ Parses(bundle.manifest) =>
       bundle.manifest = creator.hashes /\ DOMAIN creator.hashes = creator.listed
  /\ Parses(bundle.signature) =>
       /\ creator.key # Absent
       /\ bundle.signature = [key |-> creator.key, manifest |-> creator.hashes]

\* As long as nothing is damaged, what has been hashed has been copied, and
\* after the last stage all of it is there.
CopyInv ==
  damage = 0 =>
    /\ creator.pc \in {"copy"} \cup Late =>
         /\ DOMAIN creator.hashes \subseteq DOMAIN bundle.data
         /\ DOMAIN bundle.data \subseteq creator.listed
         /\ \A p \in DOMAIN creator.hashes : bundle.data[p] = creator.hashes[p]
    /\ creator.pc \in Late => bundle.data = creator.hashes
    /\ creator.pc \in {"sign", "signature", "done"} => bundle.manifest = creator.hashes
    /\ creator.pc = "done" =>
         bundle.signature = IF creator.key = Absent THEN Absent
                            ELSE [key |-> creator.key, manifest |-> creator.hashes]

-----------------------------------------------------------------------------

LEMMA WithIsData ==
  ASSUME NEW f \in PartialData, NEW p \in Paths, NEW v \in Bytes
  PROVE  /\ With(f, p, v) \in PartialData
         /\ DOMAIN With(f, p, v) = DOMAIN f \cup {p}
         /\ \A q \in DOMAIN f \ {p} : With(f, p, v)[q] = f[q]
         /\ With(f, p, v)[p] = v
<1>1. PICK S \in SUBSET Paths : f \in [S -> Bytes]
  BY DEF PartialData
<1>2. With(f, p, v) \in [S \cup {p} -> Bytes]
  BY <1>1 DEF With
<1>3. S \cup {p} \in SUBSET Paths
  OBVIOUS
<1>4. QED
  BY <1>1, <1>2, <1>3 DEF PartialData, With

LEMMA DataApplied ==
  ASSUME NEW f \in PartialData
  PROVE  DOMAIN f \subseteq Paths /\ \A p \in DOMAIN f : f[p] \in Bytes
  BY DEF PartialData

LEMMA DataRestricted ==
  ASSUME NEW f \in PartialData, NEW p
  PROVE  [q \in DOMAIN f \ {p} |-> f[q]] \in PartialData
<1>1. PICK S \in SUBSET Paths : f \in [S -> Bytes]
  BY DEF PartialData
<1>2. [q \in DOMAIN f \ {p} |-> f[q]] \in [S \ {p} -> Bytes]
  BY <1>1
<1>3. QED
  BY <1>2 DEF PartialData

LEMMA SameData ==
  ASSUME NEW f \in PartialData, NEW g \in PartialData, DOMAIN f = DOMAIN g,
         \A p \in DOMAIN f : f[p] = g[p]
  PROVE  f = g
<1>1. PICK S \in SUBSET Paths : f \in [S -> Bytes]
  BY DEF PartialData
<1>2. PICK T \in SUBSET Paths : g \in [T -> Bytes]
  BY DEF PartialData
<1>3. S = T
  BY <1>1, <1>2
<1>4. f = [p \in S |-> f[p]] /\ g = [p \in S |-> g[p]]
  BY <1>1, <1>2, <1>3
<1>5. [p \in S |-> f[p]] = [p \in S |-> g[p]]
  BY <1>1
<1>6. QED
  BY <1>4, <1>5

LEMMA NothingIsData == <<>> \in PartialData
<1>1. <<>> \in [{} -> Bytes]
  OBVIOUS
<1>2. QED
  BY <1>1 DEF PartialData

\* Parts of a bundle that parse are not mistaken for parts that do not.
LEMMA DataParses ==
  /\ \A f \in PartialData : Parses(f)
  /\ \A s \in SignatureFiles : Parses(s)
  /\ ~Parses(Absent) /\ ~Parses(Partial) /\ Absent \notin Keys
  BY BundleAssumption DEF Parses

LEMMA SourceIsBytes ==
  ASSUME FieldsOK, NEW p \in Paths
  PROVE  Source(p) \in Bytes
  BY DEF FieldsOK, Source, Bytes, Paths

-----------------------------------------------------------------------------

LEMMA DeadIsCreator == Dead \in Creators /\ Dead.unlisted \subseteq Dead.found /\ Dead.pc = "idle"
  BY NothingIsData DEF Dead, Creators, Stages

LEMMA NoBundleIsBundle == NoBundle \in Bundles /\ NoBundle.exists = FALSE
  BY NothingIsData DEF NoBundle, Bundles

LEMMA FieldsInit == BundleInit => FieldsOK
  BY DeadIsCreator, NoBundleIsBundle, BundleAssumption DEF BundleInit, FieldsOK

LEMMA FieldsNext == FieldsOK /\ [BundleNext]_bundleVars => FieldsOK'
<1> SUFFICES ASSUME FieldsOK, [BundleNext]_bundleVars
             PROVE  FieldsOK'
  OBVIOUS
<1> USE BundleAssumption DEF Creators, Bundles, Stages
<1>1. ASSUME NEW r \in Bundled, AddRecord(r)
      PROVE  FieldsOK'
  BY <1>1 DEF FieldsOK, AddRecord
<1>2. CASE Rewrite
  BY <1>2 DEF FieldsOK, Rewrite
<1>3. CASE Create
  <2>1. PICK key \in Keys \cup {Absent} :
          creator' = [Dead EXCEPT !.pc = "list", !.key = key,
                        !.unlisted = {DirectoryOf[r] : r \in stored},
                        !.found = {DirectoryOf[r] : r \in stored}]
    BY <1>3 DEF Create
  <2>2. {DirectoryOf[r] : r \in stored} \subseteq Directories
    BY DEF FieldsOK, Directories
  <2>3. creator' \in Creators /\ creator'.unlisted \subseteq creator'.found
    BY <2>1, <2>2, DeadIsCreator
  <2>4. QED
    BY <1>3, <2>3 DEF FieldsOK, Create, Elsewhere
<1>4. CASE ListDirectory
  <2>1. PICK d \in creator.unlisted :
          creator' = [creator EXCEPT !.unlisted = @ \ {d},
                        !.listed = @ \cup {r \in stored : DirectoryOf[r] = d}]
    BY <1>4 DEF ListDirectory
  <2>2. {r \in stored : DirectoryOf[r] = d} \subseteq Paths
    BY DEF FieldsOK, Paths
  <2>3. creator' \in Creators /\ creator'.unlisted \subseteq creator'.found /\ creator'.pc = creator.pc
        /\ creator'.key = creator.key
    BY <2>1, <2>2 DEF FieldsOK
  <2>4. QED
    BY <1>4, <2>3 DEF FieldsOK, ListDirectory, Elsewhere
<1>5. CASE EndListing
  BY <1>5 DEF FieldsOK, EndListing, Elsewhere, Paths
<1>6. ASSUME NEW p \in Paths, Copy(p)
      PROVE  FieldsOK'
  <2>1. With(bundle.data, p, Source(p)) \in PartialData
    BY WithIsData, SourceIsBytes DEF FieldsOK
  <2>2. QED
    BY <1>6, <2>1 DEF FieldsOK, Copy, Elsewhere
<1>7. ASSUME NEW p \in Paths, HashCopy(p)
      PROVE  FieldsOK'
  <2>1. With(creator.hashes, p, bundle.data[p]) \in PartialData
    BY <1>7, WithIsData, DataApplied DEF FieldsOK, HashCopy
  <2>2. QED
    BY <1>7, <2>1 DEF FieldsOK, HashCopy, Elsewhere
<1>8. CASE BeginManifest
  BY <1>8 DEF FieldsOK, BeginManifest, Elsewhere
<1>9. CASE WriteManifest
  BY <1>9 DEF FieldsOK, WriteManifest, Elsewhere
<1>10. CASE BeginSignature
  BY <1>10 DEF FieldsOK, BeginSignature, Elsewhere
<1>11. CASE WriteSignature
  BY <1>11 DEF FieldsOK, WriteSignature, Elsewhere, SignatureFiles
<1>12. CASE CreateStops
  BY <1>12 DEF FieldsOK, CreateStops, Elsewhere
<1>13. CASE Damage
  <2>1. damage' \in 0..MaxDamage /\ UNCHANGED <<stored, artifact, creator>>
    BY <1>13 DEF Damage, FieldsOK
  <2>2. ASSUME NEW p, bundle' = [bundle EXCEPT !.data = [q \in DOMAIN @ \ {p} |-> @[q]]]
        PROVE  bundle' \in Bundles
    BY <2>2, DataRestricted DEF FieldsOK
  <2>3. ASSUME NEW p \in Paths, bundle' = [bundle EXCEPT !.data = With(@, p, "damaged")]
        PROVE  bundle' \in Bundles
    <3>1. With(bundle.data, p, "damaged") \in PartialData
      BY WithIsData DEF FieldsOK, Bytes
    <3>2. QED
      BY <2>3, <3>1 DEF FieldsOK
  <2>4. ASSUME bundle' \in {[bundle EXCEPT !.manifest = Partial],
                           [bundle EXCEPT !.manifest = Absent],
                           [bundle EXCEPT !.signature = Absent]}
        PROVE  bundle' \in Bundles
    BY <2>4 DEF FieldsOK
  <2>5. bundle' \in Bundles
    BY <1>13, <2>2, <2>3, <2>4 DEF Damage
  <2>6. QED
    BY <2>1, <2>5 DEF FieldsOK
<1>14. CASE UNCHANGED bundleVars
  BY <1>14 DEF FieldsOK, bundleVars
<1>15. QED
  BY <1>1, <1>2, <1>3, <1>4, <1>5, <1>6, <1>7, <1>8, <1>9, <1>10, <1>11, <1>12, <1>13, <1>14
  DEF BundleNext
-----------------------------------------------------------------------------

LEMMA StartNext == FieldsOK /\ StartOK /\ [BundleNext]_bundleVars => StartOK'
<1> SUFFICES ASSUME FieldsOK, StartOK, [BundleNext]_bundleVars
             PROVE  StartOK'
  OBVIOUS
<1> USE DeadIsCreator DEF Bundles
<1>1. CASE \/ \E r \in Bundled : AddRecord(r)
           \/ Rewrite
           \/ UNCHANGED bundleVars
  BY <1>1 DEF StartOK, AddRecord, Rewrite, bundleVars
<1>2. CASE Create
  BY <1>2 DEF FieldsOK, StartOK, Create
<1>3. ASSUME creator.pc # "idle" PROVE bundle.exists
  BY <1>3 DEF StartOK
<1>4. CASE \/ ListDirectory \/ EndListing
           \/ \E p \in Paths : Copy(p) \/ HashCopy(p)
           \/ BeginManifest \/ WriteManifest \/ BeginSignature \/ WriteSignature
           \/ CreateStops \/ Damage
  <2>1. bundle'.exists = bundle.exists /\ creator.pc # "idle"
    BY <1>4 DEF FieldsOK, ListDirectory, EndListing, Copy, HashCopy, BeginManifest,
       WriteManifest, BeginSignature, WriteSignature, CreateStops, Damage
  <2>2. QED
    BY <1>3, <2>1 DEF StartOK
<1>5. QED
  BY <1>1, <1>2, <1>4 DEF BundleNext

LEMMA OrderInit == BundleInit => OrderInv
  BY DataParses DEF BundleInit, OrderInv, Dead, NoBundle, Early, Late

LEMMA OrderNext == FieldsOK /\ StartOK /\ OrderInv /\ [BundleNext]_bundleVars => OrderInv'
<1> SUFFICES ASSUME FieldsOK, StartOK, OrderInv, [BundleNext]_bundleVars
             PROVE  OrderInv'
  OBVIOUS
<1> creator \in Creators /\ bundle \in Bundles
  BY DEF FieldsOK
<1> USE DataParses DEF Creators, Bundles, Early, Late, OrderInv
<1>1. CASE \/ \E r \in Bundled : AddRecord(r)
           \/ Rewrite
           \/ UNCHANGED bundleVars
  BY <1>1 DEF AddRecord, Rewrite, bundleVars, Parses
<1>2. CASE Create
  BY <1>2, DeadIsCreator DEF Create, Elsewhere, Dead, StartOK, NoBundle
<1>3. CASE ListDirectory \/ EndListing
  BY ZenonT(60), <1>3 DEF ListDirectory, EndListing, Elsewhere
<1>4. CASE \E p \in Paths : Copy(p) \/ HashCopy(p)
  BY <1>4 DEF Copy, HashCopy, Elsewhere
<1>5. CASE BeginManifest
  BY <1>5 DEF BeginManifest, Elsewhere
<1>6. CASE WriteManifest
  BY <1>6 DEF WriteManifest, Elsewhere
<1>7. CASE BeginSignature
  BY <1>7 DEF BeginSignature, Elsewhere, Parses
<1>8. CASE WriteSignature
  BY <1>8 DEF WriteSignature, Elsewhere, FieldsOK, Parses
<1>9. CASE CreateStops
  BY <1>9 DEF CreateStops, Elsewhere, Parses
<1>10. CASE Damage
  BY <1>10 DEF Damage, Parses
<1>11. QED
  BY <1>1, <1>2, <1>3, <1>4, <1>5, <1>6, <1>7, <1>8, <1>9, <1>10 DEF BundleNext

LEMMA CopyNext ==
  FieldsOK /\ StartOK /\ OrderInv /\ CopyInv /\ [BundleNext]_bundleVars => CopyInv'
<1> SUFFICES ASSUME FieldsOK, StartOK, OrderInv, CopyInv, [BundleNext]_bundleVars
             PROVE  CopyInv'
  OBVIOUS
<1> creator \in Creators /\ bundle \in Bundles
  BY DEF FieldsOK
<1> USE DEF Creators, Bundles, Late, CopyInv
<1>1. CASE \/ \E r \in Bundled : AddRecord(r)
           \/ Rewrite
           \/ UNCHANGED bundleVars
  BY <1>1 DEF AddRecord, Rewrite, bundleVars
<1>2. CASE Create
  BY <1>2, DeadIsCreator DEF Create, Elsewhere
<1>3. CASE ListDirectory
  BY <1>3 DEF ListDirectory, Elsewhere
<1>4. CASE EndListing
  <2>1. bundle.data = <<>> /\ creator.hashes = <<>>
    BY <1>4 DEF EndListing, OrderInv
  <2>2. UNCHANGED <<bundle, damage>> /\ creator'.hashes = creator.hashes /\ creator'.pc = "copy"
    BY <1>4 DEF EndListing, Elsewhere
  <2>3. QED
    BY <2>1, <2>2
<1>5. ASSUME NEW p \in Paths, Copy(p)
      PROVE  CopyInv'
  <2>1. p \notin DOMAIN creator.hashes
    BY <1>5 DEF Copy
  <2>2. /\ bundle'.data = With(bundle.data, p, Source(p))
        /\ creator.pc = "copy" /\ p \in creator.listed /\ UNCHANGED <<creator, damage>>
    BY <1>5 DEF Copy, Elsewhere
  <2>3. /\ DOMAIN bundle'.data = DOMAIN bundle.data \cup {p}
        /\ \A q \in DOMAIN bundle.data \ {p} : bundle'.data[q] = bundle.data[q]
    <3>1. bundle.data \in PartialData /\ Source(p) \in Bytes
      BY SourceIsBytes
    <3> HIDE DEF Creators, Bundles, Late, CopyInv
    <3>2. LET f == With(bundle.data, p, Source(p))
          IN  /\ DOMAIN f = DOMAIN bundle.data \cup {p}
              /\ \A q \in DOMAIN bundle.data \ {p} : f[q] = bundle.data[q]
      BY <3>1, WithIsData
    <3>3. QED
      BY <2>2, <3>2
  <2>4. ASSUME damage = 0
        PROVE  /\ DOMAIN creator.hashes \subseteq DOMAIN bundle'.data
               /\ DOMAIN bundle'.data \subseteq creator.listed
               /\ \A q \in DOMAIN creator.hashes : bundle'.data[q] = creator.hashes[q]
    BY <2>1, <2>2, <2>3, <2>4
  <2>5. /\ creator'.pc = "copy" /\ creator'.hashes = creator.hashes
        /\ creator'.listed = creator.listed /\ damage' = damage
    BY <2>2
  <2>6. QED
    BY <2>4, <2>5
<1>6. ASSUME NEW p \in Paths, HashCopy(p)
      PROVE  CopyInv'
  <2>1. bundle.data[p] \in Bytes /\ p \in DOMAIN bundle.data
    BY <1>6, DataApplied DEF HashCopy
  <2>2. /\ creator'.hashes = With(creator.hashes, p, bundle.data[p])
        /\ creator'.listed = creator.listed
        /\ creator.pc = "copy" /\ creator'.pc = "copy" /\ UNCHANGED <<bundle, damage>>
    BY <1>6 DEF HashCopy, Elsewhere
  <2>3. /\ DOMAIN creator'.hashes = DOMAIN creator.hashes \cup {p}
        /\ \A q \in DOMAIN creator.hashes \ {p} : creator'.hashes[q] = creator.hashes[q]
        /\ creator'.hashes[p] = bundle.data[p]
    <3>1. creator.hashes \in PartialData
      OBVIOUS
    <3> HIDE DEF Creators, Bundles, Late, CopyInv
    <3>2. LET f == With(creator.hashes, p, bundle.data[p])
          IN  /\ DOMAIN f = DOMAIN creator.hashes \cup {p}
              /\ \A q \in DOMAIN creator.hashes \ {p} : f[q] = creator.hashes[q]
              /\ f[p] = bundle.data[p]
      BY <2>1, <3>1, WithIsData
    <3>3. QED
      BY <2>2, <3>2
  <2>4. QED
    BY <2>1, <2>2, <2>3
<1>7. CASE BeginManifest
  <2>1. /\ creator.pc = "copy" /\ DOMAIN creator.hashes = creator.listed
        /\ creator'.hashes = creator.hashes /\ bundle'.data = bundle.data
        /\ creator'.pc = "manifest" /\ creator'.listed = creator.listed /\ UNCHANGED damage
    BY <1>7 DEF BeginManifest, Elsewhere
  <2>2. damage = 0 => bundle.data = creator.hashes
    <3>1. bundle.data \in PartialData /\ creator.hashes \in PartialData
      OBVIOUS
    <3>2. damage = 0 => /\ DOMAIN bundle.data = DOMAIN creator.hashes
                        /\ \A p \in DOMAIN bundle.data : bundle.data[p] = creator.hashes[p]
      BY <2>1
    <3> HIDE DEF Creators, Bundles, Late, CopyInv
    <3>3. QED
      BY <3>1, <3>2, SameData
  <2>3. QED
    BY <2>1, <2>2
<1>8. CASE WriteManifest
  BY <1>8 DEF WriteManifest, Elsewhere, OrderInv
<1>9. CASE BeginSignature
  BY <1>9 DEF BeginSignature, Elsewhere, OrderInv
<1>10. CASE WriteSignature
  BY <1>10 DEF WriteSignature, Elsewhere, FieldsOK
<1>11. CASE CreateStops
  BY <1>11 DEF CreateStops, Elsewhere
<1>12. CASE Damage
  <2>1. damage' # 0
    BY <1>12 DEF Damage, FieldsOK
  <2>2. QED
    BY <2>1
<1>13. QED
  BY <1>1, <1>2, <1>3, <1>4, <1>5, <1>6, <1>7, <1>8, <1>9, <1>10, <1>11, <1>12 DEF BundleNext

-----------------------------------------------------------------------------

BundleInvariant == FieldsOK /\ StartOK /\ OrderInv /\ CopyInv

\* Everything the properties need of a create and its output stays true.
THEOREM BundleInvariantHolds == BundleSpec => []BundleInvariant
<1>1. BundleInit => BundleInvariant
  <2>1. BundleInit => StartOK /\ CopyInv
    BY DEF BundleInit, StartOK, CopyInv, Late, Dead
  <2>2. QED
    BY <2>1, FieldsInit, OrderInit DEF BundleInvariant
<1>2. BundleInvariant /\ [BundleNext]_bundleVars => BundleInvariant'
  BY FieldsNext, StartNext, OrderNext, CopyNext DEF BundleInvariant
<1>3. QED
  BY <1>1, <1>2, PTL DEF BundleSpec

\* Every state of the state root, the creator and the bundle is well formed.
THEOREM BundleTypeCorrect == BundleSpec => []BundleTypeOK
<1>1. BundleInvariant => BundleTypeOK
  BY BundleAssumption
  DEF BundleInvariant, FieldsOK, StartOK, Creators, Bundles, Stages, BundleTypeOK, Parses
<1>2. QED
  BY <1>1, BundleInvariantHolds, PTL

\* What a create that returned has made verifies, unsigned or with its key,
\* whatever was written to the state root while it was copied.
THEOREM CreatedVerifies == BundleSpec => []CreatedBundleVerifies
<1>1. ASSUME BundleInvariant, creator.pc = "done", damage = 0
      PROVE  /\ Verifies(Absent, FALSE)
             /\ creator.key # Absent => Verifies(creator.key, TRUE)
  <2>1. /\ creator.hashes \in PartialData
        /\ bundle.data = creator.hashes /\ bundle.manifest = creator.hashes
        /\ bundle.signature = IF creator.key = Absent THEN Absent
                              ELSE [key |-> creator.key, manifest |-> creator.hashes]
    BY <1>1 DEF BundleInvariant, FieldsOK, CopyInv, Creators, Late
  <2>2. creator.key # Absent => [key |-> creator.key, manifest |-> creator.hashes] \in SignatureFiles
    BY <1>1, <2>1 DEF BundleInvariant, FieldsOK, Creators, SignatureFiles
  <2>3. creator.key # Absent => Parses(bundle.signature) /\ bundle.signature # Absent
    BY <2>1, <2>2, DataParses DEF Parses
  <2>4. CASE creator.key = Absent
    BY <2>1, <2>4, DataParses DEF Verifies, SignatureHolds
  <2>5. CASE creator.key # Absent
    BY <2>1, <2>3, <2>5, DataParses DEF Verifies, SignatureHolds
  <2>6. QED
    BY <2>4, <2>5
<1>2. BundleInvariant => CreatedBundleVerifies
  BY <1>1 DEF CreatedBundleVerifies
<1>3. QED
  BY <1>2, BundleInvariantHolds, PTL

\* Whatever verifies is all that was listed, as it was copied and, if a
\* signature is asked for, signed: after a crash at any point and any damage.
THEOREM VerifiedIsWhole == BundleSpec => []VerifiedBundleIsWhole
<1>1. ASSUME BundleInvariant, NEW trusted \in Keys \cup {Absent}, NEW required \in BOOLEAN,
             Verifies(trusted, required)
      PROVE  /\ DOMAIN bundle.data = creator.listed
             /\ bundle.data = creator.hashes
             /\ required \/ trusted # Absent => creator.key # Absent
             /\ trusted # Absent => creator.key = trusted
  <2>1. /\ bundle.data = bundle.manifest /\ bundle.manifest = creator.hashes
        /\ DOMAIN creator.hashes = creator.listed
    BY <1>1 DEF BundleInvariant, OrderInv, Verifies
  <2>2. CASE bundle.signature = Absent
    BY <1>1, <2>1, <2>2 DEF Verifies, SignatureHolds
  <2>3. CASE bundle.signature # Absent
    <3>1. Parses(bundle.signature) /\ trusted \in {Absent, bundle.signature.key}
      BY <1>1, <2>3 DEF Verifies, SignatureHolds
    <3>2. creator.key # Absent /\ bundle.signature.key = creator.key
      BY <1>1, <3>1 DEF BundleInvariant, OrderInv
    <3>3. QED
      BY <2>1, <3>1, <3>2
  <2>4. QED
    BY <2>2, <2>3
<1>2. BundleInvariant => VerifiedBundleIsWhole
  BY <1>1 DEF VerifiedBundleIsWhole
<1>3. QED
  BY <1>2, BundleInvariantHolds, PTL

-----------------------------------------------------------------------------
(* Citations.  Directories are listed in ascending order, and a record     *)
(* that is listed was stored after what it cites.                          *)

ListedInv ==
  /\ \A r \in stored : Cites[r] \subseteq stored
  /\ creator.listed \cap Bundled \subseteq stored
  /\ creator.unlisted \subseteq creator.found
  /\ \A d \in creator.found \ creator.unlisted, e \in creator.unlisted : d < e
  /\ \A r \in creator.listed \cap Bundled : \A c \in Cites[r] :
       DirectoryOf[c] >= DirectoryOf[r] /\ DirectoryOf[c] \in creator.found =>
         c \in creator.listed \/ DirectoryOf[c] \in creator.unlisted

LEMMA ListedNext ==
  FieldsOK /\ ListedInv /\ [BundleNext]_bundleVars => ListedInv'
<1> SUFFICES ASSUME FieldsOK, ListedInv, [BundleNext]_bundleVars
             PROVE  ListedInv'
  OBVIOUS
<1> creator \in Creators /\ stored \subseteq Bundled
  BY DEF FieldsOK
<1>n. /\ \A r \in Bundled : DirectoryOf[r] \in Nat /\ Cites[r] \subseteq Bundled
      /\ Artifact \notin Bundled
      /\ Directories \subseteq Nat
  BY BundleAssumption DEF Directories
<1> USE DEF Creators, ListedInv
<1>1. ASSUME NEW r \in Bundled, AddRecord(r)
      PROVE  ListedInv'
  BY <1>1 DEF AddRecord
<1>2. CASE Create
  <2>1. PICK key \in Keys \cup {Absent} :
          creator' = [Dead EXCEPT !.pc = "list", !.key = key,
                        !.unlisted = {DirectoryOf[r] : r \in stored},
                        !.found = {DirectoryOf[r] : r \in stored}]
    BY <1>2 DEF Create
  <2>2. creator'.listed = {} /\ creator'.unlisted = creator'.found
    BY <2>1 DEF Dead
  <2>3. QED
    BY <1>2, <2>2 DEF Create, Elsewhere
<1>3. CASE ListDirectory
  <2>1. PICK d \in creator.unlisted :
          /\ \A e \in creator.unlisted : d <= e
          /\ creator' = [creator EXCEPT !.unlisted = @ \ {d},
                           !.listed = @ \cup {r \in stored : DirectoryOf[r] = d}]
    BY <1>3 DEF ListDirectory
  <2>2. /\ creator'.unlisted = creator.unlisted \ {d}
        /\ creator'.found = creator.found
        /\ creator'.listed = creator.listed \cup {r \in stored : DirectoryOf[r] = d}
        /\ stored' = stored
    BY <1>3, <2>1 DEF ListDirectory, Elsewhere
  <2>3. creator.found \subseteq Nat
    BY <1>n
  <2>4. \A e \in creator.found \ creator'.unlisted, u \in creator'.unlisted : e < u
    BY <2>1, <2>2, <2>3
  <2>5. ASSUME NEW r \in creator'.listed \cap Bundled, NEW c \in Cites[r],
               DirectoryOf[c] >= DirectoryOf[r], DirectoryOf[c] \in creator.found
        PROVE  c \in creator'.listed \/ DirectoryOf[c] \in creator'.unlisted
    <3>1. r \in stored /\ c \in stored /\ c \in Bundled
      BY <2>2
    <3>2. CASE DirectoryOf[c] = d
      BY <2>2, <3>1, <3>2
    <3>3. CASE DirectoryOf[c] # d /\ r \in creator.listed
      BY <2>2, <2>5, <3>3
    <3>4. CASE DirectoryOf[c] # d /\ r \notin creator.listed
      <4>1. DirectoryOf[r] = d
        BY <2>2, <3>4
      <4>2. DirectoryOf[c] \in Nat /\ d \in Nat /\ DirectoryOf[c] > d
        BY <1>n, <2>5, <3>1, <3>4, <4>1
      <4>3. DirectoryOf[c] \in creator.unlisted
        BY <2>3, <2>5, <4>2
      <4>4. QED
        BY <2>2, <3>4, <4>3
    <3>5. QED
      BY <3>2, <3>3, <3>4
  <2>6. QED
    BY <2>2, <2>4, <2>5
<1>4. CASE EndListing
  BY <1>4, <1>n DEF EndListing, Elsewhere
<1>5. CASE \/ Rewrite
           \/ \E p \in Paths : Copy(p) \/ HashCopy(p)
           \/ BeginManifest \/ WriteManifest \/ BeginSignature \/ WriteSignature
           \/ CreateStops \/ Damage \/ UNCHANGED bundleVars
  <2>1. /\ stored' = stored /\ creator'.listed = creator.listed
        /\ creator'.found = creator.found /\ creator'.unlisted = creator.unlisted
    BY <1>5 DEF Rewrite, Copy, HashCopy, BeginManifest, WriteManifest, BeginSignature,
       WriteSignature, CreateStops, Damage, Elsewhere, bundleVars
  <2>2. QED
    BY <2>1
<1>6. QED
  BY <1>1, <1>2, <1>3, <1>4, <1>5 DEF BundleNext

\* After the listing nothing is left to be listed.
DoneInv == creator.pc \in {"copy", "manifest", "sign", "signature", "done"} => creator.unlisted = {}

LEMMA DoneNext == FieldsOK /\ DoneInv /\ [BundleNext]_bundleVars => DoneInv'
  BY ZenonT(60) DEF FieldsOK, Creators, DoneInv, BundleNext, bundleVars, AddRecord, Rewrite, Create, Dead,
     ListDirectory, EndListing, Copy, HashCopy, BeginManifest, WriteManifest, BeginSignature,
     WriteSignature, CreateStops, Damage, Elsewhere

\* A record in a finished bundle finds there whatever it cites of a directory
\* listed no earlier than its own that was there at the start.
THEOREM CitationsResolve == BundleSpec => []LaterCitationsResolve
<1>1. BundleInit => ListedInv /\ DoneInv
  BY DEF BundleInit, ListedInv, DoneInv, Dead
<1>2. BundleInvariant /\ ListedInv /\ DoneInv /\ [BundleNext]_bundleVars => (ListedInv /\ DoneInv)'
  BY ListedNext, DoneNext DEF BundleInvariant
<1>3. ListedInv /\ DoneInv => LaterCitationsResolve
  BY DEF ListedInv, DoneInv, LaterCitationsResolve
<1>4. QED
  BY <1>1, <1>2, <1>3, BundleInvariantHolds, PTL DEF BundleSpec
=============================================================================
