# ADRProof in TLA+

A verification development for ADRProof: TLA+ models of its protocols, TLC
configurations that check them on small instances, and proofs, checked by
TLAPS, of what matters most for every instance. `PROJECT.json` lists the
components, runs, mutants, hazards, theorems and the source lines behind every
definition. Paths below are relative to the repository.

## The system

ADRProof turns the formal clauses of accepted ADRs and facts extracted from a
project into one proof obligation, lets Z3 decide it, and keeps what it found
as evidence that is valid for exactly the inputs it was found on. Around that
core are reviews of the formalization, a required gate, and several kinds of
further evidence. It is a command-line program without a server: its state is
files in a *state root*, and every command is a process of its own. Nothing is
locked. So concurrency means commands that overlap each other and edits of
the sources, and failure means a process that dies between two file operations.

| Component | State it keeps | Operations | Talks to | Hard behaviour | Correct when |
| --- | --- | --- | --- | --- | --- |
| formalization reviews, `src/reviews.rs` | `formalization-reviews/<id>.json`, content-addressed | `prepare`, `import`, `status` | inventory (in process), gate (reads its report) | competing imports, half-written files, edits during an import | readers never disagree about the history; an acknowledged review is in it; CURRENT rests on an approval of the present formula |
| check, `src/lib.rs` | `effective.smt2`, `project-model.json`, `proof-ledger.json` | `check`, `status` | Z3 (child process), providers, evidence store | edits while solving, checks sharing a root, crash between writes | a current PASS says what a fresh check would say |
| evidence store, `src/evidence.rs` | `evidence/*.json`, `.tmp` files | `store`, `load_all`, `latest`, `assess` | check, gate | rename protocol, wall-clock order | records are complete and found again |
| external provider runner, `src/external_provider.rs` | none that lasts; a child process, two reader threads | `run_one`, `run_configured`, `execution_inputs` | an arbitrary executable, through pipes | hangs, floods, forks, exits racing the timeout | bounded output and time, no processes left, no partial response accepted |
| fact snapshots, `src/fact_snapshot.rs` | a snapshot file with a pin | `capture`, `validate` | provider runner, gate | the tree changes while it is scanned, executed and scanned again | a snapshot is of one instant, and the gate accepts only what was approved and is present |
| required gate, `src/gate.rs` | a pinned required set | `prepare`, `evaluate`, `evaluate_snapshot` | reviews, check's evidence, native tests, snapshots | many reads of changing stores | PASS only for what is reviewed, covered and current |
| native-test evidence, `src/native_test.rs` | `native-test-evidence/` | `import`, `assess` | gate, parents | reports older than the files they are imported with | PASS only for non-vacuous, complete runs |
| scenario evidence, `src/scenario.rs` | `scenario-evidence/` | `run`, `assess`, `aggregate` | runner process, validations, parents | edits while the runner works | current evidence is of the present files; a parent passes only if all children do |
| quint evidence, `src/quint.rs` | `model-evidence/`, `model-validation-evidence/` | `run`, `assess`, `run_validation`, `assess_validation` | Quint process group, scenario evidence | records of both sides read one after another, definitions edited meanwhile | what a current validation has evaluated is right about the present files |
| correspondence, `src/correspondence.rs` | `correspondence-evidence/` | `run`, `assess` | parents | edits during a scan | current evidence is of the present files |
| lifecycle, typing, lowering, `src/lib.rs` | none | `effective`, `lower_to_project_model`, `obligation_to_smt`, closed-world facts | check, gate | supersede chains, open-world absence | the obligation means what the ADRs say |
| parser, `src/lib.rs` | none | `load_adrs`, ADRLogic parser | lowering | none | refuses what it cannot read |
| inventory, `src/inventory.rs` | none | `inspect` | reviews, gate | none | no declared requirement is lost |
| fact providers, `src/cargo_facts.rs`, `src/sql_migrations.rs` | none | extraction | lowering | order of migrations | facts hold of the sources, coverage is claimed only when closed |
| bundles, `src/bundle.rs` | an output directory | `create`, `verify` | any state root | copying what is being written | a verified bundle is all that was listed |
| policy, `src/policy.rs` | none | `apply` | reports | expiry boundary | an expired waiver hides nothing |
| queries, `src/query.rs` | none | `heterogeneous_impact`, trace, explain | all evidence | links in both directions | an edit's impact names all that it changes |
| command line, `src/main.rs` | none | `diagnose`, one command per operation above | everything | | a diagnosis that accepts hides nothing |
| roots, model types | none | | everything | none | |
| isolated producer, `scripts/isolated_producer.py` | receipts | runs capture in a sandbox | snapshots | operating system | |

The behaviours hard to test, each at its line, are the `hazards` of
`PROJECT.json`; those with properties are covered by the modules below, the
others say what they wait for.

## Modules

| Module | What it is |
| --- | --- |
| `ReviewHistory` | abstract: one history that only grows, a chain per requirement |
| `ReviewRules` | what a set of reviews says: `heads()` and the report of `status()` as operators |
| `ReviewRulesProofs` | a current report rests on full approvals |
| `ReviewStore` | `reviews.rs`, file operation by file operation |
| `MCReviewStore` | documents, revisions and processes for TLC |
| `ReviewStoreProofs` | inductive invariant, six theorems, the refinement |
| `EvidenceRules` | what a check concludes from the sources it has loaded |
| `EvidenceLog` | abstract: the newest evidence of a state root is the end of some check |
| `CheckEvidence` | `run_check_with_roots` and the evidence store, with its readers |
| `MCCheckEvidence` | a project of one ADR and one provider input for TLC |
| `CheckEvidenceProofs` | six theorems, the refinement among them |
| `Gate` | `gate.rs`, read by read, over `EvidenceLog` and `ReviewRules` |
| `MCGate` | one requirement, one provider input, one native test for TLC |
| `GateProofs` | three theorems |
| `ProviderProcess` | `run_one`, its threads, and an arbitrary provider |
| `MCProviderProcess` | a provider and one child of it for TLC |
| `ProviderProcessProofs` | four theorems |
| `FactSnapshot` | `fact_snapshot.rs`, read by read, and the snapshot path of the gate |
| `MCFactSnapshot` | an ADR, a configuration, an executable and one more file for TLC |
| `FactSnapshotProofs` | inductive invariant, six theorems |
| `AssessmentRules` | how each kind of evidence comes to its result, parents to theirs, and waivers to what they hide: pure operators |
| `EvidenceGraph` | scenario, model, native-test and correspondence evidence, the validations and parents derived from it, `diagnose` and `impact` |
| `EvidenceBundle` | `bundle.rs`: create next to writers, death, damage, verify |
| `EvidenceProofs` | the proofs of `EvidenceGraph` and `EvidenceBundle`: an inductive invariant each, eleven theorems |
| `ClauseFormulas` | clauses: atoms, types, truth in a world |
| `MigrationSchema` | `sql_migrations.rs`, statement by statement, and the database that runs the same statements |
| `ProjectObligation` | from ADRs, schema and manifests to the obligation, its verdict and the inputs recorded with it |
| `ProjectObligationProofs` | inductive invariants of schema, database and evidence; six theorems |
| `MCProjectObligation` | two tables, a view, one package and four ADRs for TLC |
| `MCEvidence` | instances of `EvidenceGraph`, `EvidenceBundle` and `ProjectObligation` for one run |

### ReviewStore

`file[r]` is the file of record `r`: absent, partial (created, not yet fully
written) or complete. A record stands for its id, the hash of its content, so a
file that parses holds the record it is named after. Each process has a
program counter; `listing` and `unread` are the two halves of `load`, which
lists the directory once and then parses the files it has listed one at a time
(`List`, `ReadEntry`, `ReadBroken`). `Linear` (in `ReviewRules`) is `heads`, the
whole-store validation, as the conjunction of the conditions it rejects on.
`AcceptFirstLoad`, `RejectLoad` and `AcceptFinalLoad` are its two outcomes in
the two places where it runs. The rest of `import` follows the source step by
step: `Refuse`, `AlreadyStored`, `Proceed`, `Create` (`create_new`), `Write`,
`Sync`, `IoError`, `CompareBroken`, `CompareEqual`. `Crash` may hit any
process anywhere and leaves the files as they are. `Edit` moves the tree to
another revision. `accepted` and `acked` are history variables: what loads
have accepted, what imports have acknowledged. What `inspect` computes is
given by constants, as functions of the revision; a binding hashes every
inspected byte, hence two bindings of one requirement are equal exactly when
their revisions are. `Assessment` and `ReviewsCurrent` are the report.

Two conclusions are not visible in any single function. Readers never disagree
(`AcceptedHistoriesAgree`), because a store with a branch is refused as a whole
and files are never removed: were an import to roll back its own record, or
were the final load to take a side, it would fail. And an acknowledged import
is part of one accepted history (`AckedInOneHistory`), although two imports
may both pass every check before they write; it is the load after the write
that decides. `ImplementsHistory` is the refinement, with the union of all
accepted sets as the abstract history.

### CheckEvidence

A check is the sequence of its file operations: `Load` (and the first
`project-model.json`), `WriteSmt`, `Solve` or `SolverError`, `ReadSmt`,
`HashInputs` or `HashFails`, `WriteTemporary`, `Rename`, `WriteModel`,
`WriteLedger`. Sources are revisions; `SmtOf`, `Satisfiable`, `Covered` and
`FilesHash` give what the code computes from them. The verdict depends on the
text and on closed coverage (`formula_requires_uncovered_absence`), and
coverage is not in the text: that is why the hashes of the provider's inputs
matter. `Current`, `Latest` and `CurrentStatus` are the reading side.

`VerdictHoldsForRecordedInputs` says: a record that is current for some
revision and says PASS or FAIL says what a fresh check of that revision would
say. It holds under overlapping edits if state roots are exclusive and coverage
follows the text; without the latter it fails (run `check_opened`, first
finding). It holds for checks that share a state root only as long as edits
wait for all of them, so that whatever they overwrite is the same text. When
checks of different revisions overlap in one root it fails: a check whose text
has been replaced reads the other's back and stores its own verdict with it, and
TLC finds a PASS next to the text and the files of a revision that fails. The
documentation asks for exclusive state roots (`docs/CI_ADOPTION.md:64`) and a
stable checkout, so this is not a finding, and what `check` says of shared roots
is about files and crashes: which artifacts exist, in which order, and what
they name. `CompletedCheckIsReported`
looks from the other side: the record of a check that was not disturbed is
found again and is current, whatever happened between. The history variable
`undisturbed` says which checks those are. The ledger is written last; after a
crash it may lag behind the evidence until the next check.

`ImplementsLog` is what others may rely on: the newest record of a state root is
the true verdict of a check on some revision, next to the text of that revision,
and it changes only when a check ends. Checks may finish in another order than
they took their stamps; then the older record arrives without becoming the
newest.

### Gate

`Gate` extends `EvidenceLog` and instantiates `ReviewRules`: the two stores are
seen through what `CheckEvidence` and `ReviewStore` are shown to implement, a
log whose newest record is genuine and a history that grows and stays linear.
The log is implemented by exclusive state roots, and by shared ones on sources
that hold still during checks; the gate's guarantees are for those.
`gate` is the process, with what it has read so far; its steps are the reads of
`prepare_internal` and `evaluate_internal` in their order: `LoadReviews` and
`InspectForReviews` (the two halves of `reviews::status`), `ReadScope`
(`snapshot`), `LoadModel`, `Fingerprint`, `ReadEvidence`, `ReadDefinitions`,
`AssessNative`, `Decide`. `ReadFails` is every error exit, `validate_roots`
included, which refuses a `.tmp` file left by a check that died. Next to it,
`Edit` changes the sources, `RecordEvidence` ends a check, `ImportReview` and
`ImportNative` extend the other stores, and `Approve` pins what prepare printed.

`PassIsWarranted`: PASS is what a check of the loaded sources would say. The
evidence alone does not give that, as the first finding shows; it is the second
look at the coverage of the loaded model that does, since the rest of the
verdict follows from the text. `PassRestsOnApproval`: the reviews were judged
against the pinned specification itself, although reviews, scope and model are
read at different times and the tree may have been edited and edited back. The
heads carry it, for each is bound to one specification. It is stated for sets
that were prepared on a tree that held still (history variable `undisturbed`):
prepare takes the heads from one reading of the tree and the inventory from the
next, and a set drafted across an edit passes an evaluation that is disturbed
in the same way.

### ProviderProcess

The host thread goes from `Spawn` through `WriteRequest` to the poll loop
(`Poll`, `CheckClock`), to `KillTree` if need be, and to `Return` once both
readers have ended. Readers drain pipes (`ReadBlocks`) until nobody can write
to them (`ReadEnd`). The clock `elapsed` exists only in the poll loop, since
`Instant::now` is taken after the request was written. The provider is any set
of processes that read, write, close, fork, leave the group or exit; sizes are
in blocks. `Outcome` is the order in which `run_one` decides. Errors of `read`
and `wait` themselves are left out: they end the run with a diagnostic.

`RunReturns` holds for a provider without descendants whose request fits into
a pipe, whatever else it does. It fails for one that leaves a process behind
which holds stdout (run `provider_background`, second finding). It also fails
for one that does not read a request larger than a pipe, since the request is
written before the clock starts: that is why `provider_live` bounds the request
by the pipe.

### FactSnapshot

A capture walks the two source trees, reads the configuration to find which
executables belong to the policy (`ReadPolicy`), loads the project
(`LoadFile`), reads the configuration again and runs what it names
(`LoadConfiguration`, `Execute`), checks that everything used had been walked
(`EndLoad`), hashes it (`HashFile`) and walks the trees once more
(`EndCapture`). A validation walks them, compares tree and policy with the
snapshot, lowers the ADRs and compares the obligations (`CompareObligations`);
for the gate, context and policy must also be those of the approved set
(`AsApproved`). Each of these reads one file, and `Edit` may change, remove or
restore any file between two of them, as may the provider that is being run.
`Fails` is every other error. `was` and `returned` are history: what files
have been since the run began, and whether one has become again what it was.

No comparison of walks sees a file that changes and changes back. Apart from
that, the trees listed are those of one instant, the end of the first walk,
and everything loaded and executed is of that instant too
(`CaptureIsOfOneInstant`), though no two reads coincide. `ExecutedIsInPolicy`
closes the gap between the two readings of the configuration.
`AcceptedIsApproved` chains three runs: the capture behind the approval, the
capture under judgement, and the gate. `AcceptedIsPresent` does not depend on
`returned`: a capture that was disturbed unnoticeably is still refused if its
obligations are not those of the present ADRs.

### EvidenceGraph

The four kinds of checks share a protocol: inputs are hashed, a tool runs, a
record is stored; a record is current while its inputs hash the same.
`StartRun` and `FinishRun` are the two halves of `run`, between which `Edit`
may happen, and the tool may have seen each file before or after it
(`Between`). `ReadReport` and `FinishImport` are `native_test::import`, which
hashes at import a report made at any earlier time. A validation reads the
evidence of a scenario and of a model for one mapping after another
(`ReadScenario`, `ReadModel`). The mappings are those of the definition as it was
loaded (`StartValidation`); its file is hashed when they have been evaluated
(`FinishValidation`). Definitions change like any other file: `MappingsOf` gives
the mappings of each version. What a validation remembers of its evidence is
`Dependency`, under the id of scenario or model, the last reading of an id being
the one kept (`Inserted`): neither the identity nor the trace of the evidence,
although a scenario may have several traces on the same files (`TracesOf`).
Parents are computed on demand from the newest records (`ParentStatus`).
`AssessmentRules` has the results themselves: Quint's markers
(`ModelResult`), vacuous or incomplete test runs (`NativeResult`), missing
transitions, trace patterns, waivers.

The properties relate what is reported to `Fresh`, what a complete run would
find in the files as they are. `CurrentVerdictIsOfPresentFiles` rests on hashing
first. `CurrentValidationCorresponds` is about a record two steps away from the
files, made from reads at different times, without the trace it was judged by:
the mappings it has evaluated are right about the files as they are, with a
trace that their scenario may have. Which version that was is history
(`loaded`): the record does not say. `CurrentValidationFitsDefinition` says the
same of the definition as it is now, as the documentation does, and is false
(run `evidence_definition`, fourth finding): an edit between loading and hashing
stamps the PASS of the old mappings with the hash of the new file. That the
*recorded* trace still fits is not true either: a later run on the same files
may have another one, which leaves the validation current.
`AcceptanceIsWarranted` follows files through tools, records, validations,
parents and waivers to the answer of `diagnose`. It excepts evidence that is
misattributed (`Misattributed`), record by record: a report imported with other
files than it was made from, and a validation whose definition was edited while
it ran. Neither can be told from other evidence by what is stored.
`ImpactIsComplete` is an action property: an edit changes what is reported only
of what its impact names. Impact is not minimal: a parent's other children are
named too.

Abstractions: the definition of a check is one of its files, and its meaning is
part of what the tool finds in the versions of them, since each of these kinds
hashes its configuration before the tool starts; which checks, validations and
parents there are, and what the parents require, is fixed: `parents.json` is no
file of the model, nor are children of the relational kind included; files are
never removed; one command at a time writes evidence (two at once are the subject
of `CheckEvidence`, whose store protocol is the same); `diagnose` and `impact` are
judged on a state that holds still. `Assess` compares inputs and backend; the
versions of provider and runner and the configuration hash, which the code
compares too, can only make more evidence stale. Tools other than scenario
runners and Quint find one thing in the same files.

### EvidenceBundle

`create` lists the root directory, then each directory of records in the order
of names (`ListDirectory`), copies file by file (`Copy`), hashes each copy
(`HashCopy`), and writes manifest and signature, each in two steps since a
process may die between creating and filling a file. Next to it records are
renamed into place (`AddRecord`) and an artifact is truncated and rewritten
(`Rewrite`). `Damage` is what may happen to a bundle afterwards. `Verifies`
takes the same two arguments as the command line, a trusted key and whether a
signature is required.

`CreatedBundleVerifies` would fail if the source were hashed instead of the
copy. A copied artifact may be torn; the bundle still verifies, since
verification is about integrity and not about meaning. `VerifiedBundleIsWhole`
says that a bundle whose creator died before the manifest never verifies.
`LaterCitationsResolve` is as far as closure under citations goes: a cited
record whose directory sorts before that of the citing one may be missing
(`model-evidence` of a validation), as may one whose directory did not exist
when the root was listed. A directory left by a death makes every later create
with that output fail.

### ProjectObligation

`effective` is `ActiveDecisions`. `Apply` of `MigrationSchema` is one statement
of a migration as the extractor sees it, `After` what PostgreSQL makes of it;
`ClauseFormulas` evaluates clauses in a world. It is recursive over formulas, so
`ProjectObligation` takes from it, as the operator constants `AtomsOf`, `HoldsIn`
and `HasType`, only what the obligation asks of a formula; `MCProjectObligation`
gives them their values, and the theorems hold for any. `WellFormed` says which
statements a parse tree can be. From there follow the facts
(`SqlAtoms`, `CargoAtoms`), coverage (`IsClosed`, where one partial claim is
enough to open a region), the two closures (`CargoAbsences`, `OtherAbsences`),
the asserted and denied atoms of the text, what Z3 would reject (`Rejected`),
`RequiresUncoveredAbsence` and the verdict. The solver is exact here; errors and
timeouts of it are in `CheckEvidence`. `SelectedInputs` is what a record is bound
to. Behaviour is a history of migrations, edited manifests, ADRs accepted,
withdrawn, superseded or removed, and checks.

`VerdictIsOfProject` ties both ends: a verdict reported as current is the
answer to the question whether the constraints can hold of the database and
the manifests as they are, whatever is left open where nobody answers for it
(`Loose`). Its exceptions are named in it and listed below.
`CurrentVerdictIsReproducible` says that inputs and text together
determine the verdict. `NoIntentIsLost` says that an ADR out of force has an
heir in force unless accepted ADRs supersede each other in a circle, which puts
all of them out of force (`lib.rs:732`).

## Runs

| Run | Instance | Shows |
| --- | --- | --- |
| `review_race` | 2 processes, 5 documents of one requirement (a root, a full approval, a legal and an illegal reapproval of it, a draft), 4 revisions | agreement, acknowledgement, immutability, refinement under all interleavings with crashes and edits; CURRENT rests on full approvals |
| `review_live` | 2 processes, 2 competing roots, fair | every command returns |
| `check` | 1 check at a time in a root of its own, edits during checks, coverage follows the text, 4 revisions, 2 configurations; or 2 checks in one root, 3 revisions, edits between checks | truthful records; status reports the last undisturbed check; artifacts name stored evidence; the store implements the log |
| `check_opened` | 1 check, 2 revisions | violation: hashes are taken after solving |
| `gate` | 4 revisions over 2 specifications, 2 reviews of one requirement, 1 native test; one gate process, prepared and run any number of times | a PASS is warranted and rests on approvals of the pinned specification |
| `provider_safety` | provider and one child, limit 2, up to 4 blocks per stream, any encoding and answer | whole responses, exact limit, no group left |
| `provider_live` | provider alone, request as large as the pipe | the run returns |
| `provider_background` | provider and one child | violation: readers joined without a timeout |
| `snapshot` | 4 files of 2 contents, 2 contexts, 3 edits, any number of captures, approvals and gate runs | snapshots are of one instant; the gate accepts what was approved and is there |
| `evidence` | one check of each kind, a validation, two parents, 4 waiver policies, 3 files, one edit at any moment; 4 records in 2 directories, an artifact and a key; the schema, package and ADRs of `obligation` | what derived evidence, a bundle of it and an obligation's verdict are worth |
| `evidence_definition` | the same | violation: a validation is stamped with a definition it has not evaluated |
| `obligation` | 22 statements over 2 tables and a view, 2 declarations, 4 ADRs, 3 changes | violation: a quantified atom is looked up in the global scope |

Bounds. Two processes suffice for every conflict at `create_new` and at one
head, and each may also be the reader that sees the other's files half done.
The documents give each kind of branch (two successors, two roots), the draft
and both reapprovals; a cycle of records cannot exist, as ids are hashes of
contents. The second requirement, never reviewed, keeps CURRENT from holding
where it is active. `MaxRecords` stops new checks after that many records; two
are needed for an older and a newer one. `check` chooses at the start who checks. In
the first of its two instances checks follow each other, which loses nothing for
exclusive state roots: two checks would share only the sources, and those change
at any moment.
`gate` needs no bound: one newest record, one history and one pinned set exist at
a time. Its revisions are the cases that differ for a gate: coverage lost
without a change of the text, a specification edited without a change of the
checked inputs, an input gone.
A limit of 2 blocks with a buffer of 2 lets reads end below, at and beyond the
limit; `MaxOutput` is two more than the limit in `provider_safety`, so that keeping
more than one excess block would show. `Timeout` is one tick: only
its order relative to the exit matters. Runs over symmetric processes use
symmetry, and none of those checks liveness. Deadlock checking is off only for
providers, where a run ends, and where a bound stops the edits (`snapshot`,
`evidence`, `obligation`).

`snapshot` starts from a complete tree with a configured provider. Three edits
are one more than a change and its return, and suffice to disturb one run and to
change the tree between two. `evidence` chooses at the start which of its three
instances it runs; they share no state. In the first, `MaxVersion` allows one
edit, at any moment and of any of three files, and each of them changes the
outcome of something: a test and a trace, a model, a correspondence, the trace
that a mapping asks for. More edits are left to the proofs, which cover any
number of them, of files and of mappings. In the second, four records in two
directories allow a record to be added before, between and after the listing of
either. In the third, three changes suffice to make any two statements meet on a
table, with one more edit; each statement is a case of the extractor of its own.

Fairness. `ReviewStore!FairSpec` assumes of each process that a started
command is scheduled and its file operations return; nothing is assumed of
edits, of new commands or of crashes. `ProviderProcess!FairSpec` assumes that
the host's threads are scheduled and its clock advances, and nothing at all of
the provider.

Mutants. Each property of a passing run has a mutant in `PROJECT.json`: a
definition of the model changed as a plausible bug would change the code (a
missing `O_EXCL`, a roll-back, an early success, a kill of the child only, an
off-by-one at the limit), under which the property must fail. Operators named
`<Definition>_<Change>` are these; nothing else uses them.

## Proofs

All proofs rest on the named assumptions of the modules, which type the
constants and say which inputs are well formed; TLC evaluates them on every run.

*Reviews.* `IInv` is `TypeOK` with four parts: a process past its first load
has a document (`DocInv`); what it has listed and no longer has to read is
complete (`ListingInv`), because a complete file stays so; what it has found
linear is linear (`ChainInv`); accepted sets are complete, linear and pairwise
comparable, and contain what was acknowledged (`AcceptedInv`). The key lemma
is that of two linear sets whose union is among the present files, taken one
after another, one contains the other. None of the properties is inductive
alone: each needs that complete files never change. The refinement follows
from comparability. `CurrentMeansApproved` is an argument about chains, by
`NoCycle`: walk back from the head over reapprovals, whose formalization
equals their predecessor's, to a record that is none.

*Check.* `EditsAreHarmless` (exclusive roots, coverage follows the text) and
`StableSourcesSuffice` (no edits while any check runs, hence no overlap of checks
of different revisions) prove
`VerdictHoldsForRecordedInputs` along the two different reasons for which it
holds; each states its hypotheses on the constants, and run `check_opened`
shows that they cannot simply be dropped.

`StoreIsALog` is the refinement: records are sound (`SoundInv`), stamps are unique
and never ahead of the clock (`StampInv`), so that there is always one newest
record and a rename either makes its record the newest or changes nothing.

`CompletedChecksAreReported` (exclusive roots) needs that a check's record is never
older than what its root holds and is of the revision it has loaded (`ReportInv`),
that stamps are unique (`StampInv`) and that the ledger names stored records
(`StoredInv`). Two checks that share a root break it: the later one is reported.

*Gate.* Typing needs what has been read by when (`ReadInv`). `WarrantInv` says
that evidence is genuine and that a PASS found current is about the text of the
loaded model; coverage is then looked at in the same state. `ApprovalInv` says
which specification the scope's heads are bound to: the one inspected
(`StillInv`), hence, by equality with the pinned scope, the pinned one
(`SetInv`). `ReviewRulesProofs` is instantiated for the approvals.

*Provider.* `IInv` relates what readers keep to what was produced and has left
the pipe (`ReaderInv`), ties end of file to a pipe nobody can write to, and a
host past the killing to a group that is gone (`HostInv`); `ResultInv` freezes
the outcome. Any number of descendants and any sizes are covered.

*Snapshot.* `IInv` is typing with four parts. `WasInv` and `WalkInv` tie what
is recorded to the history of values: a file has been what a walk recorded of
it at some time since the run began. `FirmInv` is the core: as long as no value has
returned, a file that still is what the first walk read cannot have been
anything else meanwhile, so that all that was read of it since agrees with
that walk; and so does that of a file which the second walk found unchanged.
`SnapshotInv` carries this over to the stored snapshot and the approved set.
The number, kinds and order of files are arbitrary.

*Bundle.* `BundleInvariant` has the shape of a bundle and its creator
(`FieldsOK`), what was there when the root was listed (`StartOK`), that
everything cited in a directory not yet listed is stored (`OrderInv`), and that
an undamaged bundle holds what was hashed (`CopyInv`), for any number of records,
directories and keys.

*Evidence graph.* `IInv` says that every record, stored or on its way, is
truthful (`Truthful`): its result and its trace are what the tool would find in
the versions it has seen, and these lie between the hashed inputs and the files.
As versions only grow, equality of hashed inputs and files pins down what was
seen; this gives `CurrentVerdictIsOfPresentFiles`. A passed validation is tied
(`Linked`), mapping by mapping of the version it has loaded, to such records of
both sides; if they hash to what the validation remembers and are current, they
are about the files of now. A scenario that two mappings name is read twice and
remembered once: nothing is stored while a validation reads, so that both
readings are of one record (`FromLatest`) and only its validity can have
changed, which fails the later mapping. A validation stamped with the version it
has loaded, and current, is one of the present definition, hence the exception
of `AcceptanceIsWarranted`. The rest of it follows along the derivation of
parents and waivers, and `ImpactIsComplete` because an impact is closed under
the edges along which a standing is computed. None of the properties is
inductive alone. The assumptions on the constants type the graph and keep the
kinds apart; what tools find, the policies and the graph itself are arbitrary.

*Obligation.* `SchemaInv` compares the schema of the extractor with the database
after any sequence of well-formed statements. Either the extractor knows that it
knows nothing (`Blind`, a gap of every relation in the global scope), or, name by
name, everything about the name is missed (`Lost`), or it has a gap for all of the
table (`Dark`), or the table is there on both sides and they agree, relation by
relation, but for what is missed or open (`Agree`), or it is on neither side.
A view that the extractor knows is one in the database, or lost; the columns of
a view are always missed. `Within` is the half of `Agree` that gaps do not excuse:
what the extractor says of a table is there, unless it is missed. Hence
`WhatIsSaidIsThere`, of partial regions too.
`ClosedCoverageIsRight` is not inductive, because what is compared is
not all that a statement looks at: a child takes over the columns of its parent and
the NOT NULL of its keys, a dropped column takes keys along, an unknown table may
become a parent. `Agree` therefore compares columns, types, keys and NOT NULL as
maps and not as facts; `RelationShape` says that keys are of columns that exist,
and `WellFormed` that of the constraints of one statement the names differ and
one at most is a primary key. The proof has, for each kind of statement, a lemma
about shape (`CreateShape`, ...) and one about agreement (`CreateKeeps`, ...).
The assumptions are that statements are well formed and that "no parent" is not the
name of a table.

`VerdictIsOfProject` rests on all of this. The recorded result is what a check
would give now, so the text is one that the solver takes, and PASS means that
some choice of what the text leaves open makes the constraints true. What it
asserts holds (`AssertedHolds`, from `ObservedIsThere`); what is not asserted is
denied exactly where somebody answers for it (`DeniedIfAnswered`), and then
it does not hold (`DeniedDoesNotHold`, from `ClosedCoverageIsRight`: without
missed facts there are no views, and coverage is asked for as of a table). So
what the text leaves open is `Loose`, and what it asserts is `Truth` without it.
Formulas are arbitrary, as `HoldsIn` is; the one assumption added is that
signatures are sequences.

`NoIntentIsLost` is a statement about graphs: of the heirs of an ADR outside
all circles, one has fewest heirs, hence none (`FewestHeirs`, over the finite
set of ADRs), and is in force. `CurrentVerdictIsReproducible` holds because the
verdict is a function of the text and of coverage (`VerdictFrom`): a
formula over relations of the schema makes every migration an input,
migrations are only added, so equal counts are equal schemas; and without such a
relation the schema cannot matter (`VerdictWithoutSql`).

Every safety property and action property of the passing runs is a theorem. Only
model-checked: liveness (`CommandsReturn`, `RunReturns`; the prover has no
fairness), and what the recursive operators of `ClauseFormulas` compute of a
formula (induction over data).

## Abstractions

Not modelled: the content of documents and requests beyond what the properties
tell apart; loss of written but unsynced pages in a power failure; file names
that are not records; torn reads of `effective.smt2` by another check in the
same root (their text matches nothing, so the record is stale); clocks that
step back (`CompletedCheckIsReported` and `ImplementsLog` depend on that); a
`kill` utility that is missing is a constant (`KillAvailable`).

Steps coarser than the code, where nothing between the parts is told apart by a
property: a directory is listed at once (`ReviewStore!List`), as is a source tree
(`FactSnapshot!ListRoot`), and in `EvidenceBundle!Create` the root together with
creating the output directory; the gate's inventory and its discovery of native
tests are one read (`Gate!ReadScope`), as are a native test's evidence and its
inputs (`Gate!AssessNative`), where evidence in the wrong context, an ERROR in
the code, is not PASS either; a validation of a snapshot compares all of the
decisions at once (`CompareObligations`).

Conditions that differ from the code without a property telling:
`Gate!CoverageOk` wants all claims closed where the code refuses partial ones;
`FactSnapshot` has one configuration file and not the fallback of
`selected_config_path`; `ClauseFormulas!TypesOf` wants an argument to fit every
declaration, the code the first; two unnamed foreign keys of one table
statement, which the extractor gives one name (`sql_migrations.rs:646-669`),
have two in `MigrationSchema`, and a statement it does not know is one that
leaves the database alone (`do = "other"`), which ALTER TABLE SET SCHEMA and
SELECT INTO do not; primary keys are a union (`PrimaryColumns`); facts about the
migrations themselves and about unsupported statements are left out, and so are
the root `Cargo.toml` and the inputs of external providers among the inputs of a
record.

## Divergences

Four are findings with a run of their own (`check_opened`,
`provider_background`, `obligation`, `evidence_definition`). Others were met
while modelling; the properties except them by name or do not extend to them:

* `cargo_facts.rs:169`: the id of a dependency fact lacks the local name, and
  `add_facts` overwrites. A package declared twice, normally and as an optional
  renamed dependency, is taken as not declared unconditionally, and a clause that
  forbids it passes, although `docs/architecture.md:37-42` says that a rename
  cannot hide the actual package. Without its exception `VerdictIsOfProject` fails.
* A dependency atom whose source is outside the workspace is closed globally
  but gets no absence, so that requiring and forbidding it both pass.
* Of two ADRs that declare one entity type, the solver takes the union, the
  generic closure the last, the Cargo closure the first.
* A quantified variable with the name of an observed entity skips the look at
  coverage.
* The parser accepts a relation without arguments (`lib.rs:411`), but its use is
  printed as `(r )`, which Z3 rejects (`Rejected`).
* `docs/SQL_MIGRATION_FACT_PROVIDER.md:71-73` keeps columns of materialized
  views Partial; coverage of them is asked for as of a table, where the gap is
  not found. A child of a table with Partial columns gets no gap of its own.
* The extractor ignores or misreads some statements that PostgreSQL accepts
  (`Overlooked` lists them): ALTER COLUMN TYPE, changes of a parent, a
  dropped parent, NOT NULL behind a dropped primary key. After a rename or an
  unknown DO block positive facts of the old schema remain. A CREATE TABLE IF
  NOT EXISTS that a view of the name makes void is recorded as a table
  (`sql_migrations.rs:405` looks at tables only).
* `scenario run` and `model check` print `"current_validity": "CURRENT"` without
  assessing it (`main.rs:758`, `main.rs:1058`).
* A model check whose backend cannot be identified is stored and stale at once.

## Not modelled

The parser and the intent inventory are sequential and pure, without state
between calls; the models start from what they return. Verification roots are path
algebra. The reference database leaves out what no statement of `WellFormed`
asks for: ADD COLUMN IF NOT EXISTS, DROP IF EXISTS and CREATE TABLE AS IF NOT
EXISTS. The isolated producer (`scripts/isolated_producer.py`) is a wrapper
around operating-system isolation, of which only the resulting context is visible
here. Of the components that are `partly` modelled, `PROJECT.json` says what is
left out.

## Plan

1. Variants of `ProviderProcess` for scenario runners, whose pipes are read only
   after their exit, and for Quint, with `wait_with_output` after a kill.
2. Two writers of one evidence directory in `EvidenceGraph`, and files that are
   removed.
3. A refinement of the gate's snapshot path: `evaluate_internal` after
   `FactSnapshot` has accepted.
4. The content rules of `validate_response`.
