-------------------------------- MODULE Gate --------------------------------
(***************************************************************************)
(* The required gate (gate.rs): a read-only process that composes reviews, *)
(* scope, coverage and evidence into one verdict.  It reads them one after *)
(* another, from trees and stores that others go on writing: checks store  *)
(* evidence, native-test results and reviews are imported, files edited.   *)
(* `prepare` takes the same first steps to draft the required set that a   *)
(* human approves and pins; `evaluate` then judges against it.             *)
(*                                                                         *)
(* The stores are seen through what they are shown to implement: evidence  *)
(* as an EvidenceLog, reviews as a history that grows and stays linear.    *)
(* Evaluations write nothing, so one gate process at a time shows all      *)
(* there is to see.                                                        *)
(***************************************************************************)
EXTENDS EvidenceLog

CONSTANTS
  GateRoot,       \* the state root the gate reads
  SpecRevisions,  \* revisions of the specification tree alone
  SpecOf,         \* [Revisions -> SpecRevisions]
  Records, Requirements, RequirementOf, SupersedesOf, DecisionOf, BoundTo,
  Formalization, Known, Active, Mapped, GapFree,   \* see ReviewRules
  Claims,         \* coverage claims: a relation and a scope
  ClaimsOf,       \* [Revisions -> SUBSET Claims], on the relations used
  ClosedOf,       \* ... those whose world is Closed and nowhere Partial
  Natives,        \* the native tests that the required set selects
  Definitions,    \* hashes of native-test definitions
  DefinitionOf,   \* [Revisions -> [Natives -> Definitions \cup {None}]]
  NativeHashes,   \* hashes of the inputs of native tests
  NativeInputsOf  \* [Revisions -> [Natives -> NativeHashes]]

Reviews == INSTANCE ReviewRules
             WITH Revisions <- SpecRevisions, NoRecord <- None

ASSUME GateAssumption ==
  /\ GateRoot \in StateRoots
  /\ SpecOf \in [Revisions -> SpecRevisions]
  /\ None \notin Records \cup Definitions \cup Hashes \cup Revisions
  /\ None \notin Verdict
  /\ ClaimsOf \in [Revisions -> SUBSET Claims]
  /\ ClosedOf \in [Revisions -> SUBSET Claims]
  /\ DefinitionOf \in [Revisions -> [Natives -> Definitions \cup {None}]]
  /\ NativeInputsOf \in [Revisions -> [Natives -> NativeHashes]]

ASSUME GateReviewsAssumption ==
  /\ RequirementOf \in [Records -> Requirements]
  /\ SupersedesOf \in [Records -> Records \cup {None}]
  /\ DecisionOf \in [Records -> {"draft", "approved", "no_semantic_change"}]
  /\ BoundTo \in [Records -> SpecRevisions]
  /\ Known \in [SpecRevisions -> SUBSET Requirements]
  /\ \A s \in SpecRevisions : Active[s] \subseteq Known[s]
  /\ GapFree \subseteq SpecRevisions

VARIABLES
  rev,       \* revision of the sources
  history,   \* the reviews a load of the store would accept
  native,    \* the newest native-test evidence of each selected test
  baseline,  \* the approved required set whose hash is pinned, None at first
  gate       \* the gate process: where it is and what it has read

gateVars == <<rev, newest, history, native, baseline, gate>>

Heads == [Requirements -> Records \cup {None}]
Tests == [Natives -> Definitions \cup {None}]

Scope == [inventory : SpecRevisions, heads : Heads, definitions : Tests]

\* `undisturbed` is history: the tree held still while the set was prepared.
RequiredSet ==
  [scope : Scope, required : SUBSET Claims, config : Configs, undisturbed : BOOLEAN]

NativeEvidence ==
  [definition : Definitions, inputs : NativeHashes, result : {"PASS", "FAIL"}]

Running == {"reviews", "inspect", "scope", "model", "files",
            "evidence", "definitions", "natives"}

Assessed == Status \cup {"STALE"}

GateState ==
  [pc : Running \cup {"idle", "done"},
   mode : {"prepare", "evaluate"},
   set : RequiredSet \cup {None},
   history : SUBSET Records,
   inspected : SpecRevisions \cup {None},
   scope : Scope \cup {None},
   scopeMatches : BOOLEAN,
   model : Revisions \cup {None},
   files : Hashes \cup {None},
   verdict : Assessed,
   definitions : Tests \cup {None},
   natives : [Natives -> Assessed \cup {None}],
   undisturbed : BOOLEAN]

\* What the gate has read by each step is what it is judged on (evaluate_internal).
TypeOK ==
  /\ rev \in Revisions
  /\ newest \in [StateRoots -> Verdict \cup {None}]
  /\ history \subseteq Records
  /\ native \in [Natives -> NativeEvidence \cup {None}]
  /\ baseline \in RequiredSet \cup {None}
  /\ gate \in GateState

\* A gate process that has read nothing.
NewRun(pcNow, mode, set) ==
  [pc |-> pcNow, mode |-> mode, set |-> set, history |-> {}, inspected |-> None,
   scope |-> None, scopeMatches |-> FALSE, model |-> None, files |-> None,
   verdict |-> "UNVERIFIED", definitions |-> None,
   natives |-> [n \in Natives |-> None], undisturbed |-> TRUE]

\* An error: it prints nothing but the error and exits with code 2.
Exited == NewRun("idle", "prepare", None)

GateInit ==
  /\ rev \in Revisions
  /\ Init
  /\ history = {}
  /\ native = [n \in Natives |-> None]
  /\ baseline = None
  /\ gate = Exited

-----------------------------------------------------------------------------
(* What the gate concludes from what it has read.                          *)

\* Only requirements whose review is CURRENT contribute a head.
HeadsReported(S, spec) ==
  [q \in Requirements |->
     IF Reviews!Assessment(S, spec, q) = "CURRENT" THEN Reviews!Head(S, q) ELSE None]

\* REVIEWS_CURRENT, by the report of a load and the inspection after it.
ReviewsOk(S, spec) == Reviews!ReviewsCurrent(S, spec)

Matches_AnyHeads(scope, set) ==
  /\ scope.inventory = set.scope.inventory
  /\ scope.definitions = set.scope.definitions

Matches(scope, set) == scope = set.scope

\* Only the coverage listed in the required set is looked at.
CoverageOk_RequiredOnly(model, set) == set.required \subseteq ClosedOf[model]

CoverageOk(model, set) ==
  /\ set.required \subseteq ClosedOf[model]
  /\ ClaimsOf[model] \subseteq ClosedOf[model]
  /\ Covered[model]

Checks == {gate.verdict} \cup {gate.natives[n] : n \in Natives}

\* ERROR before FAIL before INCOMPLETE.
Result ==
  CASE "ERROR" \in Checks -> "ERROR"
    [] "ERROR" \notin Checks /\ "FAIL" \in Checks -> "FAIL"
    [] OTHER -> IF /\ gate.scopeMatches
                   /\ ReviewsOk(gate.history, gate.inspected)
                   /\ CoverageOk(gate.model, gate.set)
                   /\ Checks = {"PASS"}
                  THEN "PASS" ELSE "INCOMPLETE"

-----------------------------------------------------------------------------
(* The gate process.  Its steps write to nothing but itself.               *)

Quietly == UNCHANGED <<rev, newest, history, native, baseline>>

StartPrepare ==
  /\ gate.pc \notin Running
  /\ gate' = NewRun("reviews", "prepare", None)
  /\ Quietly

\* read_set accepts the pinned, approved file and nothing else.
StartEvaluate ==
  /\ gate.pc \notin Running
  /\ baseline # None
  /\ gate' = NewRun("reviews", "evaluate", baseline)
  /\ Quietly

\* reviews::status loads the store first ...
LoadReviews ==
  /\ gate.pc = "reviews"
  /\ gate' = [gate EXCEPT !.pc = "inspect", !.history = history]
  /\ Quietly

\* ... and then inspects the specification tree.
InspectForReviews ==
  /\ gate.pc = "inspect"
  /\ gate' = [gate EXCEPT !.pc = "scope", !.inspected = SpecOf[rev]]
  /\ Quietly

\* snapshot() inspects the tree again.  prepare insists on a good scope and
\* keeps it, evaluate compares it with the pinned one.
ReadScope ==
  /\ gate.pc = "scope"
  /\ LET scope == [inventory |-> SpecOf[rev],
                   heads |-> HeadsReported(gate.history, gate.inspected),
                   definitions |-> DefinitionOf[rev]]
         acceptable == /\ ReviewsOk(gate.history, gate.inspected)
                       /\ \A n \in Natives : scope.definitions[n] # None
     IN  gate' = IF gate.mode = "evaluate"
                   THEN [gate EXCEPT !.pc = "model", !.scopeMatches = Matches(scope, gate.set)]
                 ELSE IF acceptable THEN [gate EXCEPT !.pc = "model", !.scope = scope]
                 ELSE Exited
  /\ Quietly

\* load_project_model_in_process; prepare is done with it.
LoadModel ==
  /\ gate.pc = "model"
  /\ gate' = [gate EXCEPT !.pc = IF gate.mode = "prepare" THEN "done" ELSE "files",
                          !.model = rev]
  /\ Quietly

\* A relevant input that is gone is hashed as if it were empty.
Fingerprint_AcceptsMissing ==
  /\ gate.pc = "files"
  /\ gate' = [gate EXCEPT !.pc = "evidence", !.files = FilesHash[gate.model][rev]]
  /\ Quietly

\* The files relevant to the loaded model are hashed as they are now.
Fingerprint ==
  /\ gate.pc = "files"
  /\ FilesHash[gate.model][rev] # Unreadable
  /\ gate' = [gate EXCEPT !.pc = "evidence", !.files = FilesHash[gate.model][rev]]
  /\ Quietly

\* The newest evidence counts, if it is current, and no other.
ReadEvidence ==
  /\ gate.pc = "evidence"
  /\ LET e == newest[GateRoot]
         current == /\ e.files = gate.files
                    /\ e.smt = SmtOf[gate.model]
                    /\ e.config = gate.set.config
     IN  gate' = [gate EXCEPT !.pc = "definitions", !.files = None,
                    !.verdict = IF e = None THEN "UNVERIFIED"
                                ELSE IF current THEN e.result ELSE "STALE"]
  /\ Quietly

\* native_test::discover runs a second time.
ReadDefinitions ==
  /\ gate.pc = "definitions"
  /\ gate' = [gate EXCEPT !.pc = "natives", !.definitions = DefinitionOf[rev]]
  /\ Quietly

\* native_test::latest_assessment of one selected test.
AssessNative(n) ==
  /\ gate.pc = "natives"
  /\ gate.natives[n] = None
  /\ LET definition == gate.definitions[n]
         e == native[n]
         status == IF definition = None \/ e = None THEN "UNVERIFIED"
                   ELSE IF e.definition = definition /\ e.inputs = NativeInputsOf[rev][n]
                          THEN e.result ELSE "STALE"
     IN  gate' = [gate EXCEPT !.natives[n] = status]
  /\ Quietly

Decide ==
  /\ gate.pc = "natives"
  /\ \A n \in Natives : gate.natives[n] # None
  /\ gate' = [gate EXCEPT !.pc = "done"]
  /\ Quietly

\* Whatever a step reads may be unreadable, malformed or not plain, the review
\* store rejected, the project in need of execution, a relevant file gone, or
\* the evidence directory hold a file that a dying check left half written.
ReadFails ==
  /\ gate.pc \in Running
  /\ gate' = Exited
  /\ Quietly

GateStep ==
  \/ StartPrepare \/ StartEvaluate \/ LoadReviews
  \/ InspectForReviews \/ ReadScope \/ LoadModel \/ Fingerprint \/ ReadEvidence
  \/ ReadDefinitions \/ (\E n \in Natives : AssessNative(n)) \/ Decide \/ ReadFails

-----------------------------------------------------------------------------
(* Its surroundings.                                                       *)

Edit ==
  /\ rev' \in Revisions \ {rev}
  /\ gate' = [gate EXCEPT !.undisturbed = @ /\ gate.pc \notin Running]
  /\ UNCHANGED <<newest, history, native, baseline>>

\* A check ends.
RecordEvidence ==
  /\ \E s \in StateRoots : Append(s)
  /\ UNCHANGED <<rev, history, native, baseline, gate>>

\* The accepted history of the review store is extended.
ImportReview ==
  /\ \E r \in Records \ history :
        /\ DecisionOf[r] # "draft"
        /\ Reviews!Linear(history \cup {r})
        /\ history' = history \cup {r}
  /\ UNCHANGED <<rev, newest, native, baseline, gate>>

\* native_test::import and store, of a report with either outcome.
ImportNative(n) ==
  /\ DefinitionOf[rev][n] # None
  /\ \E outcome \in {"PASS", "FAIL"} :
        native' = [native EXCEPT ![n] =
          [definition |-> DefinitionOf[rev][n], inputs |-> NativeInputsOf[rev][n],
           result |-> outcome]]
  /\ UNCHANGED <<rev, newest, history, baseline, gate>>

\* A human approves what prepare has printed and pins it.  The backend
\* version and the timeout are the ones prepare was given.
Approve ==
  /\ gate.pc = "done" /\ gate.mode = "prepare"
  /\ \E cfg \in Configs :
        baseline' = [scope |-> gate.scope, required |-> ClaimsOf[gate.model],
                     config |-> cfg, undisturbed |-> gate.undisturbed]
  /\ gate' = Exited
  /\ UNCHANGED <<rev, newest, history, native>>

GateNext ==
  \/ GateStep
  \/ Edit
  \/ RecordEvidence
  \/ ImportReview
  \/ \E n \in Natives : ImportNative(n)
  \/ Approve

GateSpec == GateInit /\ [][GateNext]_gateVars

-----------------------------------------------------------------------------
(* Properties                                                              *)

Passed == gate.pc = "done" /\ gate.mode = "evaluate" /\ Result = "PASS"

\* A gate that passes is right about the sources it has loaded: a check of
\* them would pass.  It may be given evidence whose hashes were taken after an
\* edit, or whose coverage no longer holds; it looks at the coverage of the
\* model again, and that makes good what the evidence does not say
\* (evaluate_internal: coverage_ok).
PassIsWarranted == Passed => Fresh(gate.model) = "PASS"

\* A gate that passes against a set prepared on a tree that held still has
\* judged the reviews against exactly the pinned specification, whatever was
\* edited there and back while it ran, and every requirement active in it was
\* approved in full.  If the tree holds still during the evaluation too, the
\* obligation it reports on is that specification's.
PassRestsOnApproval ==
  Passed /\ gate.set.undisturbed =>
    LET pinned == gate.set.scope.inventory
    IN  /\ gate.inspected = pinned
        /\ \A q \in Active[pinned] : Reviews!FullyApproved(gate.history, pinned, q)
        /\ gate.undisturbed => SpecOf[gate.model] = pinned
=============================================================================
