----------------------------- MODULE GateProofs -----------------------------
(***************************************************************************)
(* Proofs about the gate, for any stores, sources, requirements, tests and *)
(* records.  What it reads at different times it relates in two ways:      *)
(* evidence to the loaded model by the solver's text, reviews to the       *)
(* pinned scope by the review heads, each of which is bound to one         *)
(* specification.  Both hold through every edit.                           *)
(***************************************************************************)
EXTENDS Gate, TLAPS

Proved == INSTANCE ReviewRulesProofs
            WITH Revisions <- SpecRevisions, NoRecord <- None

Accepted(S) ==
  S \subseteq Records /\ Reviews!Linear(S) /\ \A r \in S : DecisionOf[r] # "draft"

LEMMA CurrentIsApproved ==
  ASSUME NEW S, Accepted(S), NEW s \in SpecRevisions,
         Reviews!ReviewsCurrent(S, s), NEW q \in Active[s]
  PROVE  Reviews!FullyApproved(S, s, q)
<1>1. Proved!RecordsAssumption /\ Proved!InventoryAssumption
  BY GateAssumption, GateReviewsAssumption
  DEF Proved!RecordsAssumption, Proved!InventoryAssumption, Proved!Decision
<1>2. Proved!Linear(S)
  BY DEF Accepted, Proved!Linear, Reviews!Linear, Proved!PredecessorsPresent,
     Reviews!PredecessorsPresent, Proved!NoBranch, Reviews!NoBranch,
     Proved!ReapprovalKeepsFormalization, Reviews!ReapprovalKeepsFormalization,
     Proved!OneApprovedRoot, Reviews!OneApprovedRoot, Proved!NoCycle, Reviews!NoCycle,
     Proved!OneHead, Reviews!OneHead, Proved!Superseded, Reviews!Superseded,
     Proved!FormalizationOf, Reviews!FormalizationOf
<1>3. Proved!ReviewsCurrent(S, s)
  BY DEF Proved!ReviewsCurrent, Reviews!ReviewsCurrent, Proved!Assessment,
     Reviews!Assessment, Proved!Head, Reviews!Head, Proved!Superseded, Reviews!Superseded
<1>4. Proved!FullyApproved(S, s, q)
  BY <1>1, <1>2, <1>3, Proved!CurrentIsApproved DEF Accepted
<1>5. QED
  BY <1>4 DEF Proved!FullyApproved, Reviews!FullyApproved, Proved!FormalizationOf,
              Reviews!FormalizationOf

LEMMA HeadIsRecord ==
  ASSUME NEW S \in SUBSET Records, NEW q
  PROVE  Reviews!Head(S, q) \in Records \cup {None}
  BY DEF Reviews!Head, Reviews!Superseded

\* What the heads of a report are, and when there is one.
LEMMA ReportedHeads ==
  ASSUME NEW S \in SUBSET Records, NEW s \in SpecRevisions
  PROVE  /\ HeadsReported(S, s) \in Heads
         /\ \A q \in Requirements : HeadsReported(S, s)[q] # None =>
              BoundTo[HeadsReported(S, s)[q]] = s
         /\ Reviews!ReviewsCurrent(S, s) =>
              \E q \in Requirements : HeadsReported(S, s)[q] # None
<1>1. ASSUME NEW q, Reviews!Assessment(S, s, q) = "CURRENT"
      PROVE  Reviews!Head(S, q) # None /\ BoundTo[Reviews!Head(S, q)] = s
  BY <1>1 DEF Reviews!Assessment
<1>2. ASSUME Reviews!ReviewsCurrent(S, s)
      PROVE  \E q \in Requirements : Reviews!Assessment(S, s, q) = "CURRENT"
  <2>1. PICK q \in Active[s] : Reviews!Assessment(S, s, q) \in {"CURRENT", "INACTIVE"}
    BY <1>2, GateReviewsAssumption DEF Reviews!ReviewsCurrent
  <2>2. q \in Known[s] /\ q \in Requirements
    BY GateReviewsAssumption
  <2>3. Reviews!Assessment(S, s, q) # "INACTIVE"
    BY <2>1, <2>2 DEF Reviews!Assessment
  <2>4. QED
    BY <2>1, <2>2, <2>3
<1>3. QED
  BY <1>1, <1>2, HeadIsRecord DEF HeadsReported, Heads

-----------------------------------------------------------------------------

\* What has been read by when.
Before(labels) == gate.pc \notin {"idle"} \cup labels

ReadInv ==
  /\ gate.mode = "evaluate" => gate.set \in RequiredSet
  /\ gate.mode = "prepare" =>
       gate.pc \notin {"files", "evidence", "definitions", "natives"}
  /\ gate.mode = "prepare" /\ gate.pc \in {"model", "done"} => gate.scope \in Scope
  /\ Before({"reviews", "inspect"}) => gate.inspected \in SpecRevisions
  /\ Before({"reviews", "inspect", "scope", "model"}) => gate.model \in Revisions
  /\ gate.pc = "natives" => gate.definitions \in Tests

Typed == TypeOK /\ ReadInv

LEMMA TypeInit == GateInit => Typed
  BY DEF GateInit, Init, Exited, NewRun, Typed, TypeOK, ReadInv, Before, GateState,
         Running, Assessed, Status

LEMMA GenuineIsVerdict == Genuine \subseteq Verdict
  BY DEF Genuine

LEMMA TypeStep == Typed /\ [GateNext]_gateVars => Typed'
<1> SUFFICES ASSUME Typed, [GateNext]_gateVars PROVE Typed'
  OBVIOUS
<1> USE GateAssumption, SourcesAssumption
    DEF Typed, TypeOK, ReadInv, Before, GateState, Running, Quietly
<1>1. CASE StartPrepare
  BY <1>1 DEF StartPrepare, NewRun, Assessed, Status
<1>2. CASE StartEvaluate
  BY <1>2 DEF StartEvaluate, NewRun, Assessed, Status
<1>3. CASE LoadReviews
  BY <1>3 DEF LoadReviews
<1>4. CASE InspectForReviews
  BY <1>4 DEF InspectForReviews
<1>5. CASE ReadScope
  <2> DEFINE scope == [inventory |-> SpecOf[rev],
                       heads |-> HeadsReported(gate.history, gate.inspected),
                       definitions |-> DefinitionOf[rev]]
  <2>1. scope \in Scope
    <3>1. gate.inspected \in SpecRevisions /\ gate.history \in SUBSET Records
      BY <1>5 DEF ReadScope
    <3>2. HeadsReported(gate.history, gate.inspected) \in Heads
      BY <3>1, ReportedHeads
    <3>3. SpecOf[rev] \in SpecRevisions /\ DefinitionOf[rev] \in Tests
      BY DEF Tests
    <3>4. QED
      BY <3>2, <3>3 DEF Scope
  <2>2. Matches(scope, gate.set) \in BOOLEAN
    BY DEF Matches
  <2>3. \/ /\ gate.mode = "evaluate"
           /\ gate' = [gate EXCEPT !.pc = "model", !.scopeMatches = Matches(scope, gate.set)]
        \/ gate.mode = "prepare" /\ gate' = [gate EXCEPT !.pc = "model", !.scope = scope]
        \/ gate' = Exited
    BY <1>5 DEF ReadScope
  <2> HIDE DEF scope
  <2>4. UNCHANGED <<rev, newest, history, native, baseline>> /\ gate.pc = "scope"
    BY <1>5 DEF ReadScope
  <2>5. CASE gate' = Exited
    BY <2>4, <2>5 DEF Exited, NewRun, Assessed, Status
  <2>6. CASE gate' = [gate EXCEPT !.pc = "model", !.scope = scope]
    BY <2>1, <2>4, <2>6
  <2>7. CASE /\ gate.mode = "evaluate"
             /\ gate' = [gate EXCEPT !.pc = "model", !.scopeMatches = Matches(scope, gate.set)]
    BY <2>2, <2>4, <2>7
  <2>8. QED
    BY <2>3, <2>5, <2>6, <2>7
<1>6. CASE LoadModel
  BY ZenonT(60), <1>6 DEF LoadModel
<1>7. CASE Fingerprint
  <2>1. FilesHash[gate.model][rev] \in Hashes
    BY <1>7 DEF Fingerprint
  <2>2. QED
    BY <1>7, <2>1 DEF Fingerprint
<1>8. CASE ReadEvidence
  <2>1. PICK verdict \in Assessed :
          gate' = [gate EXCEPT !.pc = "definitions", !.files = None, !.verdict = verdict]
    <3>1. newest[GateRoot] # None => newest[GateRoot].result \in Assessed
      BY DEF Verdict, Assessed
    <3>2. QED
      BY <1>8, <3>1 DEF ReadEvidence, Assessed, Status
  <2>2. gate.pc = "evidence" /\ UNCHANGED <<rev, newest, history, native, baseline>>
    BY <1>8 DEF ReadEvidence
  <2>3. QED
    BY <2>1, <2>2
<1>9. CASE ReadDefinitions
  BY <1>9 DEF ReadDefinitions, Tests
<1>10. ASSUME NEW n \in Natives, AssessNative(n) PROVE Typed'
  <2>1. PICK status \in Assessed : gate' = [gate EXCEPT !.natives[n] = status]
    <3>1. native[n] # None => native[n].result \in Assessed
      BY <1>10 DEF NativeEvidence, Assessed, Status
    <3>2. QED
      BY <1>10, <3>1 DEF AssessNative, Assessed, Status
  <2>2. UNCHANGED <<rev, newest, history, native, baseline>>
    BY <1>10 DEF AssessNative
  <2>3. QED
    BY <2>1, <2>2
<1>11. CASE Decide
  BY <1>11 DEF Decide
<1>12. CASE ReadFails
  BY <1>12 DEF ReadFails, Exited, NewRun, Assessed, Status
<1>13. CASE Edit
  <2> DEFINE still == gate.undisturbed /\ gate.pc \notin Running
  <2>1. gate' = [gate EXCEPT !.undisturbed = still] /\ still \in BOOLEAN
    BY <1>13 DEF Edit
  <2> HIDE DEF still
  <2>2. rev' \in Revisions /\ UNCHANGED <<newest, history, native, baseline>>
    BY <1>13 DEF Edit
  <2>3. QED
    BY <2>1, <2>2
<1>14. CASE RecordEvidence
  <2>1. PICK s \in StateRoots, verdict \in Genuine :
          newest' = [newest EXCEPT ![s] = verdict]
    BY <1>14 DEF RecordEvidence, Append
  <2>2. UNCHANGED <<rev, history, native, baseline, gate>>
    BY <1>14 DEF RecordEvidence
  <2>3. QED
    BY <2>1, <2>2, GenuineIsVerdict
<1>15. CASE ImportReview
  BY <1>15 DEF ImportReview
<1>16. ASSUME NEW n \in Natives, ImportNative(n) PROVE Typed'
  BY <1>16 DEF ImportNative, NativeEvidence
<1>17. CASE Approve
  BY <1>17 DEF Approve, RequiredSet, Exited, NewRun, Assessed, Status
<1>18. CASE UNCHANGED gateVars
  BY <1>18 DEF gateVars
<1> HIDE DEF Typed
<1>19. QED
  BY <1>1, <1>2, <1>3, <1>4, <1>5, <1>6, <1>7, <1>8, <1>9, <1>10, <1>11, <1>12, <1>13,
     <1>14, <1>15, <1>16, <1>17, <1>18
  DEF GateNext, GateStep

LEMMA AlwaysTyped == GateSpec => []Typed
  BY TypeInit, TypeStep, PTL DEF GateSpec

(***************************************************************************)
(* The gate's variables keep their types: no step uses what has not been   *)
(* read yet.                                                               *)
(***************************************************************************)
THEOREM GateTypeCorrect == GateSpec => []TypeOK
  BY AlwaysTyped, PTL DEF Typed
-----------------------------------------------------------------------------

\* Evidence is genuine, and a verdict that was found current is about the text
\* of the loaded model.
WarrantInv ==
  /\ \A s \in StateRoots : newest[s] \in Genuine \cup {None}
  /\ gate.mode = "evaluate" /\ gate.verdict = "PASS" =>
       /\ gate.pc \in {"definitions", "natives", "done"}
       /\ Satisfiable[SmtOf[gate.model]]

LEMMA PassMeansSatisfiable ==
  ASSUME NEW e \in Genuine, e.result = "PASS"
  PROVE  Satisfiable[e.smt]
<1>1. PICK l \in Revisions : e.smt = SmtOf[l] /\ e.result \in Verdicts(l)
  BY DEF Genuine, Found
<1>2. QED
  BY <1>1, SourcesAssumption DEF Verdicts, Decided, StatusOf

LEMMA WarrantStep == Typed /\ WarrantInv /\ [GateNext]_gateVars => WarrantInv'
<1> SUFFICES ASSUME Typed, WarrantInv, [GateNext]_gateVars PROVE WarrantInv'
  OBVIOUS
<1> USE GateAssumption
    DEF Typed, TypeOK, ReadInv, Before, GateState, Running, WarrantInv, Quietly
<1>1. CASE StartPrepare \/ StartEvaluate \/ ReadFails \/ Approve
  BY <1>1 DEF StartPrepare, StartEvaluate, ReadFails, Approve, Exited, NewRun
<1>2. CASE LoadReviews \/ InspectForReviews
  BY ZenonT(60), <1>2 DEF LoadReviews, InspectForReviews
<1>3. CASE ReadScope
  BY <1>3 DEF ReadScope, Exited, NewRun
<1>4. CASE LoadModel \/ Fingerprint
  BY ZenonT(60), <1>4 DEF LoadModel, Fingerprint
<1>5. CASE ReadEvidence
  <2> DEFINE e == newest[GateRoot]
  <2>1. gate'.verdict = "PASS" =>
          e \in Genuine /\ e.smt = SmtOf[gate.model] /\ e.result = "PASS"
    BY <1>5 DEF ReadEvidence
  <2>2. gate'.model = gate.model /\ gate'.pc = "definitions" /\ newest' = newest
    BY <1>5 DEF ReadEvidence
  <2>3. gate'.verdict = "PASS" => Satisfiable[SmtOf[gate.model]]
    BY <2>1, PassMeansSatisfiable
  <2>4. QED
    BY <2>2, <2>3
<1>6. CASE ReadDefinitions
  BY <1>6 DEF ReadDefinitions
<1>7. CASE Decide
  BY <1>7 DEF Decide
<1>8. ASSUME NEW n \in Natives, AssessNative(n) PROVE WarrantInv'
  BY <1>8 DEF AssessNative
<1>9. CASE Edit
  BY <1>9 DEF Edit
<1>10. CASE RecordEvidence
  BY SMTT(60), <1>10 DEF RecordEvidence, Append
<1>11. CASE ImportReview \/ UNCHANGED gateVars
  BY <1>11 DEF ImportReview, gateVars
<1>12. ASSUME NEW n \in Natives, ImportNative(n) PROVE WarrantInv'
  BY <1>12 DEF ImportNative
<1> HIDE DEF WarrantInv
<1>13. QED
  BY <1>1, <1>2, <1>3, <1>4, <1>5, <1>6, <1>7, <1>8, <1>9, <1>10, <1>11, <1>12
  DEF GateNext, GateStep

\* What PASS says of the parts it is composed of.
LEMMA PassParts ==
  ASSUME Passed
  PROVE  /\ gate.verdict = "PASS"
         /\ gate.scopeMatches
         /\ ReviewsOk(gate.history, gate.inspected)
         /\ CoverageOk(gate.model, gate.set)
<1>1. /\ gate.scopeMatches
      /\ ReviewsOk(gate.history, gate.inspected)
      /\ CoverageOk(gate.model, gate.set)
      /\ Checks = {"PASS"}
  BY DEF Passed, Result
<1>2. gate.verdict = "PASS"
  BY <1>1 DEF Checks
<1>3. QED
  BY <1>1, <1>2

(***************************************************************************)
(* A gate that passes is right about the sources it loaded, whatever       *)
(* checks, imports and edits went on while it read: a check of them passes.*)
(***************************************************************************)
THEOREM GatePassIsWarranted == GateSpec => []PassIsWarranted
<1>1. GateInit => WarrantInv
  BY DEF GateInit, Init, WarrantInv, Exited, NewRun
<1>2. Typed /\ WarrantInv => PassIsWarranted
  <2> SUFFICES ASSUME Typed, WarrantInv, Passed PROVE Fresh(gate.model) = "PASS"
    BY DEF PassIsWarranted
  <2>1. Satisfiable[SmtOf[gate.model]]
    BY PassParts DEF WarrantInv, Passed
  <2>2. Covered[gate.model]
    BY PassParts DEF CoverageOk
  <2>3. QED
    BY <2>1, <2>2 DEF Fresh, Decided, StatusOf
<1>3. QED
  BY <1>1, <1>2, WarrantStep, AlwaysTyped, PTL DEF GateSpec
-----------------------------------------------------------------------------

\* Every head of a scope is bound to the specification of that scope.
Bound(scope) ==
  \A q \in Requirements :
    scope.heads[q] # None => BoundTo[scope.heads[q]] = scope.inventory

StoresInv ==
  /\ Accepted(history)
  /\ gate.pc # "idle" => Accepted(gate.history)

\* A set prepared on a tree that held still is consistent in itself, from the
\* draft over the pinned file to the evaluation.
SetInv ==
  /\ gate.mode = "prepare" /\ gate.pc \in {"model", "done"} /\ gate.undisturbed =>
       Bound(gate.scope)
  /\ baseline # None /\ baseline.undisturbed => Bound(baseline.scope)
  /\ gate.mode = "evaluate" /\ gate.set.undisturbed => Bound(gate.set.scope)

\* What was inspected for the reviews, what the scope was found to match, and,
\* on a tree that has held still, what was loaded.
StillInv ==
  /\ gate.scopeMatches =>
       /\ gate.mode = "evaluate"
       /\ gate.pc \in {"model", "files", "evidence", "definitions", "natives", "done"}
       /\ gate.set.scope.heads = HeadsReported(gate.history, gate.inspected)
  /\ gate.undisturbed =>
       /\ gate.pc \in {"scope", "model"} => gate.inspected = SpecOf[rev]
       /\ gate.pc \in {"files", "evidence", "definitions", "natives", "done"} =>
            gate.inspected = SpecOf[gate.model]

ApprovalInv == StoresInv /\ SetInv /\ StillInv

LEMMA ApprovalStep == Typed /\ ApprovalInv /\ [GateNext]_gateVars => ApprovalInv'
<1> SUFFICES ASSUME Typed, ApprovalInv, [GateNext]_gateVars PROVE ApprovalInv'
  OBVIOUS
<1> USE GateAssumption
    DEF Typed, TypeOK, ReadInv, Before, GateState, Running, ApprovalInv, StoresInv, SetInv,
        StillInv, Quietly
<1>1. Accepted({})
  BY DEF Accepted, Reviews!Linear, Reviews!PredecessorsPresent, Reviews!NoBranch,
         Reviews!ReapprovalKeepsFormalization, Reviews!OneApprovedRoot, Reviews!NoCycle,
         Reviews!OneHead
<1>2. CASE StartPrepare \/ ReadFails
  <2>1. /\ gate' = NewRun("reviews", "prepare", None) \/ gate' = NewRun("idle", "prepare", None)
        /\ UNCHANGED <<history, baseline>>
    BY <1>2 DEF StartPrepare, ReadFails, Exited
  <2>2. /\ gate'.pc \in {"reviews", "idle"} /\ gate'.mode = "prepare"
        /\ gate'.history = {} /\ gate'.scopeMatches = FALSE
    BY <2>1 DEF NewRun
  <2>3. QED
    BY <1>1, <2>1, <2>2
<1>3. CASE StartEvaluate
  <2>1. /\ gate' = NewRun("reviews", "evaluate", baseline)
        /\ baseline # None
        /\ UNCHANGED <<history, baseline>>
    BY <1>3 DEF StartEvaluate
  <2>2. /\ gate'.pc = "reviews" /\ gate'.mode = "evaluate" /\ gate'.set = baseline
        /\ gate'.history = {} /\ gate'.scopeMatches = FALSE
    BY <2>1 DEF NewRun
  <2>3. QED
    BY <1>1, <2>1, <2>2
<1>4. CASE LoadReviews
  <2>1. /\ gate' = [gate EXCEPT !.pc = "inspect", !.history = history]
        /\ gate.pc = "reviews"
        /\ UNCHANGED <<rev, history, baseline>>
    BY <1>4 DEF LoadReviews
  <2>2. ~gate.scopeMatches
    BY <2>1
  <2>3. QED
    BY <2>1, <2>2
<1>5. CASE InspectForReviews
  <2>1. /\ gate' = [gate EXCEPT !.pc = "scope", !.inspected = SpecOf[rev]]
        /\ gate.pc = "inspect"
        /\ UNCHANGED <<rev, history, baseline>>
    BY <1>5 DEF InspectForReviews
  <2>2. ~gate.scopeMatches
    BY <2>1
  <2>3. QED
    BY <2>1, <2>2
<1>6. CASE ReadScope
  <2> DEFINE scope == [inventory |-> SpecOf[rev],
                       heads |-> HeadsReported(gate.history, gate.inspected),
                       definitions |-> DefinitionOf[rev]]
  <2>1. \/ /\ gate.mode = "evaluate"
           /\ gate' = [gate EXCEPT !.pc = "model", !.scopeMatches = Matches(scope, gate.set)]
        \/ gate' = [gate EXCEPT !.pc = "model", !.scope = scope]
        \/ gate' = Exited
    BY <1>6 DEF ReadScope
  <2>2. /\ gate.pc = "scope"
        /\ UNCHANGED <<rev, newest, history, native, baseline>>
    BY <1>6 DEF ReadScope
  <2>3. gate.undisturbed => Bound(scope)
    BY SMTT(60), <2>2, ReportedHeads DEF Bound
  <2>4. Matches(scope, gate.set) =>
          gate.set.scope.heads = HeadsReported(gate.history, gate.inspected)
    BY DEF Matches
  <2> HIDE DEF scope
  <2>5. CASE gate' = Exited
    BY <2>2, <2>5 DEF Exited, NewRun
  <2>6. CASE gate' = [gate EXCEPT !.pc = "model", !.scope = scope]
    BY <2>2, <2>3, <2>6
  <2>7. CASE /\ gate.mode = "evaluate"
             /\ gate' = [gate EXCEPT !.pc = "model", !.scopeMatches = Matches(scope, gate.set)]
    BY <2>2, <2>4, <2>7
  <2>8. QED
    BY <2>1, <2>5, <2>6, <2>7
<1>7. CASE LoadModel
  BY <1>7 DEF LoadModel
<1>8. CASE Fingerprint
  BY <1>8 DEF Fingerprint
<1>9. CASE ReadDefinitions
  BY <1>9 DEF ReadDefinitions
<1>10. CASE Decide
  BY <1>10 DEF Decide
<1>11. CASE ReadEvidence
  BY <1>11 DEF ReadEvidence
<1>12. ASSUME NEW n \in Natives, AssessNative(n) PROVE ApprovalInv'
  BY <1>12 DEF AssessNative
<1>13. CASE Edit
  BY <1>13 DEF Edit
<1>14. CASE ImportReview
  BY <1>14 DEF ImportReview, Accepted
<1>15. CASE RecordEvidence \/ UNCHANGED gateVars
  BY <1>15 DEF RecordEvidence, gateVars
<1>16. ASSUME NEW n \in Natives, ImportNative(n) PROVE ApprovalInv'
  BY <1>16 DEF ImportNative
<1>17. CASE Approve
  <2>1. /\ gate.pc = "done" /\ gate.mode = "prepare"
        /\ gate' = NewRun("idle", "prepare", None)
        /\ history' = history
        /\ baseline'.scope = gate.scope /\ baseline'.undisturbed = gate.undisturbed
    BY <1>17 DEF Approve, Exited
  <2>2. /\ gate'.pc = "idle" /\ gate'.mode = "prepare" /\ gate'.scopeMatches = FALSE
    BY <2>1 DEF NewRun
  <2>3. gate.undisturbed => Bound(baseline'.scope)
    BY <2>1
  <2>4. QED
    BY <2>1, <2>2, <2>3 DEF Bound
<1> HIDE DEF ApprovalInv
<1>18. QED
  BY <1>2, <1>3, <1>4, <1>5, <1>6, <1>7, <1>8, <1>9, <1>10, <1>11, <1>12, <1>13, <1>14,
     <1>15, <1>16, <1>17
  DEF GateNext, GateStep

(***************************************************************************)
(* A gate that passes against a set prepared on a tree that held still has *)
(* judged the reviews against the pinned specification, every requirement  *)
(* of which was approved in full.  The heads carry the argument: some head *)
(* is current, it is bound to the specification that was inspected, and it *)
(* is the pinned one, which is bound to the pinned specification.          *)
(***************************************************************************)
THEOREM GatePassRestsOnApproval == GateSpec => []PassRestsOnApproval
<1>1. GateInit => ApprovalInv
  BY GateAssumption
  DEF GateInit, ApprovalInv, StoresInv, SetInv, StillInv, Exited, NewRun, Accepted,
      Reviews!Linear, Reviews!PredecessorsPresent, Reviews!NoBranch,
      Reviews!ReapprovalKeepsFormalization, Reviews!OneApprovedRoot, Reviews!NoCycle,
      Reviews!OneHead
<1>2. Typed /\ ApprovalInv => PassRestsOnApproval
  <2> SUFFICES ASSUME Typed, ApprovalInv, Passed, gate.set.undisturbed
               PROVE  LET pinned == gate.set.scope.inventory
                      IN  /\ gate.inspected = pinned
                          /\ \A q \in Active[pinned] :
                               Reviews!FullyApproved(gate.history, pinned, q)
                          /\ gate.undisturbed => SpecOf[gate.model] = pinned
    BY DEF PassRestsOnApproval
  <2>1. /\ gate.pc = "done" /\ gate.mode = "evaluate"
        /\ gate.history \in SUBSET Records /\ gate.inspected \in SpecRevisions
        /\ Accepted(gate.history)
    BY DEF Passed, Typed, TypeOK, GateState, ReadInv, Before, ApprovalInv, StoresInv
  <2>2. /\ Bound(gate.set.scope)
        /\ gate.set.scope.heads = HeadsReported(gate.history, gate.inspected)
        /\ gate.undisturbed => gate.inspected = SpecOf[gate.model]
    BY <2>1, PassParts DEF ApprovalInv, SetInv, StillInv
  <2>3. Reviews!ReviewsCurrent(gate.history, gate.inspected)
    BY PassParts DEF ReviewsOk
  <2>4. PICK q \in Requirements :
          /\ HeadsReported(gate.history, gate.inspected)[q] # None
          /\ BoundTo[HeadsReported(gate.history, gate.inspected)[q]] = gate.inspected
    BY <2>1, <2>3, ReportedHeads
  <2>5. gate.inspected = gate.set.scope.inventory
    BY <2>2, <2>4 DEF Bound
  <2>6. QED
    BY <2>1, <2>2, <2>3, <2>5, CurrentIsApproved
<1>3. QED
  BY <1>1, <1>2, ApprovalStep, AlwaysTyped, PTL DEF GateSpec
=============================================================================
