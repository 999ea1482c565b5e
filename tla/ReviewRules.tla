---------------------------- MODULE ReviewRules ----------------------------
(***************************************************************************)
(* What a set of formalization reviews says (reviews.rs): the validation   *)
(* of a whole store, heads(), and the report of status(), as functions of  *)
(* the set of records read and of the inspected specification.             *)
(*                                                                         *)
(* A record is identified with its id (the hash of its content).  What     *)
(* `inspect` computes from the specification tree is a function of the     *)
(* tree's revision; a binding carries the hash of every inspected byte, so *)
(* two bindings of a requirement are equal exactly when the revisions are. *)
(***************************************************************************)
CONSTANTS
  Records,        \* review documents that may be submitted
  Requirements,   \* requirement ids
  Revisions,      \* revisions of the specification tree
  NoRecord,       \* supersedes: null; also "no document" of a status command
  RequirementOf,  \* [Records -> Requirements]          binding.requirement
  SupersedesOf,   \* [Records -> Records \cup {NoRecord}]        supersedes
  DecisionOf,     \* [Records -> Decision]                          decision
  BoundTo,        \* [Records -> Revisions]      the tree binding() hashed
  Formalization,  \* [Revisions -> [Requirements -> formalization_sha256]]
  Known,          \* [Revisions -> SUBSET Requirements]   in the inventory
  Active,         \* ... normative, and their decision active and inventoried
  Mapped,         \* ... with a complete mapping to existing constraints
  GapFree         \* revisions whose inventory report has no gap

Decision == {"draft", "approved", "no_semantic_change"}

ASSUME RecordsAssumption ==
  /\ NoRecord \notin Records
  /\ RequirementOf \in [Records -> Requirements]
  /\ SupersedesOf \in [Records -> Records \cup {NoRecord}]
  /\ DecisionOf \in [Records -> Decision]
  /\ BoundTo \in [Records -> Revisions]

ASSUME InventoryAssumption ==
  /\ Known \in [Revisions -> SUBSET Requirements]
  /\ \A rev \in Revisions : Active[rev] \subseteq Known[rev]
  /\ GapFree \subseteq Revisions

-----------------------------------------------------------------------------
(* heads(): the whole-store validation, as the conditions it rejects on.   *)

FormalizationOf(r) == Formalization[BoundTo[r]][RequirementOf[r]]

PredecessorsPresent(S) ==
  \A r \in S : SupersedesOf[r] # NoRecord =>
    /\ SupersedesOf[r] \in S
    /\ RequirementOf[SupersedesOf[r]] = RequirementOf[r]

NoBranch(S) ==
  \A r, q \in S :
    (SupersedesOf[r] = SupersedesOf[q] /\ SupersedesOf[r] # NoRecord) => r = q

ReapprovalKeepsFormalization_Unchecked(S) == TRUE

ReapprovalKeepsFormalization(S) ==
  \A r \in S :
    (DecisionOf[r] = "no_semantic_change" /\ SupersedesOf[r] # NoRecord) =>
      FormalizationOf(r) = FormalizationOf(SupersedesOf[r])

OneApprovedRoot(S) ==
  \A r, q \in S : SupersedesOf[r] = NoRecord =>
    /\ DecisionOf[r] # "no_semantic_change"
    /\ (SupersedesOf[q] = NoRecord /\ RequirementOf[q] = RequirementOf[r]) => r = q

\* Walking back from the records nobody supersedes reaches every record.
NoCycle(S) ==
  \A C \in SUBSET S : C # {} => \E r \in C : SupersedesOf[r] \notin C

Superseded(S) == {r \in S : \E q \in S : SupersedesOf[q] = r}

OneHead(S) ==
  \A r, q \in S \ Superseded(S) : RequirementOf[r] = RequirementOf[q] => r = q

\* Each record is checked against its predecessor only, the shape is not.
Linear_LinksOnly(S) ==
  /\ PredecessorsPresent(S)
  /\ ReapprovalKeepsFormalization(S)

Linear(S) ==
  /\ PredecessorsPresent(S)
  /\ NoBranch(S)
  /\ ReapprovalKeepsFormalization(S)
  /\ OneApprovedRoot(S)
  /\ NoCycle(S)
  /\ OneHead(S)

\* The latest review of a requirement, NoRecord when it has none.
Head(S, q) ==
  LET heads == {r \in S \ Superseded(S) : RequirementOf[r] = q}
  IN  IF heads = {} THEN NoRecord ELSE CHOOSE r \in heads : TRUE

-----------------------------------------------------------------------------
(* status(): the report is a function of the accepted history and of the   *)
(* revision inspected after it was loaded.                                 *)

Assessment(S, rev, q) ==
  CASE q \notin Known[rev] -> "REMOVED"
    [] q \in Known[rev] \ Active[rev] -> "INACTIVE"
    [] q \in Active[rev] \ Mapped[rev] -> "INELIGIBLE"
    [] q \in Active[rev] \cap Mapped[rev] /\ Head(S, q) = NoRecord -> "MISSING"
    [] OTHER -> IF BoundTo[Head(S, q)] = rev THEN "CURRENT" ELSE "STALE"

\* result == "REVIEWS_CURRENT"
ReviewsCurrent(S, rev) ==
  /\ rev \in GapFree
  /\ Active[rev] # {}
  /\ \A q \in Known[rev] \cup {RequirementOf[r] : r \in S} :
        Assessment(S, rev, q) \in {"CURRENT", "INACTIVE"}

\* Some record of S approves in full the formalization that q has in rev.
FullyApproved(S, rev, q) ==
  \E r \in S :
    /\ RequirementOf[r] = q
    /\ DecisionOf[r] = "approved"
    /\ FormalizationOf(r) = Formalization[rev][q]
=============================================================================
