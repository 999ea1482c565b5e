-------------------------- MODULE ReviewRulesProofs --------------------------
(***************************************************************************)
(* What a linear set of reviews implies, for any set of records.           *)
(***************************************************************************)
EXTENDS ReviewRules, TLAPS

(***************************************************************************)
(* Following no_semantic_change links back from any record of a linear     *)
(* history leads to a full approval of the same formalization.  The proof  *)
(* takes, among the records for which this would fail, one whose           *)
(* predecessor is not among them: it exists because there is no cycle.     *)
(***************************************************************************)
ApprovedOrigin(S, r) ==
  \E o \in S : /\ RequirementOf[o] = RequirementOf[r]
               /\ DecisionOf[o] = "approved"
               /\ FormalizationOf(o) = FormalizationOf(r)

LEMMA EveryReviewHasAnOrigin ==
  ASSUME NEW S \in SUBSET Records, Linear(S), \A r \in S : DecisionOf[r] # "draft"
  PROVE  \A r \in S : ApprovedOrigin(S, r)
<1> DEFINE Orphans == {r \in S : ~ApprovedOrigin(S, r)}
<1>1. SUFFICES ASSUME Orphans # {} PROVE FALSE
  OBVIOUS
<1>2. PICK r \in Orphans : SupersedesOf[r] \notin Orphans
  <2>1. Orphans \in SUBSET S
    OBVIOUS
  <2>2. QED
    BY <1>1, <2>1 DEF Linear, NoCycle
<1>3. r \in S /\ r \in Records /\ ~ApprovedOrigin(S, r)
  OBVIOUS
<1>4. DecisionOf[r] = "no_semantic_change"
  BY <1>3, RecordsAssumption DEF ApprovedOrigin, Decision
<1>5. SupersedesOf[r] # NoRecord
  BY <1>3, <1>4 DEF Linear, OneApprovedRoot
<1>6. /\ SupersedesOf[r] \in S
      /\ RequirementOf[SupersedesOf[r]] = RequirementOf[r]
      /\ FormalizationOf(r) = FormalizationOf(SupersedesOf[r])
  BY <1>3, <1>4, <1>5 DEF Linear, PredecessorsPresent, ReapprovalKeepsFormalization
<1>7. ApprovedOrigin(S, SupersedesOf[r])
  BY <1>2, <1>6
<1>8. QED
  BY <1>3, <1>6, <1>7 DEF ApprovedOrigin

(***************************************************************************)
(* When status() reports REVIEWS_CURRENT for a linear set of reviews, each *)
(* active requirement's present formalization was approved in full.        *)
(***************************************************************************)
THEOREM CurrentIsApproved ==
  ASSUME NEW S \in SUBSET Records, Linear(S), \A r \in S : DecisionOf[r] # "draft",
         NEW rev \in Revisions, ReviewsCurrent(S, rev), NEW q \in Active[rev]
  PROVE  FullyApproved(S, rev, q)
<1>1. q \in Known[rev]
  BY InventoryAssumption
<1>2. Assessment(S, rev, q) \in {"CURRENT", "INACTIVE"}
  BY <1>1 DEF ReviewsCurrent
<1>3. Head(S, q) # NoRecord /\ BoundTo[Head(S, q)] = rev
  BY <1>1, <1>2 DEF Assessment
<1>4. Head(S, q) \in S /\ RequirementOf[Head(S, q)] = q
  BY <1>3 DEF Head
<1>5. ApprovedOrigin(S, Head(S, q))
  BY <1>4, EveryReviewHasAnOrigin
<1>6. FormalizationOf(Head(S, q)) = Formalization[rev][q]
  BY <1>3, <1>4 DEF FormalizationOf
<1>7. QED
  BY <1>4, <1>5, <1>6 DEF ApprovedOrigin, FullyApproved
=============================================================================
