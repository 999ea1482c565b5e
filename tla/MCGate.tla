-------------------------------- MODULE MCGate --------------------------------
(***************************************************************************)
(* One ADR with one requirement, one provider input, one native test.      *)
(*   base      the facts satisfy the ADR, and coverage is closed where the *)
(*             constraint needs facts to be absent                         *)
(*   opened    the provider input was edited: the facts are the same, but  *)
(*             the constraint now needs absence outside of the coverage    *)
(*   reworded  the document that states the requirement was edited, which  *)
(*             is no input of the check                                    *)
(*   removed   the provider input is gone, and with it the coverage        *)
(* a approves the specification of base, b reapproves it for reworded.     *)
(***************************************************************************)
EXTENDS Gate

CONSTANTS s1, a, b, none, unreadable, k1, q1, t1, claim

MCRevisions == {"base", "opened", "reworded", "removed"}
MCSpecRevisions == {"spec1", "spec2"}
MCSpecOf == [r \in MCRevisions |-> IF r = "reworded" THEN "spec2" ELSE "spec1"]
MCSmtOf == [r \in MCRevisions |-> "smt"]
MCSatisfiable == [t \in {"smt"} |-> TRUE]
MCCovered == [r \in MCRevisions |-> r \in {"base", "reworded"}]
\* In "removed" only the ADR is relevant.
MCHashes == {"both", "edited", "adr"}
MCFilesHash ==
  [l \in MCRevisions |-> [r \in MCRevisions |->
     CASE l = "removed" -> "adr"
       [] l # "removed" /\ r = "removed" -> unreadable
       [] OTHER -> IF r = "opened" THEN "edited" ELSE "both"]]

MCRequirementOf == [r \in {a, b} |-> q1]
MCSupersedesOf == [r \in {a, b} |-> IF r = a THEN none ELSE a]
MCDecisionOf == [r \in {a, b} |-> IF r = a THEN "approved" ELSE "no_semantic_change"]
MCBoundTo == [r \in {a, b} |-> IF r = a THEN "spec1" ELSE "spec2"]
MCFormalization == [s \in MCSpecRevisions |-> [q \in {q1} |-> "formula"]]
MCOneRequirement == [s \in MCSpecRevisions |-> {q1}]

MCClaimsOf == [r \in MCRevisions |-> IF r = "removed" THEN {} ELSE {claim}]
MCDefinitionOf == [r \in MCRevisions |-> [n \in {t1} |-> "definition"]]
MCNativeInputsOf ==
  [r \in MCRevisions |-> [n \in {t1} |-> "input"]]
=============================================================================
