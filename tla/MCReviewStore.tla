--------------------------- MODULE MCReviewStore ---------------------------
(***************************************************************************)
(* A review store with two requirements and four revisions of the tree.    *)
(*   v1 -> v2 changes the formalization of q1, v1 -> v3 only its prose;    *)
(*   v4 retires q1 and leaves q2 incompletely mapped.  q2, active in v1    *)
(*   and v4, has no review.                                                *)
(*   a   root of q1 at v1, approved                                        *)
(*   b   supersedes a: full approval at v2                                 *)
(*   c   supersedes a: no_semantic_change at v2, though the formula changed*)
(*   d   supersedes a: no_semantic_change at v3                            *)
(*   z   another root of q1, at v2          x   a draft                    *)
(* b, d and z are the ways in which two imports can branch the history.    *)
(***************************************************************************)
EXTENDS ReviewStore, TLC

CONSTANTS p1, p2, a, b, c, d, x, z, q1, q2, v1, v2, v3, v4, none

\* The documents that a run lets the processes import.
CONSTANT Submitted

MCProcs2 == {p1, p2}
Roots == {a, z}
Successors == {a, b, c, d, x}

MCRequirements == {q1, q2}
MCRevisions == {v1, v2, v3, v4}
MCRequirementOf == [r \in Submitted |-> q1]
MCSupersedesOf == [r \in Submitted |-> IF r \in {b, c, d} THEN a ELSE none]
MCDecisionOf ==
  [r \in Submitted |-> IF r = x THEN "draft"
                       ELSE IF r \in {c, d} THEN "no_semantic_change" ELSE "approved"]
MCBoundTo ==
  [r \in Submitted |-> IF r \in {b, c, z} THEN v2 ELSE IF r = d THEN v3 ELSE v1]
MCFormalization ==
  [rev \in MCRevisions |->
     [q \in MCRequirements |-> IF q = q1 /\ rev = v2 THEN "changed" ELSE "original"]]
MCKnown == [rev \in MCRevisions |-> {q1, q2}]
MCActive ==
  [rev \in MCRevisions |->
     CASE rev = v1 -> {q1, q2} [] rev = v4 -> {q2} [] OTHER -> {q1}]
MCMapped == [rev \in MCRevisions |-> IF rev = v4 THEN {} ELSE {q1, q2}]
MCGapFree == {v1, v2, v3}

Symmetry == Permutations(Procs)
=============================================================================
