--------------------------- MODULE ReviewHistory ---------------------------
(***************************************************************************)
(* What the formalization-review store promises to everyone who reads it:  *)
(* there is one history of accepted reviews, it only ever grows, and the   *)
(* reviews of each requirement form a single chain.  No reader is ever     *)
(* shown one branch while another reader is shown a different one.         *)
(***************************************************************************)
CONSTANTS
  Records,        \* all review documents (content addressed: a record is its id)
  NoRecord,       \* the value of "supersedes" in a root record
  RequirementOf,  \* [Records -> requirement]
  SupersedesOf    \* [Records -> Records \cup {NoRecord}]

VARIABLE history  \* the largest set of records any reader has accepted

\* No record lacks its predecessor, and no two records of a requirement
\* follow the same predecessor (or both start the history).
Chained(S) ==
  /\ \A r \in S : SupersedesOf[r] \in S \cup {NoRecord}
  /\ \A r, q \in S :
        /\ RequirementOf[r] = RequirementOf[q]
        /\ SupersedesOf[r] = SupersedesOf[q]
        => r = q

Init == history = {}

Extend(S) ==
  /\ history \subseteq S
  /\ Chained(S)
  /\ history' = S

Next == \E S \in SUBSET Records : Extend(S)

Spec == Init /\ [][Next]_history
=============================================================================
