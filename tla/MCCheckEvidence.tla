-------------------------- MODULE MCCheckEvidence --------------------------
(***************************************************************************)
(* A project of one ADR and one provider input (a migration, a manifest).  *)
(*   base      the ADR's constraint holds for the extracted facts          *)
(*   opened    the input was edited so that its provider can no longer     *)
(*             claim closed coverage; the extracted facts are the same     *)
(*   commented the input was edited without any effect                     *)
(*   broken    the ADR was edited to contradict the facts                  *)
(*   removed   the input is gone, and with it facts and coverage           *)
(* A run chooses at the start who checks: one process alone in its state   *)
(* root, while the sources are edited, or two that share one, on sources   *)
(* that hold still while a check is running.                               *)
(***************************************************************************)
EXTENDS CheckEvidence

CONSTANTS c1, c2, c3, s1, s2, none, unreadable, k1, k2, RevisionNames

CONSTANT RevisionsIn   \* [the parts of a run -> SUBSET Revisions]

VARIABLE part   \* "alone" or "shared"

MCStateRootOf == [c \in Checkers |-> IF c = c1 THEN s1 ELSE s2]

ADR == [r \in RevisionNames |-> IF r = "broken" THEN "adr2" ELSE "adr1"]
Input ==
  [r \in RevisionNames |->
     CASE r = "opened" -> "input2" [] r = "commented" -> "input3"
       [] r = "removed" -> "absent" [] OTHER -> "input1"]

MCSmtOf ==
  [r \in RevisionNames |->
     CASE r = "broken" -> "t2" [] r = "removed" -> "t3" [] OTHER -> "t1"]
MCTexts == {"t1", "t2", "t3"}
MCSatisfiable == [t \in MCTexts |-> t # "t2"]
MCCovered == [r \in RevisionNames |-> r \notin {"opened", "removed"}]

\* In "removed" only the ADR is relevant; elsewhere both files are.
MCHashes == {"adr1", "adr2"} \X {"input1", "input2", "input3", "irrelevant"}
MCFilesHash ==
  [l \in RevisionNames |-> [r \in RevisionNames |->
     IF l = "removed" THEN <<ADR[r], "irrelevant">>
     ELSE IF Input[r] = "absent" THEN unreadable ELSE <<ADR[r], Input[r]>>]]

AllRevisions == {"base", "opened", "commented", "broken", "removed"}
OpenedRevisions == {"base", "opened"}

\* Alone, coverage follows the text.
MCRevisionsIn ==
  [alone |-> {"base", "commented", "broken", "removed"},
   shared |-> {"base", "opened", "broken"}]
OpenedRevisionsIn == [alone |-> OpenedRevisions]

CheckersIn == [alone |-> {c1}, shared |-> {c2, c3}]

MCInit ==
  /\ Init
  /\ part \in DOMAIN RevisionsIn
  /\ rev = "base" /\ config = k1   \* the first edits may come before any check

MCNext ==
  /\ Next
  /\ UNCHANGED part
  /\ rev' \in RevisionsIn[part]
  /\ \A c \in Checkers \ CheckersIn[part] : pc'[c] = "idle"
  /\ part = "shared" =>
       config' = config /\ (rev' = rev \/ \A c \in Checkers : pc[c] = "idle")

MCSpec == MCInit /\ [][MCNext]_<<part, vars>>
=============================================================================
