---------------------------- MODULE EvidenceLog ----------------------------
(***************************************************************************)
(* What the evidence store of a state root promises its readers, whatever  *)
(* runs at the same time: there is no evidence, or the newest is the       *)
(* verdict of a check on a revision it has loaded, next to the text of     *)
(* that revision.  The files hashed with it may be those of another one.   *)
(***************************************************************************)
EXTENDS EvidenceRules

CONSTANT StateRoots

VARIABLE newest   \* the newest evidence of each state root

Verdict == [files : Hashes, smt : Texts, config : Configs, result : Status]

Init == newest = [s \in StateRoots |-> None]

\* What a check of revision l may find that hashes the files later.
Found(l) ==
  {[files |-> FilesHash[l][r], smt |-> SmtOf[l], config |-> config, result |-> verdict] :
     r \in Revisions, config \in Configs, verdict \in Verdicts(l)}

Genuine == Verdict \cap UNION {Found(l) : l \in Revisions}

Append(s) == newest' \in {[newest EXCEPT ![s] = verdict] : verdict \in Genuine}

\* Most of what a check does changes nothing here.
Next ==
  \/ UNCHANGED newest
  \/ \E s \in StateRoots : Append(s)

Spec == Init /\ [][Next]_newest
=============================================================================
