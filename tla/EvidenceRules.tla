--------------------------- MODULE EvidenceRules ---------------------------
(***************************************************************************)
(* What a check concludes from the sources it has loaded (lib.rs), and     *)
(* what evidence fingerprints (evidence.rs).                               *)
(*                                                                         *)
(* Sources are abstracted to revisions.  SmtOf gives the text a revision   *)
(* lowers to, Satisfiable what that text means, Covered whether the facts  *)
(* that the constraints need absent lie inside closed coverage: the one    *)
(* thing the verdict depends on that the text does not contain.            *)
(* FilesHash[l][r] is the hash of the files that are relevant in revision  *)
(* l, read when the sources are at revision r.                             *)
(***************************************************************************)
CONSTANTS
  Revisions,    \* revisions of the project and specification files
  Texts,        \* SMT-LIB texts
  SmtOf,        \* [Revisions -> Texts]             obligation_to_smt
  Satisfiable,  \* [Texts -> BOOLEAN]
  Covered,      \* [Revisions -> BOOLEAN]   ~ formula_requires_uncovered_absence
  Hashes,       \* hashes of file sets
  FilesHash,    \* [Revisions -> [Revisions -> Hashes \cup {Unreadable}]]
  Unreadable,   \* a relevant file is gone
  Configs,      \* expected solver version and timeout
  None          \* no file, no record, nothing read yet

ASSUME SourcesAssumption ==
  /\ SmtOf \in [Revisions -> Texts]
  /\ Satisfiable \in [Texts -> BOOLEAN]
  /\ Covered \in [Revisions -> BOOLEAN]
  /\ FilesHash \in [Revisions -> [Revisions -> Hashes \cup {Unreadable}]]
  /\ Unreadable \notin Hashes
  /\ None \notin Texts

Status == {"PASS", "FAIL", "UNKNOWN", "UNVERIFIED", "ERROR"}

\* The verdict of a solver answer, after the open-world rule was applied.
StatusOf(answer, covered) ==
  CASE answer = "sat" -> IF covered THEN "PASS" ELSE "UNVERIFIED"
    [] answer = "unsat" -> IF covered THEN "FAIL" ELSE "UNVERIFIED"
    [] answer = "unknown" -> "UNKNOWN"
    [] OTHER -> "ERROR"

Decided(r) == IF Satisfiable[SmtOf[r]] THEN "sat" ELSE "unsat"

\* What a check of revision r reports when the solver decides its text ...
Fresh(r) == StatusOf(Decided(r), Covered[r])

\* ... and what it may report when the solver gives up (at its timeout or
\* before) or prints something that is no verdict.
Verdicts(r) == {StatusOf(answer, Covered[r]) : answer \in {Decided(r), "unknown", "garbage"}}
=============================================================================
