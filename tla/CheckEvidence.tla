--------------------------- MODULE CheckEvidence ---------------------------
(***************************************************************************)
(* `adrproof check` and the evidence it leaves behind (lib.rs              *)
(* run_check_with_roots, evidence.rs).  A check loads the project, writes  *)
(* the obligation to effective.smt2, runs the solver on the text it has in *)
(* memory, reads effective.smt2 back, hashes the input files as they are   *)
(* by then, and appends an evidence record to the state root; status and   *)
(* the gate later call a record current when the hashes they compute match.*)
(* Nothing locks the sources or the state root: files are edited, other    *)
(* checks run, and a check may die between any two steps.                  *)
(***************************************************************************)
EXTENDS Naturals, EvidenceRules

CONSTANTS
  Checkers,           \* processes that run checks of the one project
  StateRoots,         \* state directories
  StateRootOf,        \* [Checkers -> StateRoots]   --state-root
  EditsDuringChecks,  \* may the sources change while a check is running?
  MaxRecords          \* bound: no check starts after so many records

ASSUME CheckAssumption ==
  /\ StateRootOf \in [Checkers -> StateRoots]
  /\ EditsDuringChecks \in BOOLEAN
  /\ MaxRecords \in Nat

VARIABLES
  rev,       \* revision of the sources
  config,    \* configuration in adrproof.json
  undisturbed, \* history: checks during which the sources have not changed
  pc,        \* what each check does next
  loaded,    \* the revision a check has loaded
  using,     \* the configuration it was started with
  result,    \* its VerificationStatus
  smt,       \* effective.smt2 as it read it back
  record,    \* the evidence record it stores
  clock,     \* wall clock, in records stamped
  smtFile,   \* effective.smt2 of each state root
  modelFile, \* evidence the project-model.json of each state root names
  ledger,    \* evidence the proof-ledger.json of each state root embeds
  temporary, \* evidence/.*.tmp of each state root
  evidence   \* evidence/*.json of each state root

sources == <<rev, config, undisturbed>>
local  == <<loaded, using, result, smt, record>>
shared == <<smtFile, modelFile, ledger, temporary, evidence>>
vars   == <<sources, pc, local, clock, shared>>

Evidence ==
  [files : Hashes, smt : Texts, config : Configs, result : Status, at : Nat]

PC == {"idle", "lowering", "solving", "rereading", "hashing", "writing",
       "renaming", "modelling", "ledgering"}

\* Files, records and commands of a state root stay well formed (run_check_with_roots).
TypeOK ==
  /\ rev \in Revisions
  /\ config \in Configs
  /\ undisturbed \subseteq Checkers
  /\ pc \in [Checkers -> PC]
  /\ loaded \in [Checkers -> Revisions]
  /\ using \in [Checkers -> Configs]
  /\ result \in [Checkers -> Status]
  /\ smt \in [Checkers -> Texts \cup {None}]
  /\ record \in [Checkers -> Evidence \cup {None}]
  /\ clock \in Nat
  /\ smtFile \in [StateRoots -> Texts \cup {None}]
  /\ modelFile \in [StateRoots -> Evidence \cup {None}]
  /\ ledger \in [StateRoots -> Evidence \cup {None}]
  /\ temporary \in [StateRoots -> SUBSET Evidence]
  /\ evidence \in [StateRoots -> SUBSET Evidence]

Init ==
  /\ rev \in Revisions
  /\ config \in Configs
  /\ undisturbed = {}
  /\ pc = [c \in Checkers |-> "idle"]
  /\ loaded = [c \in Checkers |-> rev]
  /\ using = [c \in Checkers |-> config]
  /\ result = [c \in Checkers |-> "UNVERIFIED"]
  /\ smt = [c \in Checkers |-> None]
  /\ record = [c \in Checkers |-> None]
  /\ clock = 0
  /\ smtFile = [s \in StateRoots |-> None]
  /\ modelFile = [s \in StateRoots |-> None]
  /\ ledger = [s \in StateRoots |-> None]
  /\ temporary = [s \in StateRoots |-> {}]
  /\ evidence = [s \in StateRoots |-> {}]

-----------------------------------------------------------------------------
(* One check.                                                              *)

Goto(c, label) == pc' = [pc EXCEPT ![c] = label]

\* The project is loaded; project-model.json is rewritten, without evidence.
Load(c) ==
  /\ pc[c] = "idle"
  /\ clock < MaxRecords
  /\ loaded' = [loaded EXCEPT ![c] = rev]
  /\ using' = [using EXCEPT ![c] = config]
  /\ result' = [result EXCEPT ![c] = "UNVERIFIED"]
  /\ smt' = [smt EXCEPT ![c] = None]
  /\ record' = [record EXCEPT ![c] = None]
  /\ modelFile' = [modelFile EXCEPT ![StateRootOf[c]] = None]
  /\ undisturbed' = undisturbed \cup {c}
  /\ Goto(c, "lowering")
  /\ UNCHANGED <<rev, config, clock, smtFile, ledger, temporary, evidence>>

\* backend.check writes effective.smt2 before anything else.
WriteSmt(c) ==
  /\ pc[c] = "lowering"
  /\ smtFile' = [smtFile EXCEPT ![StateRootOf[c]] = SmtOf[loaded[c]]]
  /\ Goto(c, "solving")
  /\ UNCHANGED <<sources, local, clock, modelFile, ledger, temporary, evidence>>

\* The open-world rule is not applied to the solver's answer.
Solve_IgnoresCoverage(c) ==
  /\ pc[c] = "solving"
  /\ \E answer \in {Decided(loaded[c]), "unknown", "garbage"} :
        result' = [result EXCEPT ![c] = StatusOf(answer, TRUE)]
  /\ Goto(c, "rereading")
  /\ UNCHANGED <<sources, loaded, using, smt, record, clock, shared>>

\* The solver answers about the text in memory.
Solve(c) ==
  /\ pc[c] = "solving"
  /\ \E verdict \in Verdicts(loaded[c]) : result' = [result EXCEPT ![c] = verdict]
  /\ Goto(c, "rereading")
  /\ UNCHANGED <<sources, loaded, using, smt, record, clock, shared>>

\* Solver missing, of another version, or failing: no evidence is recorded.
SolverError(c) ==
  /\ pc[c] = "solving"
  /\ Goto(c, "idle")
  /\ UNCHANGED <<sources, local, clock, shared>>

\* effective.smt2 is read back from the state root.
ReadSmt(c) ==
  /\ pc[c] = "rereading"
  /\ smt' = [smt EXCEPT ![c] = smtFile[StateRootOf[c]]]
  /\ Goto(c, "hashing")
  /\ UNCHANGED <<sources, loaded, using, result, record, clock, shared>>

\* The sources are lowered again for the record instead of reading back the
\* text that was written for the solver.
HashInputs_LowersAgain(c) ==
  /\ pc[c] = "hashing"
  /\ FilesHash[loaded[c]][rev] # Unreadable
  /\ clock' = clock + 1
  /\ record' = [record EXCEPT ![c] =
       [files |-> FilesHash[loaded[c]][rev], smt |-> SmtOf[rev],
        config |-> using[c], result |-> result[c], at |-> clock + 1]]
  /\ Goto(c, "writing")
  /\ UNCHANGED <<sources, loaded, using, result, smt, shared>>

\* A relevant file that has disappeared is hashed as if it were empty.
HashInputs_AcceptsMissing(c) ==
  /\ pc[c] = "hashing"
  /\ clock' = clock + 1
  /\ record' = [record EXCEPT ![c] =
       [files |-> FilesHash[loaded[c]][rev], smt |-> smt[c],
        config |-> using[c], result |-> result[c], at |-> clock + 1]]
  /\ Goto(c, "writing")
  /\ UNCHANGED <<sources, loaded, using, result, smt, shared>>

\* The files found relevant when loading are hashed as they are now, and the
\* evidence record is stamped.
HashInputs(c) ==
  /\ pc[c] = "hashing"
  /\ FilesHash[loaded[c]][rev] # Unreadable
  /\ clock' = clock + 1
  /\ record' = [record EXCEPT ![c] =
       [files |-> FilesHash[loaded[c]][rev], smt |-> smt[c],
        config |-> using[c], result |-> result[c], at |-> clock + 1]]
  /\ Goto(c, "writing")
  /\ UNCHANGED <<sources, loaded, using, result, smt, shared>>

HashFails(c) ==
  /\ pc[c] = "hashing"
  /\ FilesHash[loaded[c]][rev] = Unreadable
  /\ Goto(c, "idle")
  /\ UNCHANGED <<sources, local, clock, shared>>

\* The project model is linked to the record before the record is stored.
WriteTemporary_LinksFirst(c) ==
  /\ pc[c] = "writing"
  /\ temporary' = [temporary EXCEPT ![StateRootOf[c]] = @ \cup {record[c]}]
  /\ modelFile' = [modelFile EXCEPT ![StateRootOf[c]] = record[c]]
  /\ Goto(c, "renaming")
  /\ UNCHANGED <<sources, local, clock, smtFile, ledger, evidence>>

\* evidence::store writes `.<stem>.tmp` ...
WriteTemporary(c) ==
  /\ pc[c] = "writing"
  /\ temporary' = [temporary EXCEPT ![StateRootOf[c]] = @ \cup {record[c]}]
  /\ Goto(c, "renaming")
  /\ UNCHANGED <<sources, local, clock, smtFile, modelFile, ledger, evidence>>

\* ... and renames it to `<stem>.json`.
Rename(c) ==
  /\ pc[c] = "renaming"
  /\ temporary' = [temporary EXCEPT ![StateRootOf[c]] = @ \ {record[c]}]
  /\ evidence' = [evidence EXCEPT ![StateRootOf[c]] = @ \cup {record[c]}]
  /\ Goto(c, "modelling")
  /\ UNCHANGED <<sources, local, clock, smtFile, modelFile, ledger>>

\* project-model.json is rewritten with an EvidenceFor edge to the record.
WriteModel(c) ==
  /\ pc[c] = "modelling"
  /\ modelFile' = [modelFile EXCEPT ![StateRootOf[c]] = record[c]]
  /\ Goto(c, "ledgering")
  /\ UNCHANGED <<sources, local, clock, smtFile, ledger, temporary, evidence>>

\* proof-ledger.json is rewritten; the check reports its verdict.
WriteLedger(c) ==
  /\ pc[c] = "ledgering"
  /\ ledger' = [ledger EXCEPT ![StateRootOf[c]] = record[c]]
  /\ Goto(c, "idle")
  /\ UNCHANGED <<sources, local, clock, smtFile, modelFile, temporary, evidence>>

Check(c) ==
  \/ Load(c) \/ WriteSmt(c) \/ Solve(c) \/ SolverError(c) \/ ReadSmt(c)
  \/ HashInputs(c) \/ HashFails(c) \/ WriteTemporary(c) \/ Rename(c)
  \/ WriteModel(c) \/ WriteLedger(c)

-----------------------------------------------------------------------------
(* The environment.                                                        *)

Crash(c) ==
  /\ pc[c] # "idle"
  /\ Goto(c, "idle")
  /\ UNCHANGED <<sources, local, clock, shared>>

Edit ==
  /\ EditsDuringChecks \/ \A c \in Checkers : pc[c] = "idle"
  /\ rev' \in Revisions \ {rev}
  /\ undisturbed' = {c \in undisturbed : pc[c] = "idle"}
  /\ UNCHANGED <<config, pc, local, clock, shared>>

Reconfigure ==
  /\ config' \in Configs \ {config}
  /\ UNCHANGED <<rev, undisturbed, pc, local, clock, shared>>

Next ==
  \/ \E c \in Checkers : Check(c) \/ Crash(c)
  \/ Edit
  \/ Reconfigure

Spec == Init /\ [][Next]_vars

-----------------------------------------------------------------------------
(* Reading evidence.                                                       *)

\* evidence::assess, against what a reader computes at revision r.
Current(e, r, cfg) ==
  /\ e.files = FilesHash[r][r]
  /\ e.smt = SmtOf[r]
  /\ e.config = cfg

\* The first record of the directory in time order.
Latest_Oldest(s) == CHOOSE e \in evidence[s] : \A f \in evidence[s] : e.at <= f.at

\* evidence::latest
Latest(s) == CHOOSE e \in evidence[s] : \A f \in evidence[s] : f.at <= e.at

\* current_evidence_status
CurrentStatus(s, r, cfg) ==
  IF evidence[s] = {} THEN "UNVERIFIED"
  ELSE IF Current(Latest(s), r, cfg) THEN Latest(s).result ELSE "STALE"

\* What the evidence directory says to a reader of its newest record.
Newest ==
  [s \in StateRoots |->
     IF evidence[s] = {} THEN None
     ELSE LET e == Latest(s)
          IN  [files |-> e.files, smt |-> e.smt, config |-> e.config, result |-> e.result]]

Log == INSTANCE EvidenceLog WITH newest <- Newest

-----------------------------------------------------------------------------
(* Properties                                                              *)

\* A record that is current for some revision and says PASS (or FAIL) says
\* what a fresh check of that revision would say: "PASS means the obligation
\* passed on exactly the recorded input fingerprints" (docs/TRUST_MODEL.md).
\* The hashes are taken after the solver has run, from files that may have
\* changed since they were loaded, next to the text as it then is.  It is lost
\* when checks of different revisions overlap in one state root: one reads back
\* the text that the other has written, and vouches for it.
VerdictHoldsForRecordedInputs ==
  \A s \in StateRoots : \A e \in evidence[s] : \A r \in Revisions :
    /\ Current(e, r, e.config)
    /\ e.result \in {"PASS", "FAIL"}
    => e.result = Fresh(r)

\* Neither the ledger nor the project model ever names evidence that is not
\* in the store, wherever checks die and however they overlap.
ArtifactsNameStoredEvidence ==
  \A s \in StateRoots :
    /\ ledger[s] \in evidence[s] \cup {None}
    /\ modelFile[s] \in evidence[s] \cup {None}

\* A check that has completed in a state root of its own, on sources that held
\* still while it ran, is what status reports whenever sources and configuration
\* are those it ran on, whatever was edited or reconfigured in the meantime and
\* back: the hashes a check records and the hashes a reader recomputes agree, and
\* the reader finds that record among those that earlier and abandoned checks
\* left behind.
CompletedCheckIsReported ==
  \A c \in Checkers :
    LET s == StateRootOf[c] IN
      (/\ \A other \in Checkers : StateRootOf[other] = s => other = c
       /\ pc[c] = "idle" /\ c \in undisturbed
       /\ record[c] # None /\ record[c] = ledger[s]
       /\ loaded[c] = rev /\ using[c] = config)
      => CurrentStatus(s, rev, config) = record[c].result

\* The newest evidence of a state root is at every time the true verdict of a
\* check on some revision next to the text of that revision, and each change
\* of it is the end of one check, in whatever order checks finish (store,
\* load_all, latest).
ImplementsLog == Log!Spec
=============================================================================
