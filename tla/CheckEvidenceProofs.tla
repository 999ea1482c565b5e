------------------------ MODULE CheckEvidenceProofs ------------------------
(***************************************************************************)
(* Proofs about check evidence, for any number of checks, state roots and  *)
(* revisions.  That a verdict holds for the inputs recorded with it needs  *)
(* an assumption about the surroundings, and either of two will do:        *)
(*   - no two checks share a state root, and the solver's text determines  *)
(*     coverage: then the sources may change at any time, because the text *)
(*     read back is the text solved, whatever the files hashed beside it;  *)
(*   - the sources change only between checks: then state roots may be     *)
(*     shared, because all running checks have loaded the same revision.   *)
(***************************************************************************)
EXTENDS CheckEvidence, TLAPS

Exclusive ==
  \A c, d \in Checkers : StateRootOf[c] = StateRootOf[d] => c = d

TextDeterminesCoverage ==
  \A l, r \in Revisions : SmtOf[l] = SmtOf[r] => Covered[l] = Covered[r]

\* Providers claim coverage as a function of the files that are recorded.
InputsDetermineCoverage ==
  \A l, r \in Revisions :
    SmtOf[l] = SmtOf[r] /\ FilesHash[l][l] = FilesHash[r][r]
      => Covered[l] = Covered[r]

Recorded == {"writing", "renaming", "modelling", "ledgering"}

Typed ==
  /\ TypeOK
  /\ \A c \in Checkers :
       /\ pc[c] \in {"solving", "rereading"} => smtFile[StateRootOf[c]] # None
       /\ pc[c] = "hashing" => smt[c] # None
       /\ pc[c] \in Recorded => record[c] \in Evidence

LEMMA VerdictsAreStatus == \A l \in Revisions : Verdicts(l) \subseteq Status
  BY DEF Verdicts, StatusOf, Status

LEMMA DecidedIsFresh ==
  \A l \in Revisions : Verdicts(l) \cap {"PASS", "FAIL"} \subseteq {Fresh(l)}
  BY SourcesAssumption DEF Verdicts, Decided, StatusOf, Fresh

LEMMA TypeInit == Init => Typed
  BY CheckAssumption, SourcesAssumption DEF Init, Typed, TypeOK, PC, Status, Recorded

LEMMA TypeStep == Typed /\ [Next]_vars => Typed'
<1> SUFFICES ASSUME Typed, [Next]_vars PROVE Typed'
  OBVIOUS
<1> USE CheckAssumption, SourcesAssumption DEF Typed, TypeOK, PC, Status, Recorded, Goto
<1>1. ASSUME NEW c \in Checkers, Load(c) PROVE Typed'
  BY <1>1 DEF Load
<1>2. ASSUME NEW c \in Checkers, WriteSmt(c) PROVE Typed'
  BY <1>2 DEF WriteSmt, sources, local
<1>3. ASSUME NEW c \in Checkers, Solve(c) PROVE Typed'
  BY <1>3, VerdictsAreStatus DEF Solve, sources, shared
<1>4. ASSUME NEW c \in Checkers, ReadSmt(c) PROVE Typed'
  BY <1>4 DEF ReadSmt, sources, shared
<1>5. ASSUME NEW c \in Checkers, HashInputs(c) PROVE Typed'
  BY <1>5 DEF HashInputs, sources, shared, Evidence
<1>6. ASSUME NEW c \in Checkers, WriteTemporary(c) PROVE Typed'
  BY <1>6 DEF WriteTemporary, sources, local
<1>7. ASSUME NEW c \in Checkers, Rename(c) PROVE Typed'
  BY <1>7 DEF Rename, sources, local
<1>8. ASSUME NEW c \in Checkers, WriteModel(c) PROVE Typed'
  BY <1>8 DEF WriteModel, sources, local
<1>9. ASSUME NEW c \in Checkers, WriteLedger(c) PROVE Typed'
  BY <1>9 DEF WriteLedger, sources, local
<1>10. ASSUME NEW c \in Checkers, SolverError(c) \/ HashFails(c) \/ Crash(c) PROVE Typed'
  <2>1. /\ pc' = [pc EXCEPT ![c] = "idle"]
        /\ UNCHANGED <<rev, config, undisturbed, loaded, using, result, smt, record, clock,
                       smtFile, modelFile, ledger, temporary, evidence>>
    BY <1>10 DEF SolverError, HashFails, Crash, sources, local, shared
  <2>2. QED
    BY <2>1
<1>11. ASSUME Edit \/ Reconfigure \/ UNCHANGED vars PROVE Typed'
  BY <1>11 DEF Edit, Reconfigure, sources, vars, local, shared
<1> HIDE DEF Typed
<1>12. QED
  BY <1>1, <1>2, <1>3, <1>4, <1>5, <1>6, <1>7, <1>8, <1>9, <1>10, <1>11
  DEF Next, Check

LEMMA AlwaysTyped == Spec => []Typed
  BY TypeInit, TypeStep, PTL DEF Spec

(***************************************************************************)
(* The variables of a check and its state roots keep their types; no       *)
(* record is ever made of an unreadable input or of a missing text.        *)
(***************************************************************************)
THEOREM TypeCorrect == Spec => []TypeOK
  BY AlwaysTyped, PTL DEF Typed

-----------------------------------------------------------------------------

StoredInv ==
  /\ ArtifactsNameStoredEvidence
  /\ \A c \in Checkers : pc[c] \in {"modelling", "ledgering"} =>
       record[c] \in evidence[StateRootOf[c]]

LEMMA StoredStep == Typed /\ StoredInv /\ [Next]_vars => StoredInv'
<1> SUFFICES ASSUME Typed, StoredInv, [Next]_vars PROVE StoredInv'
  OBVIOUS
<1> USE CheckAssumption, SourcesAssumption
    DEF Typed, TypeOK, PC, StoredInv, ArtifactsNameStoredEvidence, Goto
<1>1. ASSUME NEW c \in Checkers, Load(c) PROVE StoredInv'
  BY <1>1 DEF Load
<1>2. ASSUME NEW c \in Checkers,
             WriteSmt(c) \/ Solve(c) \/ ReadSmt(c) \/ HashInputs(c) \/ WriteTemporary(c)
      PROVE  StoredInv'
  BY <1>2 DEF WriteSmt, Solve, ReadSmt, HashInputs, WriteTemporary, sources, local, shared
<1>3. ASSUME NEW c \in Checkers, Rename(c) PROVE StoredInv'
  BY <1>3 DEF Rename, sources, local
<1>4. ASSUME NEW c \in Checkers, WriteModel(c) \/ WriteLedger(c) PROVE StoredInv'
  BY <1>4 DEF WriteModel, WriteLedger, sources, local
<1>5. ASSUME NEW c \in Checkers, SolverError(c) \/ HashFails(c) \/ Crash(c) PROVE StoredInv'
  BY <1>5 DEF SolverError, HashFails, Crash, sources, local, shared
<1>6. ASSUME Edit \/ Reconfigure \/ UNCHANGED vars PROVE StoredInv'
  BY <1>6 DEF Edit, Reconfigure, sources, vars, local, shared
<1>7. QED
  BY <1>1, <1>2, <1>3, <1>4, <1>5, <1>6 DEF Next, Check

(***************************************************************************)
(* The ledger and the project model name stored evidence only, however     *)
(* checks overlap and wherever they die: the store comes first.            *)
(***************************************************************************)
THEOREM ArtifactsAreBacked == Spec => []ArtifactsNameStoredEvidence
<1>1. Init => StoredInv
  BY DEF Init, StoredInv, ArtifactsNameStoredEvidence
<1>2. QED
  BY <1>1, StoredStep, AlwaysTyped, PTL DEF Spec, StoredInv

-----------------------------------------------------------------------------

\* What a check knows: while it is unrecorded, what it loaded (and, if the
\* sources hold still, that they are still at that revision), that
\* effective.smt2 holds its own text, and that its verdict is that text's.
LoadedInv ==
  \A c \in Checkers :
    pc[c] \in {"lowering", "solving", "rereading", "hashing"} =>
      (~EditsDuringChecks => loaded[c] = rev)

SmtFileInv ==
  \A c \in Checkers :
    /\ pc[c] \in {"solving", "rereading"} =>
         smtFile[StateRootOf[c]] = SmtOf[loaded[c]]
    /\ pc[c] = "hashing" => smt[c] = SmtOf[loaded[c]]

\* A record is one that a check of some revision really yields, but for the
\* revision in which the files were hashed.
Sound(e) ==
  \E l, r \in Revisions :
    /\ e.smt = SmtOf[l]
    /\ e.files = FilesHash[l][r]
    /\ e.result \in Verdicts(l)
    /\ ~EditsDuringChecks => r = l

SoundInv ==
  /\ \A c \in Checkers :
       /\ pc[c] \in {"rereading", "hashing"} => result[c] \in Verdicts(loaded[c])
       /\ pc[c] \in Recorded => Sound(record[c])
  /\ \A s \in StateRoots : \A e \in evidence[s] : Sound(e)

LEMMA LoadedStep == Typed /\ LoadedInv /\ [Next]_vars => LoadedInv'
<1> SUFFICES ASSUME Typed, LoadedInv, [Next]_vars PROVE LoadedInv'
  OBVIOUS
<1> USE CheckAssumption, SourcesAssumption DEF Typed, TypeOK, PC, LoadedInv, Goto
<1>1. ASSUME NEW c \in Checkers, Load(c) \/ WriteSmt(c) \/ Solve(c) \/ SolverError(c)
      PROVE  LoadedInv'
  BY <1>1 DEF Load, WriteSmt, Solve, SolverError, sources, local, shared
<1>2. ASSUME NEW c \in Checkers, ReadSmt(c) \/ HashInputs(c) \/ HashFails(c) \/ Crash(c)
      PROVE  LoadedInv'
  BY <1>2 DEF ReadSmt, HashInputs, HashFails, Crash, sources, local, shared
<1>3. ASSUME NEW c \in Checkers,
             WriteTemporary(c) \/ Rename(c) \/ WriteModel(c) \/ WriteLedger(c)
      PROVE  LoadedInv'
  BY <1>3 DEF WriteTemporary, Rename, WriteModel, WriteLedger, sources, local
<1>4. ASSUME Edit \/ Reconfigure \/ UNCHANGED vars PROVE LoadedInv'
  BY <1>4 DEF Edit, Reconfigure, sources, vars, local, shared
<1> HIDE DEF LoadedInv
<1>5. QED
  BY <1>1, <1>2, <1>3, <1>4 DEF Next, Check

LEMMA SmtFileStep ==
  ASSUME Exclusive \/ ~EditsDuringChecks,
         Typed, LoadedInv, SmtFileInv, [Next]_vars
  PROVE  SmtFileInv'
<1> USE CheckAssumption, SourcesAssumption DEF Typed, TypeOK, PC, SmtFileInv, Goto
<1>1. ASSUME NEW c \in Checkers, Load(c) PROVE SmtFileInv'
  BY <1>1 DEF Load
<1>2. ASSUME NEW c \in Checkers, Solve(c) \/ SolverError(c) PROVE SmtFileInv'
  <2>1. /\ pc' = [pc EXCEPT ![c] = "rereading"] \/ pc' = [pc EXCEPT ![c] = "idle"]
        /\ pc[c] = "solving"
        /\ UNCHANGED <<loaded, smt, smtFile>>
    BY <1>2 DEF Solve, SolverError, sources, shared, local
  <2>2. QED
    BY <2>1
<1>3. ASSUME NEW c \in Checkers, WriteSmt(c) PROVE SmtFileInv'
  <2>1. \A d \in Checkers :
          pc[d] \in {"solving", "rereading"} /\ StateRootOf[d] = StateRootOf[c]
            => SmtOf[loaded[d]] = SmtOf[loaded[c]]
    BY <1>3 DEF Exclusive, LoadedInv, WriteSmt
  <2>2. /\ smtFile' = [smtFile EXCEPT ![StateRootOf[c]] = SmtOf[loaded[c]]]
        /\ pc' = [pc EXCEPT ![c] = "solving"]
        /\ UNCHANGED <<loaded, smt>>
    BY <1>3 DEF WriteSmt, sources, local
  <2>3. ASSUME NEW d \in Checkers
        PROVE  /\ pc'[d] \in {"solving", "rereading"} =>
                    smtFile'[StateRootOf[d]] = SmtOf[loaded'[d]]
               /\ pc'[d] = "hashing" => smt'[d] = SmtOf[loaded'[d]]
    <3>1. CASE d = c
      BY <2>2, <3>1
    <3>2. CASE d # c
      BY <2>1, <2>2, <3>2
    <3>3. QED
      BY <3>1, <3>2
  <2>4. QED
    BY <2>3
<1>4. ASSUME NEW c \in Checkers, ReadSmt(c) PROVE SmtFileInv'
  BY <1>4 DEF ReadSmt, sources, shared
<1>5. ASSUME NEW c \in Checkers, HashInputs(c) \/ HashFails(c) \/ Crash(c)
      PROVE  SmtFileInv'
  BY <1>5 DEF HashInputs, HashFails, Crash, sources, local, shared
<1>6. ASSUME NEW c \in Checkers,
             WriteTemporary(c) \/ Rename(c) \/ WriteModel(c) \/ WriteLedger(c)
      PROVE  SmtFileInv'
  BY <1>6 DEF WriteTemporary, Rename, WriteModel, WriteLedger, sources, local
<1>7. ASSUME Edit \/ Reconfigure \/ UNCHANGED vars PROVE SmtFileInv'
  BY <1>7 DEF Edit, Reconfigure, sources, vars, local, shared
<1> HIDE DEF SmtFileInv
<1>8. QED
  BY <1>1, <1>2, <1>3, <1>4, <1>5, <1>6, <1>7 DEF Next, Check

LEMMA SoundStep ==
  ASSUME Typed, LoadedInv, SmtFileInv, SoundInv, [Next]_vars
  PROVE  SoundInv'
<1> USE CheckAssumption, SourcesAssumption DEF Typed, TypeOK, PC, Recorded, SoundInv, Goto
<1>1. ASSUME NEW c \in Checkers, Load(c) \/ WriteSmt(c) PROVE SoundInv'
  BY <1>1 DEF Load, WriteSmt, sources, local
<1>2. ASSUME NEW c \in Checkers, SolverError(c) \/ ReadSmt(c) PROVE SoundInv'
  BY <1>2 DEF SolverError, ReadSmt, sources, shared, local
<1>3. ASSUME NEW c \in Checkers, Solve(c) PROVE SoundInv'
  <2>1. result'[c] \in Verdicts(loaded[c])
    BY <1>3 DEF Solve
  <2>2. QED
    BY <1>3, <2>1 DEF Solve, sources, shared
<1>4. ASSUME NEW c \in Checkers, HashInputs(c) PROVE SoundInv'
  <2>1. Sound(record'[c])
    <3>1. record'[c] = [files |-> FilesHash[loaded[c]][rev], smt |-> smt[c],
                        config |-> using[c], result |-> result[c], at |-> clock + 1]
      BY <1>4 DEF HashInputs
    <3>2. /\ pc[c] = "hashing"
          /\ smt[c] = SmtOf[loaded[c]]
          /\ result[c] \in Verdicts(loaded[c])
          /\ ~EditsDuringChecks => loaded[c] = rev
      BY <1>4 DEF HashInputs, SmtFileInv, LoadedInv
    <3>3. QED
      BY <3>1, <3>2 DEF Sound
  <2>2. QED
    BY <1>4, <2>1 DEF HashInputs, sources, shared
<1>5. ASSUME NEW c \in Checkers, HashFails(c) \/ Crash(c) PROVE SoundInv'
  BY <1>5 DEF HashFails, Crash, sources, local, shared
<1>6. ASSUME NEW c \in Checkers, WriteTemporary(c) \/ WriteModel(c) \/ WriteLedger(c)
      PROVE  SoundInv'
  BY <1>6 DEF WriteTemporary, WriteModel, WriteLedger, sources, local
<1>7. ASSUME NEW c \in Checkers, Rename(c) PROVE SoundInv'
  BY <1>7 DEF Rename, sources, local
<1>8. ASSUME Edit \/ Reconfigure \/ UNCHANGED vars PROVE SoundInv'
  BY <1>8 DEF Edit, Reconfigure, sources, vars, local, shared
<1> HIDE DEF SoundInv
<1>9. QED
  BY <1>1, <1>3, <1>4, <1>5, <1>6, <1>7, <1>8, <1>2 DEF Next, Check

LEMMA RecordsAreSound ==
  ASSUME Exclusive \/ ~EditsDuringChecks
  PROVE  Spec => []SoundInv
<1>1. Init => LoadedInv /\ SmtFileInv /\ SoundInv
  BY CheckAssumption, SourcesAssumption DEF Init, LoadedInv, SmtFileInv, SoundInv, Recorded
<1>2. Typed /\ LoadedInv /\ SmtFileInv /\ SoundInv /\ [Next]_vars
        => (LoadedInv /\ SmtFileInv /\ SoundInv)'
  BY LoadedStep, SmtFileStep, SoundStep
<1>3. QED
  BY <1>1, <1>2, AlwaysTyped, PTL DEF Spec

(***************************************************************************)
(* With a state root of its own, a check may race with edits of the        *)
(* sources: no record that is current for any revision says PASS or FAIL   *)
(* where a check of that revision would not, as long as coverage cannot    *)
(* change without the solver's text changing.                              *)
(***************************************************************************)
THEOREM EditsAreHarmless ==
  ASSUME Exclusive, TextDeterminesCoverage
  PROVE  Spec => []VerdictHoldsForRecordedInputs
<1>1. SoundInv => VerdictHoldsForRecordedInputs
  BY SourcesAssumption, DecidedIsFresh
  DEF SoundInv, Sound, VerdictHoldsForRecordedInputs, Current, Fresh, Decided,
      TextDeterminesCoverage
<1>2. QED
  BY <1>1, RecordsAreSound, PTL

(***************************************************************************)
(* If the sources change only between checks, no assumption on coverage is *)
(* needed beyond its being a function of the recorded inputs, and checks   *)
(* may share a state root.                                                 *)
(***************************************************************************)
THEOREM StableSourcesSuffice ==
  ASSUME ~EditsDuringChecks, InputsDetermineCoverage
  PROVE  Spec => []VerdictHoldsForRecordedInputs
<1>1. SoundInv => VerdictHoldsForRecordedInputs
  BY SourcesAssumption, DecidedIsFresh
  DEF SoundInv, Sound, VerdictHoldsForRecordedInputs, Current, Fresh, Decided,
      InputsDetermineCoverage
<1>2. QED
  BY <1>1, RecordsAreSound, PTL

-----------------------------------------------------------------------------

\* No two records carry the same stamp, stored or still to be stored, and no
\* stamp is ahead of the clock: so that there is always one newest record.
StampInv ==
  /\ \A s \in StateRoots :
       /\ evidence[s] # {} => \E e \in evidence[s] : \A f \in evidence[s] : f.at <= e.at
       /\ \A e, f \in evidence[s] : e.at = f.at => e = f
       /\ \A e \in evidence[s] : e.at <= clock
  /\ \A c \in Checkers : pc[c] \in {"writing", "renaming"} =>
       /\ record[c].at <= clock
       /\ \A e \in evidence[StateRootOf[c]] : e.at # record[c].at
       /\ \A d \in Checkers :
            pc[d] \in {"writing", "renaming"} /\ record[d].at = record[c].at => d = c

LEMMA StampStep == Typed /\ StampInv /\ [Next]_vars => StampInv'
<1> SUFFICES ASSUME Typed, StampInv, [Next]_vars PROVE StampInv'
  OBVIOUS
<1> USE CheckAssumption DEF Typed, TypeOK, PC, Goto
<1>1. ASSUME NEW c \in Checkers,
             \/ Load(c) \/ WriteSmt(c) \/ Solve(c) \/ SolverError(c)
             \/ ReadSmt(c) \/ HashFails(c) \/ Crash(c)
      PROVE  StampInv'
  <2>1. /\ UNCHANGED <<clock, evidence>>
        /\ \A d \in Checkers : pc'[d] \in {"writing", "renaming"} =>
             pc[d] = pc'[d] /\ record'[d] = record[d]
    BY <1>1 DEF Load, WriteSmt, Solve, SolverError, ReadSmt, HashFails, Crash,
                sources, local, shared
  <2>2. QED
    BY <2>1 DEF StampInv
<1>2. ASSUME NEW c \in Checkers, HashInputs(c) PROVE StampInv'
  <2>1. /\ UNCHANGED evidence
        /\ clock' = clock + 1
        /\ record'[c].at = clock + 1
        /\ \A d \in Checkers \ {c} : pc'[d] = pc[d] /\ record'[d] = record[d]
    BY <1>2 DEF HashInputs, sources, shared
  <2>2. \A s \in StateRoots : \A e \in evidence[s] : e.at \in Nat
    BY DEF Evidence
  <2>3. \A d \in Checkers : pc[d] \in {"writing", "renaming"} => record[d].at \in Nat
    BY DEF Recorded, Evidence
  <2>4. QED
    BY SMTT(60), <2>1, <2>2, <2>3 DEF StampInv
<1>3. ASSUME NEW c \in Checkers, WriteTemporary(c) PROVE StampInv'
  BY <1>3 DEF WriteTemporary, sources, local, StampInv
<1>4. ASSUME NEW c \in Checkers, Rename(c) PROVE StampInv'
  <2> DEFINE s == StateRootOf[c]
  <2>1. /\ pc[c] = "renaming"
        /\ pc' = [pc EXCEPT ![c] = "modelling"]
        /\ evidence' = [evidence EXCEPT ![s] = @ \cup {record[c]}]
        /\ UNCHANGED <<clock, record>>
    BY <1>4 DEF Rename, sources, local
  <2>2. record[c].at \in Nat /\ \A e \in evidence[s] : e.at \in Nat
    BY <2>1 DEF Recorded, Evidence
  <2>3. \E e \in evidence'[s] : \A f \in evidence'[s] : f.at <= e.at
    <3>1. CASE evidence[s] = {}
      BY <2>1, <2>2, <3>1
    <3>2. CASE evidence[s] # {}
      <4>1. PICK e \in evidence[s] : \A f \in evidence[s] : f.at <= e.at
        BY <3>2 DEF StampInv
      <4>2. CASE record[c].at <= e.at
        BY <2>1, <4>1, <4>2
      <4>3. CASE e.at <= record[c].at
        BY <2>1, <2>2, <4>1, <4>3
      <4>4. QED
        BY <2>2, <4>2, <4>3
    <3>3. QED
      BY <3>1, <3>2
  <2>4. \A e, f \in evidence'[s] : e.at = f.at => e = f
    BY <2>1 DEF StampInv
  <2>5. \A e \in evidence'[s] : e.at <= clock
    BY <2>1 DEF StampInv
  <2>6. \A d \in Checkers : pc'[d] \in {"writing", "renaming"} =>
          \A e \in evidence'[StateRootOf[d]] : e.at # record[d].at
    BY <2>1 DEF StampInv
  <2>7. QED
    BY SMTT(60), <2>1, <2>3, <2>4, <2>5, <2>6 DEF StampInv
<1>5. ASSUME NEW c \in Checkers, WriteModel(c) \/ WriteLedger(c) PROVE StampInv'
  <2>1. /\ UNCHANGED <<clock, evidence, record>>
        /\ \A d \in Checkers : pc'[d] \in {"writing", "renaming"} => pc[d] = pc'[d]
    BY <1>5 DEF WriteModel, WriteLedger, sources, local
  <2>2. QED
    BY <2>1 DEF StampInv
<1>6. ASSUME Edit \/ Reconfigure \/ UNCHANGED vars PROVE StampInv'
  BY <1>6 DEF Edit, Reconfigure, sources, vars, local, shared, StampInv
<1>7. QED
  BY <1>1, <1>2, <1>3, <1>4, <1>5, <1>6 DEF Next, Check

LEMMA Antisymmetric == \A m, n \in Nat : m <= n /\ n <= m => m = n
  OBVIOUS

\* Storing a record leaves the newest one the newest, or replaces it.
LEMMA RenameAppends ==
  ASSUME Typed, SoundInv, StampInv, StampInv', NEW c \in Checkers, Rename(c)
  PROVE  Log!Next
<1> USE CheckAssumption, SourcesAssumption DEF Typed, TypeOK
<1> DEFINE s == StateRootOf[c]
           entry(e) == [files |-> e.files, smt |-> e.smt, config |-> e.config,
                        result |-> e.result]
<1>1. /\ pc[c] = "renaming"
      /\ evidence' = [evidence EXCEPT ![s] = @ \cup {record[c]}]
      /\ s \in StateRoots
  BY DEF Rename
<1>2. PICK e \in evidence'[s] :
        /\ e = Latest(s)'
        /\ \A f \in evidence'[s] : f.at <= e.at
  <2>1. record[c] \in evidence'[s]
    BY <1>1
  <2>2. \E e \in evidence'[s] : \A f \in evidence'[s] : f.at <= e.at
    BY <1>1, <2>1 DEF StampInv
  <2>3. QED
    BY <2>2 DEF Latest
<1>3. /\ \A t \in StateRoots \ {s} : Newest'[t] = Newest[t]
      /\ Newest'[s] = entry(e)
      /\ Newest = [t \in StateRoots |-> Newest[t]]
      /\ Newest' = [t \in StateRoots |-> Newest'[t]]
  BY <1>1, <1>2 DEF Newest, Latest
<1>4. CASE e = record[c]
  <2>1. record[c] \in Evidence /\ Sound(record[c])
    BY <1>1 DEF Recorded, SoundInv
  <2>2. entry(record[c]) \in Log!Genuine
    <3>1. PICK l \in Revisions, r \in Revisions :
            /\ record[c].smt = SmtOf[l]
            /\ record[c].files = FilesHash[l][r]
            /\ record[c].result \in Verdicts(l)
      BY <2>1 DEF Sound
    <3>2. entry(record[c]) \in Log!Verdict
      BY <2>1 DEF Evidence, Log!Verdict, Log!Status, Status
    <3>3. Log!Verdicts(l) = Verdicts(l)
      BY DEF Log!Verdicts, Log!StatusOf, Log!Decided, Verdicts, StatusOf, Decided
    <3>4. entry(record[c]) \in Log!Found(l)
      <4>1. entry(record[c]) =
              [files |-> FilesHash[l][r], smt |-> SmtOf[l],
               config |-> record[c].config, result |-> record[c].result]
        BY <3>1
      <4>2. record[c].config \in Configs
        BY <2>1 DEF Evidence
      <4>3. QED
        BY <3>1, <3>3, <4>1, <4>2 DEF Log!Found
    <3>5. QED
      BY <3>2, <3>4 DEF Log!Genuine
  <2>3. Newest' = [Newest EXCEPT ![s] = entry(record[c])]
    BY <1>3, <1>4
  <2>4. QED
    BY <1>1, <2>2, <2>3 DEF Log!Next, Log!Append
<1>5. CASE e # record[c]
  <2>1. e \in evidence[s] /\ \A f \in evidence[s] : f.at <= e.at
    BY <1>1, <1>2, <1>5
  <2>2. PICK d \in evidence[s] :
          /\ d = Latest(s)
          /\ \A f \in evidence[s] : f.at <= d.at
    BY <2>1 DEF Latest
  <2>3. d = e
    <3>1. d.at \in Nat /\ e.at \in Nat
      BY <1>1, <2>1, <2>2 DEF Evidence
    <3>2. d.at <= e.at /\ e.at <= d.at
      BY <2>1, <2>2
    <3>3. d.at = e.at
      BY <3>1, <3>2, Antisymmetric, Zenon
    <3>4. QED
      BY <1>1, <2>1, <2>2, <3>3 DEF StampInv
  <2>4. Newest[s] = entry(e)
    BY <1>1, <2>1, <2>2, <2>3 DEF Newest
  <2>5. Newest' = Newest
    BY <1>3, <2>4
  <2>6. QED
    BY <2>5 DEF Log!Next
<1>6. QED
  BY <1>4, <1>5

(***************************************************************************)
(* The evidence store implements the log that the gate reads: for any      *)
(* number of checks, on the same assumption about the surroundings as      *)
(* above, in whatever order they finish and wherever they die.             *)
(***************************************************************************)
THEOREM StoreIsALog ==
  ASSUME Exclusive \/ ~EditsDuringChecks
  PROVE  Spec => ImplementsLog
<1>1. Init => StampInv /\ Log!Init
  BY CheckAssumption DEF Init, StampInv, Log!Init, Newest
<1>2. Typed /\ SoundInv /\ StampInv /\ StampInv' /\ [Next]_vars => [Log!Next]_Newest
  <2> SUFFICES ASSUME Typed, SoundInv, StampInv, StampInv', [Next]_vars
               PROVE  [Log!Next]_Newest
    OBVIOUS
  <2>1. CASE \E c \in Checkers : Rename(c)
    BY <2>1, RenameAppends
  <2>2. CASE ~\E c \in Checkers : Rename(c)
    <3>1. UNCHANGED evidence
      BY <2>2
      DEF Next, Check, Load, WriteSmt, Solve, SolverError, ReadSmt, HashInputs,
          HashFails, WriteTemporary, WriteModel, WriteLedger, Crash, Edit,
          Reconfigure, vars, sources, local, shared
    <3>2. QED
      BY <3>1 DEF Newest, Latest
  <2>3. QED
    BY <2>1, <2>2
<1>3. QED
  BY <1>1, <1>2, StampStep, AlwaysTyped, RecordsAreSound, PTL DEF Spec, ImplementsLog, Log!Spec

-----------------------------------------------------------------------------

\* A check's record is never older than what its state root holds, and, if the
\* sources held still, is of the revision that the check has loaded.
ReportInv ==
  \A c \in Checkers :
    /\ c \in undisturbed /\ pc[c] # "idle" => loaded[c] = rev
    /\ record[c] # None =>
         /\ pc[c] \in Recorded \cup {"idle"}
         /\ record[c].config = using[c]
         /\ \A e \in evidence[StateRootOf[c]] : e.at <= record[c].at
         /\ c \in undisturbed =>
              /\ record[c].files = FilesHash[loaded[c]][loaded[c]]
              /\ record[c].smt = SmtOf[loaded[c]]

LEMMA ReportStep ==
  ASSUME Exclusive, Typed, SmtFileInv, StampInv, ReportInv, [Next]_vars
  PROVE  ReportInv'
<1> USE CheckAssumption, SourcesAssumption DEF Typed, TypeOK, PC, Recorded, Goto
<1>1. ASSUME NEW c \in Checkers, Load(c) PROVE ReportInv'
  BY <1>1 DEF Load, ReportInv
<1>2. ASSUME NEW c \in Checkers,
             WriteSmt(c) \/ Solve(c) \/ SolverError(c) \/ ReadSmt(c) \/ HashFails(c) \/ Crash(c)
      PROVE  ReportInv'
  <2>1. /\ pc' \in [Checkers -> PC]
        /\ \A d \in Checkers \ {c} : pc'[d] = pc[d]
        /\ UNCHANGED <<rev, undisturbed, loaded, using, record, evidence>>
        /\ pc[c] # "idle"
        /\ pc[c] \in Recorded => pc'[c] = "idle"
    BY <1>2 DEF WriteSmt, Solve, SolverError, ReadSmt, HashFails, Crash, sources, local, shared
  <2>2. QED
    BY <2>1 DEF ReportInv
<1>3. ASSUME NEW c \in Checkers, HashInputs(c) PROVE ReportInv'
  <2>1. /\ pc[c] = "hashing"
        /\ pc' = [pc EXCEPT ![c] = "writing"]
        /\ record' = [record EXCEPT ![c] =
             [files |-> FilesHash[loaded[c]][rev], smt |-> smt[c],
              config |-> using[c], result |-> result[c], at |-> clock + 1]]
        /\ UNCHANGED <<rev, undisturbed, loaded, using, evidence>>
    BY <1>3 DEF HashInputs, sources, shared
  <2>2. smt[c] = SmtOf[loaded[c]]
    BY <2>1 DEF SmtFileInv
  <2>3. \A e \in evidence[StateRootOf[c]] : e.at <= clock + 1
    <3>1. \A e \in evidence[StateRootOf[c]] : e.at \in Nat /\ e.at <= clock
      BY DEF StampInv, Evidence
    <3>2. QED
      BY <3>1
  <2>4. c \in undisturbed => loaded[c] = rev
    BY <2>1 DEF ReportInv
  <2>5. QED
    BY <2>1, <2>2, <2>3, <2>4 DEF ReportInv
<1>4. ASSUME NEW c \in Checkers, WriteTemporary(c) \/ WriteModel(c) \/ WriteLedger(c)
      PROVE  ReportInv'
  <2>1. /\ pc' \in [Checkers -> PC]
        /\ \A d \in Checkers \ {c} : pc'[d] = pc[d]
        /\ UNCHANGED <<rev, undisturbed, loaded, using, record, evidence>>
        /\ pc[c] # "idle"
        /\ pc'[c] \in Recorded \cup {"idle"}
    BY <1>4 DEF WriteTemporary, WriteModel, WriteLedger, sources, local
  <2>2. QED
    BY <2>1 DEF ReportInv
<1>5. ASSUME NEW c \in Checkers, Rename(c) PROVE ReportInv'
  <2>1. /\ pc[c] = "renaming"
        /\ pc' = [pc EXCEPT ![c] = "modelling"]
        /\ evidence' = [evidence EXCEPT ![StateRootOf[c]] = @ \cup {record[c]}]
        /\ UNCHANGED <<rev, undisturbed, loaded, using, record>>
    BY <1>5 DEF Rename, sources, local
  <2>2. record[c].at \in Nat
    BY <2>1 DEF Evidence
  <2>3. \A d \in Checkers \ {c} : evidence'[StateRootOf[d]] = evidence[StateRootOf[d]]
    BY <2>1 DEF Exclusive
  <2>4. record[c] # None =>
          \A e \in evidence'[StateRootOf[c]] : e.at <= record[c].at
    BY <2>1, <2>2 DEF ReportInv
  <2>5. QED
    BY <2>1, <2>3, <2>4 DEF ReportInv
<1>6. ASSUME Edit PROVE ReportInv'
  BY <1>6 DEF Edit, local, shared, ReportInv
<1>7. ASSUME Reconfigure \/ UNCHANGED vars PROVE ReportInv'
  BY <1>7 DEF Reconfigure, sources, vars, local, shared, ReportInv
<1>8. QED
  BY <1>1, <1>2, <1>3, <1>4, <1>5, <1>6, <1>7 DEF Next, Check

LEMMA RecordIsReported ==
  ASSUME Typed, StoredInv, StampInv, ReportInv
  PROVE  CompletedCheckIsReported
<1> SUFFICES ASSUME NEW c \in Checkers, c \in undisturbed,
                    record[c] # None, record[c] = ledger[StateRootOf[c]],
                    loaded[c] = rev, using[c] = config
             PROVE  CurrentStatus(StateRootOf[c], rev, config) = record[c].result
  BY DEF CompletedCheckIsReported
<1> DEFINE s == StateRootOf[c]
<1>1. s \in StateRoots /\ record[c] \in evidence[s]
  BY CheckAssumption DEF StoredInv, ArtifactsNameStoredEvidence
<1>2. \A e \in evidence[s] : e.at <= record[c].at
  BY DEF ReportInv
<1>3. PICK e \in evidence[s] : e = Latest(s) /\ \A f \in evidence[s] : f.at <= e.at
  BY <1>1, <1>2 DEF Latest
<1>4. e = record[c]
  <2>1. e.at \in Nat /\ record[c].at \in Nat
    BY <1>1, <1>3 DEF Typed, TypeOK, Evidence
  <2>2. e.at <= record[c].at /\ record[c].at <= e.at
    BY <1>1, <1>2, <1>3
  <2>3. e.at = record[c].at
    BY <2>1, <2>2, Antisymmetric, Zenon
  <2>4. QED
    BY <1>1, <1>3, <2>3 DEF StampInv
<1>5. Current(record[c], rev, config)
  BY DEF ReportInv, Current
<1>6. QED
  BY <1>1, <1>3, <1>4, <1>5 DEF CurrentStatus

(***************************************************************************)
(* With a state root of its own, a check that has completed on sources     *)
(* that held still is what status reports for that revision, whatever was  *)
(* edited meanwhile and back and wherever earlier checks have died.        *)
(***************************************************************************)
THEOREM CompletedChecksAreReported ==
  ASSUME Exclusive
  PROVE  Spec => []CompletedCheckIsReported
<1>1. Init => LoadedInv /\ SmtFileInv /\ StoredInv /\ StampInv /\ ReportInv
  BY CheckAssumption, SourcesAssumption
  DEF Init, LoadedInv, SmtFileInv, StoredInv, ArtifactsNameStoredEvidence, StampInv, ReportInv
<1>2. Typed /\ LoadedInv /\ SmtFileInv /\ StoredInv /\ StampInv /\ ReportInv /\ [Next]_vars
        => (LoadedInv /\ SmtFileInv /\ StoredInv /\ StampInv /\ ReportInv)'
  BY LoadedStep, SmtFileStep, StoredStep, StampStep, ReportStep
<1>3. QED
  BY <1>1, <1>2, AlwaysTyped, RecordIsReported, PTL DEF Spec
=============================================================================
