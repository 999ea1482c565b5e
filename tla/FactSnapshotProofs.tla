------------------------- MODULE FactSnapshotProofs -------------------------
(***************************************************************************)
(* Proofs about fact snapshots, for any trees, configurations, contexts    *)
(* and any number of edits.  All of it rests on one observation: as long   *)
(* as no file has become again what it was before, a file that is what the *)
(* first walk read has been that ever since, so whatever was read of it in *)
(* between was the same; and the second walk reads every file once more.   *)
(***************************************************************************)
EXTENDS FactSnapshot, TLAPS

\* What runs of each purpose have by when.
PhaseInv ==
  /\ run.pc = "idle" => run.purpose = "capture"
  /\ run.pc \in {"load", "execute", "hash", "rewalk"} =>
       run.purpose = "capture" /\ run.policy \in Policies /\ run.instant \in Trees
  /\ run.pc = "policy" => run.instant \in Trees
  /\ run.pc \in {"obligations", "accepted"} => run.purpose # "capture"
  /\ run.pc # "idle" /\ run.purpose = "capture" => run.context \in Contexts
  /\ run.purpose # "capture" => snapshot # None
  /\ run.purpose = "gate" => approved # None
  /\ run.pc = "load" => run.left \subseteq Sources
  /\ run.pc = "execute" => run.left \subseteq Executed(run.used)

Typed == TypeOK /\ PhaseInv

-----------------------------------------------------------------------------
(* Types                                                                   *)

LEMMA NothingIsTree == Nothing \in Trees
  BY DEF Nothing, Trees, Values

LEMMA PolicyIsPolicy ==
  ASSUME NEW t \in Trees, NEW c
  PROVE  ProviderPolicy(t, c) \in Policies
<1> DEFINE S == {q \in Paths : t[q] # Absent /\ q \in SpecPaths \cup ExecutionInputs(c)}
<1>1. \A q \in S : t[q] \in Contents
  BY DEF Trees, Values
<1>2. [q \in S |-> t[q]] \in [S -> Contents]
  BY <1>1
<1>3. QED
  BY <1>2 DEF ProviderPolicy, Policies

LEMMA ExitedIsRun == Exited \in Run /\ Exited.pc = "idle" /\ Exited.purpose = "capture"
  BY NothingIsTree DEF Exited, NewRun, Run, Walking

LEMMA NewRunIsRun ==
  ASSUME NEW purpose \in {"capture", "prepare", "gate"}, NEW c \in Contexts \cup {None}
  PROVE  /\ NewRun("walk", purpose, c) \in Run
         /\ NewRun("walk", purpose, c).pc = "walk"
         /\ NewRun("walk", purpose, c).purpose = purpose
         /\ NewRun("walk", purpose, c).context = c
         /\ NewRun("walk", purpose, c).left = {}
         /\ NewRun("walk", purpose, c).walked = Nothing
         /\ NewRun("walk", purpose, c).rewalked = Nothing
         /\ NewRun("walk", purpose, c).roots = {"project", "spec"}
  BY NothingIsTree DEF NewRun, Run, Walking

LEMMA ExecutablesArePaths ==
  ASSUME NEW v \in Values
  PROVE  ExecutablesOf[v] \subseteq Paths \ (Sources \cup {Config})
  BY SnapshotAssumption

LEMMA TypedInit == Init => Typed
<1> SUFFICES ASSUME Init PROVE Typed
  OBVIOUS
<1>1. TypeOK
  <2>1. tree \in Trees /\ run \in Run
    BY ExitedIsRun DEF Init
  <2>2. was \in [Paths -> SUBSET Values]
    BY <2>1 DEF Init, Trees
  <2>3. snapshot = None /\ approved = None /\ returned = FALSE /\ edits = 0
    BY DEF Init
  <2>4. QED
    <3>1. snapshot \in Snapshot \cup {None} /\ approved \in RequiredSet \cup {None}
      BY <2>3
    <3>2. edits \in 0..MaxEdits
      BY <2>3, SnapshotAssumption DEF SnapshotAssumption
    <3>3. QED
      BY <2>1, <2>2, <2>3, <3>1, <3>2 DEF TypeOK
<1>2. PhaseInv
  BY ExitedIsRun DEF Init, PhaseInv
<1>3. QED
  BY <1>1, <1>2 DEF Typed

LEMMA TypedExit ==
  ASSUME Typed, run' = Exited, Quietly
  PROVE  Typed'
  BY ExitedIsRun DEF Typed, TypeOK, PhaseInv, Quietly

LEMMA TypedNext == Typed /\ [Next]_vars => Typed'
<1> SUFFICES ASSUME Typed, [Next]_vars
             PROVE  Typed'
  OBVIOUS
<1> run \in Run /\ tree \in Trees
  BY DEF Typed, TypeOK
<1> USE SnapshotAssumption DEF Run, Walking, Trees
<1>1. CASE StartCapture
  <2>1. PICK c \in Contexts : Begin(NewRun("walk", "capture", c))
    BY <1>1 DEF StartCapture
  <2>2. was' \in [Paths -> SUBSET Values]
    BY <2>1 DEF Begin
  <2>3. run' \in Run /\ run'.pc = "walk" /\ run'.purpose = "capture" /\ run'.context = c
    BY <2>1, NewRunIsRun DEF Begin
  <2>4. TypeOK'
    BY <2>1, <2>2, <2>3 DEF Begin, Typed, TypeOK
  <2>5. PhaseInv'
    BY <2>3 DEF PhaseInv
  <2>6. QED
    BY <2>4, <2>5 DEF Typed
<1>2. CASE StartValidation
  <2>1. PICK purpose \in {"prepare", "gate"} :
          /\ purpose = "gate" => approved # None
          /\ Begin(NewRun("walk", purpose, None))
    BY <1>2 DEF StartValidation
  <2>2. was' \in [Paths -> SUBSET Values]
    BY <2>1 DEF Begin
  <2>3. snapshot' # None /\ approved' = approved
    BY <1>2, <2>1 DEF StartValidation, Begin
  <2>4. run' \in Run /\ run'.pc = "walk" /\ run'.purpose = purpose
    BY <2>1, NewRunIsRun DEF Begin
  <2>5. TypeOK'
    BY <2>1, <2>2, <2>4 DEF Begin, Typed, TypeOK
  <2>6. PhaseInv'
    BY <2>1, <2>3, <2>4 DEF PhaseInv
  <2>7. QED
    BY <2>5, <2>6 DEF Typed
<1>3. ASSUME NEW r \in {"project", "spec"}, ListRoot(r)
      PROVE  Typed'
  BY <1>3 DEF ListRoot, Quietly, Typed, TypeOK, PhaseInv
<1>4. ASSUME NEW p \in Paths, WalkFile(p)
      PROVE  Typed'
  <2>1. CASE tree[p] = Absent
    BY <1>4, <2>1, TypedExit DEF WalkFile
  <2>2. CASE tree[p] # Absent
    BY <1>4, <2>2 DEF WalkFile, First, Quietly, Typed, TypeOK, PhaseInv
  <2>3. QED
    BY <2>1, <2>2
<1>5. CASE EndWalk
  <2>1. CASE run' = Exited
    BY <1>5, <2>1, TypedExit DEF EndWalk
  <2>2. CASE run' = [run EXCEPT !.pc = "policy", !.instant = tree]
    BY ZenonT(60), <1>5, <2>2 DEF EndWalk, Quietly, Typed, TypeOK, PhaseInv
  <2>3. QED
    BY <1>5, <2>1, <2>2 DEF EndWalk
<1>6. CASE ReadPolicy
  <2>1. CASE run' = Exited
    BY <1>6, <2>1, TypedExit DEF ReadPolicy
  <2>2. CASE /\ run.purpose = "capture"
             /\ run' = [run EXCEPT !.pc = "load", !.left = Sources,
                          !.policy = ProviderPolicy(run.walked, tree[Config])]
    <3>1. ProviderPolicy(run.walked, tree[Config]) \in Policies
      BY PolicyIsPolicy
    <3>2. run' \in Run /\ run'.pc = "load" /\ run'.left = Sources
      BY <2>2, <3>1
    <3>3. TypeOK'
      BY <1>6, <3>2 DEF ReadPolicy, Quietly, Typed, TypeOK
    <3>4. PhaseInv'
      BY <1>6, <2>2, <3>1, <3>2 DEF ReadPolicy, Quietly, Typed, PhaseInv
    <3>5. QED
      BY <3>3, <3>4 DEF Typed
  <2>3. CASE run.purpose # "capture" /\ run' = [run EXCEPT !.pc = "obligations"]
    BY <1>6, <2>3 DEF ReadPolicy, Quietly, Typed, TypeOK, PhaseInv
  <2>4. QED
    BY <1>6, <2>1, <2>2, <2>3 DEF ReadPolicy
<1>7. ASSUME NEW p \in Paths, LoadFile(p)
      PROVE  Typed'
  BY <1>7 DEF LoadFile, First, Quietly, Typed, TypeOK, PhaseInv
<1>8. CASE LoadConfiguration
  <2>1. ExecutablesOf[tree[Config]] \subseteq Paths
    BY ExecutablesArePaths
  <2>2. run'.left = Executed(run'.used)
    BY <1>8 DEF LoadConfiguration, Executed
  <2>3. QED
    BY ZenonT(60), <1>8, <2>1, <2>2 DEF LoadConfiguration, Quietly, Typed, TypeOK, PhaseInv
<1>9. ASSUME NEW p \in Paths, Execute(p)
      PROVE  Typed'
  <2>1. CASE run' = Exited
    BY <1>9, <2>1, TypedExit DEF Execute
  <2>2. CASE run' = [run EXCEPT !.left = @ \ {p}, !.used[p] = tree[p]]
    <3>1. p \in Executed(run.used)
      BY <1>9 DEF Execute, First, Typed, PhaseInv
    <3>2. p # Config
      BY <3>1, ExecutablesArePaths DEF Executed
    <3>3. Executed(run'.used) = Executed(run.used)
      BY <2>2, <3>2 DEF Executed
    <3>4. run' \in Run /\ run'.left = run.left \ {p} /\ run'.pc = "execute"
      <4>1. [run.used EXCEPT ![p] = tree[p]] \in Trees
        OBVIOUS
      <4>2. run' = [run EXCEPT !.left = @ \ {p},
                              !.used = [run.used EXCEPT ![p] = tree[p]]]
        BY <2>2
      <4>3. run.pc = "execute"
        BY <1>9 DEF Execute
      <4>4. QED
        BY <4>1, <4>2, <4>3
    <3>5. TypeOK'
      BY <1>9, <3>4 DEF Execute, Quietly, Typed, TypeOK
    <3>6. PhaseInv'
      <4>1. run'.left \subseteq Executed(run'.used)
        BY <1>9, <3>3, <3>4 DEF Execute, Typed, PhaseInv
      <4>2. QED
        BY <1>9, <2>2, <3>4, <4>1 DEF Execute, Quietly, Typed, PhaseInv
    <3>7. QED
      BY <3>5, <3>6 DEF Typed
  <2>3. QED
    BY <1>9, <2>1, <2>2 DEF Execute
<1>10. CASE EndLoad
  <2>1. CASE run' = Exited
    BY <1>10, <2>1, TypedExit DEF EndLoad
  <2>2. CASE run' = [run EXCEPT !.pc = "hash", !.left = SemanticInputs(run.used)]
    <3>1. SemanticInputs(run.used) \subseteq Paths
      BY ExecutablesArePaths DEF SemanticInputs, Executed
    <3>2. run' \in Run /\ run'.pc = "hash"
      BY <2>2, <3>1
    <3>3. TypeOK'
      BY <1>10, <3>2 DEF EndLoad, Quietly, Typed, TypeOK
    <3>4. PhaseInv'
      BY <1>10, <2>2, <3>2 DEF EndLoad, Quietly, Typed, PhaseInv
    <3>5. QED
      BY <3>3, <3>4 DEF Typed
  <2>3. QED
    BY <1>10, <2>1, <2>2 DEF EndLoad
<1>11. ASSUME NEW p \in Paths, HashFile(p)
       PROVE  Typed'
  <2>1. CASE run' = Exited
    BY <1>11, <2>1, TypedExit DEF HashFile
  <2>2. CASE run' = [run EXCEPT !.left = @ \ {p}]
    BY SMTT(60), <1>11, <2>2 DEF HashFile, Quietly, Typed, TypeOK, PhaseInv
  <2>3. QED
    BY <1>11, <2>1, <2>2 DEF HashFile
<1>12. CASE EndHash
  BY <1>12 DEF EndHash, Quietly, Typed, TypeOK, PhaseInv
<1>13. CASE EndCapture
  <2>1. Captured \in Snapshot
    BY <1>13 DEF EndCapture, Captured, Snapshot, Typed, TypeOK, PhaseInv
  <2>2. snapshot' \in Snapshot \cup {None} /\ run.purpose = "capture"
    BY <1>13, <2>1 DEF EndCapture, Typed, TypeOK, PhaseInv
  <2>3. QED
    BY <1>13, <2>2, ExitedIsRun DEF EndCapture, Typed, TypeOK, PhaseInv
<1>14. CASE CompareObligations
  <2>1. CASE run' = Exited
    BY <1>14, <2>1, TypedExit DEF CompareObligations
  <2>2. CASE run' = [run EXCEPT !.pc = "accepted"]
    BY <1>14, <2>2 DEF CompareObligations, Quietly, Typed, TypeOK, PhaseInv
  <2>3. QED
    BY <1>14, <2>1, <2>2 DEF CompareObligations
<1>15. CASE Approve
  <2>1. approved' \in RequiredSet
    BY <1>15 DEF Approve, RequiredSet, Snapshot, Typed, TypeOK, PhaseInv
  <2>2. QED
    BY <1>15, <2>1, ExitedIsRun DEF Approve, Typed, TypeOK, PhaseInv
<1>16. CASE Fails
  BY <1>16, TypedExit DEF Fails
<1>17. ASSUME NEW p \in Paths, Edit(p)
       PROVE  Typed'
  <2>1. PICK v \in Values \ {tree[p]} :
          /\ tree' = [tree EXCEPT ![p] = v]
          /\ was' = [was EXCEPT ![p] = @ \cup {v}]
          /\ returned' = (returned \/ v \in was[p])
    BY <1>17 DEF Edit
  <2>2. tree' \in Trees /\ was' \in [Paths -> SUBSET Values] /\ returned' \in BOOLEAN
    BY <2>1 DEF Typed, TypeOK
  <2>3. edits' \in 0..MaxEdits
    BY <1>17 DEF Edit, Typed, TypeOK
  <2>4. QED
    BY <1>17, <2>2, <2>3 DEF Edit, Typed, TypeOK, PhaseInv
<1>18. CASE UNCHANGED vars
  BY <1>18 DEF vars, Typed, TypeOK, PhaseInv, Executed
<1>19. QED
  BY <1>1, <1>2, <1>3, <1>4, <1>5, <1>6, <1>7, <1>8, <1>9, <1>10, <1>11, <1>12, <1>13, <1>14,
     <1>15, <1>16, <1>17, <1>18 DEF Next

\* Every state the trees, the run, the snapshot and the required set reach is
\* well formed; a snapshot that exists has a policy and a context.
THEOREM SnapshotTypeCorrect == Spec => []TypeOK
<1>1. Typed => TypeOK
  BY DEF Typed
<1>2. QED
  BY <1>1, TypedInit, TypedNext, PTL DEF Spec
-----------------------------------------------------------------------------
(* What the walks have seen                                                *)

WasInv == \A p \in Paths : tree[p] \in was[p]

\* A walk has passed a file it has read or, when it listed its root, not found.
Passed(p) == RootOf(p) \notin run.roots /\ p \notin run.left

\* Every value a walk has recorded the file has had since the run began.
WalkInv ==
  /\ run.pc \in Walking => \A p \in run.left : RootOf(p) \notin run.roots
  /\ run.pc = "walk" =>
       \A p \in Paths : /\ Passed(p) => run.walked[p] \in was[p]
                        /\ ~Passed(p) => run.walked[p] = Absent
  /\ run.pc \notin {"idle", "walk"} => \A p \in Paths : run.walked[p] \in was[p]
  /\ run.pc # "rewalk" => run.rewalked = Nothing
  /\ run.pc = "rewalk" => \A p \in Paths : ~Passed(p) => run.rewalked[p] = Absent

\* What loading has read so far.
Loaded ==
  CASE run.pc = "load" -> Sources \ run.left
    [] run.pc = "execute" -> Sources \cup {Config} \cup (Executed(run.used) \ run.left)
    [] run.pc \in {"hash", "rewalk"} -> Sources \cup {Config} \cup Executed(run.used)
    [] OTHER -> {}

\* All that was read of a file since the first walk agrees with that walk.
Firm(p) ==
  /\ run.instant[p] = run.walked[p]
  /\ p \in Loaded => run.used[p] = run.walked[p]
  /\ p = Config /\ run.pc # "policy" =>
       run.policy = ProviderPolicy(run.walked, run.walked[Config])

Capturing == run.purpose = "capture" /\ run.pc \notin {"idle", "walk"}

\* A file that still is what the first walk read is firm, since it cannot have
\* been anything else meanwhile; and so is one the second walk found unchanged.
FirmInv ==
  Capturing /\ ~returned =>
    \A p \in Paths :
      /\ tree[p] = run.walked[p] => Firm(p)
      /\ run.pc = "rewalk" /\ Passed(p) /\ run.rewalked[p] = run.walked[p] => Firm(p)

\* What a snapshot nobody disturbed is.
Coherent(s) ==
  ~s.returned =>
    /\ s.instant = s.tree
    /\ \A p \in Sources \cup {Config} \cup Executed(s.used) : s.used[p] = s.tree[p]
    /\ s.policy = ProviderPolicy(s.tree, s.tree[Config])
    /\ \A p \in SemanticInputs(s.used) : s.tree[p] # Absent

Still == \A p \in Paths : was[p] = {tree[p]}

\* Snapshots are coherent, and what a validation has compared so far is so.
SnapshotInv ==
  /\ snapshot # None => Coherent(snapshot)
  /\ approved # None =>
       /\ Coherent(approved.basis)
       /\ approved.context = approved.basis.context
       /\ approved.policy = approved.basis.policy
  /\ run.purpose # "capture" /\ run.pc # "walk" => run.walked = snapshot.tree
  /\ run.pc = "accepted" /\ run.purpose = "gate" => AsApproved
  /\ run.pc = "accepted" /\ Still => Obligations(tree) = Obligations(snapshot.used)

LEMMA FilesHaveRoots == \A p \in Paths : RootOf(p) \in {"project", "spec"}
  BY DEF RootOf

LEMMA WalkInit == Init => WasInv /\ WalkInv
  BY ExitedIsRun DEF Init, WasInv, WalkInv, Walking, Exited, NewRun

LEMMA WasNext == Typed /\ WasInv /\ [Next]_vars => WasInv'
<1> SUFFICES ASSUME Typed, WasInv, [Next]_vars
             PROVE  WasInv'
  OBVIOUS
<1> tree \in Trees /\ was \in [Paths -> SUBSET Values]
  BY DEF Typed, TypeOK
<1>1. CASE \E new : Begin(new)
  BY <1>1 DEF Begin, WasInv
<1>2. CASE \E p \in Paths : Edit(p)
  BY <1>2 DEF Edit, WasInv, Trees
<1>3. CASE UNCHANGED <<tree, was>>
  BY <1>3 DEF WasInv
<1>4. QED
  BY <1>1, <1>2, <1>3
     DEF Next, StartCapture, StartValidation, ListRoot, WalkFile, EndWalk, ReadPolicy, LoadFile,
         LoadConfiguration, Execute, EndLoad, HashFile, EndHash, EndCapture, CompareObligations,
         Approve, Fails, Quietly, vars

\* A run that has ended records nothing.
LEMMA WalkExit ==
  ASSUME run' = Exited
  PROVE  WalkInv'
  BY ExitedIsRun DEF Exited, NewRun, WalkInv, Walking

LEMMA WalkNext == Typed /\ WasInv /\ WalkInv /\ [Next]_vars => WalkInv'
<1> SUFFICES ASSUME Typed, WasInv, WalkInv, [Next]_vars
             PROVE  WalkInv'
  OBVIOUS
<1> run \in Run /\ tree \in Trees /\ was \in [Paths -> SUBSET Values]
  BY DEF Typed, TypeOK
<1> USE DEF Run, Walking, Trees
<1>1. CASE \E purpose \in {"capture", "prepare", "gate"}, c \in Contexts \cup {None} :
             Begin(NewRun("walk", purpose, c))
  <2>1. /\ run'.pc = "walk" /\ run'.roots = {"project", "spec"} /\ run'.left = {}
        /\ run'.walked = Nothing /\ run'.rewalked = Nothing
    BY <1>1, NewRunIsRun DEF Begin
  <2>2. \A p \in Paths : ~Passed(p)' /\ run'.walked[p] = Absent
    BY <2>1, FilesHaveRoots DEF Passed, Nothing, RootOf
  <2>3. QED
    BY <2>1, <2>2 DEF WalkInv
<1>2. ASSUME NEW r \in {"project", "spec"}, ListRoot(r)
      PROVE  WalkInv'
  <2>1. /\ run' = [run EXCEPT !.roots = @ \ {r},
                     !.left = {p \in Paths : RootOf(p) = r /\ tree[p] # Absent}]
        /\ was' = was /\ run.left = {} /\ r \in run.roots /\ run.pc \in Walking
    BY <1>2 DEF ListRoot, Quietly
  <2>2. \A p \in Paths : Passed(p)' <=> Passed(p) \/ (RootOf(p) = r /\ tree[p] = Absent)
    BY <2>1 DEF Passed, RootOf
  <2>3. \A p \in Paths : RootOf(p) = r => ~Passed(p)
    BY <2>1 DEF Passed
  <2>4. \A p \in run'.left : RootOf(p)' \notin run'.roots
    BY <2>1 DEF RootOf
  <2>5. run.pc = "walk" => \A p \in Paths : /\ Passed(p)' => run.walked[p] \in was[p]
                                            /\ ~Passed(p)' => run.walked[p] = Absent
    <3>1. SUFFICES ASSUME run.pc = "walk", NEW p \in Paths
                   PROVE  /\ Passed(p)' => run.walked[p] \in was[p]
                          /\ ~Passed(p)' => run.walked[p] = Absent
      OBVIOUS
    <3>2. tree[p] \in was[p]
      BY DEF WasInv
    <3>3. QED
      BY <3>1, <3>2, <2>2, <2>3 DEF WalkInv
  <2>6. run.pc = "rewalk" => \A p \in Paths : ~Passed(p)' => run.rewalked[p] = Absent
    BY <2>2 DEF WalkInv
  <2>7. QED
    BY <2>1, <2>4, <2>5, <2>6 DEF WalkInv
<1>3. ASSUME NEW p \in Paths, WalkFile(p)
      PROVE  WalkInv'
  <2>0. CASE tree[p] = Absent
    BY <1>3, <2>0, WalkExit DEF WalkFile
  <2> SUFFICES ASSUME tree[p] # Absent
               PROVE  WalkInv'
    BY <2>0
  <2>1. run.pc \in Walking /\ p \in run.left /\ was' = was
    BY <1>3 DEF WalkFile, First, Quietly
  <2>2. ~Passed(p)
    BY <2>1 DEF Passed
  <2>3. CASE run.pc = "walk"
    <3>1. run' = [run EXCEPT !.left = @ \ {p}, !.walked = [run.walked EXCEPT ![p] = tree[p]]]
      BY <1>3, <2>3 DEF WalkFile
    <3>2. \A q \in Paths : q # p => (Passed(q)' <=> Passed(q)) /\ run'.walked[q] = run.walked[q]
      BY <3>1 DEF Passed, RootOf
    <3>3. Passed(p)' /\ run'.walked[p] = tree[p]
      BY <2>1, <3>1 DEF Passed, RootOf, WalkInv
    <3>4. run'.pc = "walk" /\ run'.rewalked = run.rewalked
      BY <2>3, <3>1
    <3>5. \A q \in run'.left : RootOf(q)' \notin run'.roots
      BY <2>1, <3>1 DEF RootOf, WalkInv
    <3>6. QED
      BY <2>1, <2>3, <3>2, <3>3, <3>4, <3>5 DEF WalkInv, WasInv
  <2>4. CASE run.pc = "rewalk"
    <3>1. run' = [run EXCEPT !.left = @ \ {p},
                            !.rewalked = [run.rewalked EXCEPT ![p] = tree[p]]]
      BY <1>3, <2>4 DEF WalkFile
    <3>2. \A q \in Paths : ~Passed(q)' => ~Passed(q) /\ run'.rewalked[q] = run.rewalked[q]
      BY <2>1, <3>1 DEF Passed, RootOf, WalkInv
    <3>3. run'.pc = "rewalk" /\ run'.walked = run.walked
      BY <2>4, <3>1
    <3>4. \A q \in run'.left : RootOf(q)' \notin run'.roots
      BY <2>1, <3>1 DEF RootOf, WalkInv
    <3>5. QED
      BY <2>1, <2>4, <3>2, <3>3, <3>4 DEF WalkInv
  <2>5. QED
    BY <2>1, <2>3, <2>4
<1>4. CASE EndWalk
  <2>1. CASE run' = Exited
    BY <2>1, WalkExit
  <2>2. CASE run' = [run EXCEPT !.pc = "policy", !.instant = tree]
    <3>1. \A p \in Paths : Passed(p)
      BY <1>4, FilesHaveRoots DEF EndWalk, Walked, Passed
    <3>2. QED
      BY <1>4, <2>2, <3>1 DEF EndWalk, WalkInv, Quietly
  <2>3. QED
    BY <1>4, <2>1, <2>2 DEF EndWalk
<1>5. CASE EndHash
  <2>1. /\ run' = [run EXCEPT !.pc = "rewalk", !.roots = {"project", "spec"}]
        /\ was' = was /\ run.pc = "hash" /\ run.left = {}
    BY <1>5 DEF EndHash, Quietly
  <2>2. run'.rewalked = Nothing /\ run'.left = {}
    BY <2>1 DEF WalkInv
  <2>3. QED
    BY <2>1, <2>2 DEF WalkInv, Nothing
<1>6. CASE /\ run' = [run EXCEPT !.pc = run'.pc, !.left = run'.left, !.used = run'.used,
                                 !.policy = run'.policy]
           /\ run.pc \notin {"idle", "walk", "rewalk"}
           /\ run'.pc \notin {"idle", "walk", "rewalk"}
           /\ was' = was
  <2>1. run'.walked = run.walked /\ run'.rewalked = run.rewalked
    BY <1>6
  <2>2. QED
    BY <1>6, <2>1 DEF WalkInv
<1>7. CASE run' = Exited
  BY <1>7, WalkExit
<1>8. ASSUME NEW p \in Paths, Edit(p)
      PROVE  WalkInv'
  <2>1. run' = run /\ \A q \in Paths : was[q] \subseteq was'[q]
    BY <1>8 DEF Edit
  <2>2. \A q \in Paths : Passed(q)' <=> Passed(q)
    BY <2>1 DEF Passed, RootOf
  <2>3. QED
    BY <2>1, <2>2 DEF WalkInv, RootOf
<1>9. CASE UNCHANGED vars
  BY <1>9 DEF vars, WalkInv, Passed, RootOf
<1>10. CASE ReadPolicy
  BY <1>6, <1>7, <1>10 DEF ReadPolicy, Quietly
<1>11. CASE \E p \in Paths : LoadFile(p) \/ Execute(p) \/ HashFile(p)
  BY <1>6, <1>7, <1>11 DEF LoadFile, Execute, HashFile, Quietly
<1>12. CASE LoadConfiguration \/ EndLoad
  BY ZenonT(60), <1>6, <1>7, <1>12 DEF LoadConfiguration, EndLoad, Quietly
<1>13. CASE CompareObligations
  BY <1>6, <1>7, <1>13 DEF CompareObligations, Quietly
<1>14. CASE EndCapture \/ Approve \/ Fails
  BY <1>7, <1>14 DEF EndCapture, Approve, Fails
<1>15. CASE StartCapture \/ StartValidation
  BY <1>1, <1>15 DEF StartCapture, StartValidation
<1>16. QED
  BY <1>2, <1>3, <1>4, <1>5, <1>8, <1>9, <1>10, <1>11, <1>12, <1>13, <1>14, <1>15 DEF Next

-----------------------------------------------------------------------------
(* What a capture has read of a file that is what it was walked as         *)

LEMMA FirmExit ==
  ASSUME run' = Exited \/ run'.pc = "walk" \/ run'.purpose # "capture"
  PROVE  FirmInv'
  BY ExitedIsRun DEF FirmInv, Capturing

\* While only the walks' own records change, what is firm stays so.
LEMMA FirmKeeps ==
  ASSUME run'.pc = run.pc, run'.walked = run.walked, run'.instant = run.instant,
         run'.used = run.used, run'.policy = run.policy,
         run.pc \notin {"load", "execute"} \/ run'.left = run.left,
         NEW p \in Paths, Firm(p)
  PROVE  Firm(p)'
  BY DEF Firm, Loaded, Executed

LEMMA FirmNext == Typed /\ WasInv /\ WalkInv /\ FirmInv /\ [Next]_vars => FirmInv'
<1> SUFFICES ASSUME Typed, WasInv, WalkInv, FirmInv, [Next]_vars
             PROVE  FirmInv'
  OBVIOUS
<1> run \in Run /\ tree \in Trees /\ was \in [Paths -> SUBSET Values]
  BY DEF Typed, TypeOK
<1> USE SnapshotAssumption DEF Run, Walking, Trees
<1>1. CASE StartCapture \/ StartValidation
  <2>1. run'.pc = "walk"
    BY <1>1, NewRunIsRun DEF StartCapture, StartValidation, Begin
  <2>2. QED
    BY <2>1, FirmExit
<1>2. ASSUME NEW r \in {"project", "spec"}, ListRoot(r)
      PROVE  FirmInv'
  <2>1. CASE run.pc = "walk"
    BY <1>2, <2>1, FirmExit DEF ListRoot
  <2>2. CASE run.pc = "rewalk"
    <3>1. /\ run' = [run EXCEPT !.roots = @ \ {r},
                       !.left = {p \in Paths : RootOf(p) = r /\ tree[p] # Absent}]
          /\ tree' = tree /\ returned' = returned /\ r \in run.roots /\ run.left = {}
      BY <1>2 DEF ListRoot, Quietly
    <3>2. \A p \in Paths : Firm(p) => Firm(p)'
      BY <2>2, <3>1, FirmKeeps
    <3>3. SUFFICES ASSUME Capturing', ~returned', NEW p \in Paths,
                          tree'[p] = run'.walked[p]
                            \/ (Passed(p)' /\ run'.rewalked[p] = run'.walked[p])
                   PROVE  Firm(p)
      BY <3>2 DEF FirmInv
    <3>4. Capturing /\ ~returned
      BY <3>1, <3>3 DEF Capturing
    <3>5. CASE tree[p] = run.walked[p]
      BY <3>4, <3>5 DEF FirmInv
    <3>6. CASE Passed(p)' /\ run.rewalked[p] = run.walked[p]
      <4>1. Passed(p) \/ (tree[p] = Absent /\ ~Passed(p))
        BY <3>1, <3>6 DEF Passed, RootOf
      <4>2. ~Passed(p) => run.rewalked[p] = Absent
        BY <2>2 DEF WalkInv
      <4>3. QED
        BY <2>2, <3>4, <3>6, <4>1, <4>2 DEF FirmInv
    <3>7. QED
      BY <3>1, <3>3, <3>5, <3>6
  <2>3. QED
    BY <1>2, <2>1, <2>2 DEF ListRoot
<1>3. ASSUME NEW q \in Paths, WalkFile(q)
      PROVE  FirmInv'
  <2>0. CASE tree[q] = Absent
    BY <1>3, <2>0, FirmExit DEF WalkFile
  <2>1. CASE run.pc = "walk" /\ tree[q] # Absent
    BY <1>3, <2>1, FirmExit DEF WalkFile
  <2>2. CASE run.pc = "rewalk" /\ tree[q] # Absent
    <3>1. /\ run' = [run EXCEPT !.left = @ \ {q},
                                !.rewalked = [run.rewalked EXCEPT ![q] = tree[q]]]
          /\ tree' = tree /\ returned' = returned
      BY <1>3, <2>2 DEF WalkFile, Quietly
    <3>2. \A p \in Paths : Firm(p) => Firm(p)'
      BY <2>2, <3>1, FirmKeeps
    <3>3. \A p \in Paths : p # q /\ Passed(p)' => Passed(p) /\ run'.rewalked[p] = run.rewalked[p]
      BY <3>1 DEF Passed, RootOf
    <3>4. run'.rewalked[q] = tree[q]
      BY <3>1
    <3>5. Capturing' => Capturing
      BY <3>1 DEF Capturing
    <3>6. run'.walked = run.walked
      BY <3>1
    <3>7. SUFFICES ASSUME Capturing, ~returned, NEW p \in Paths,
                          tree[p] = run.walked[p]
                            \/ (Passed(p)' /\ run'.rewalked[p] = run.walked[p])
                   PROVE  Firm(p)
      BY <3>1, <3>2, <3>5, <3>6 DEF FirmInv
    <3>8. CASE tree[p] = run.walked[p]
      BY <3>7, <3>8 DEF FirmInv
    <3>9. CASE p # q /\ Passed(p)' /\ run'.rewalked[p] = run.walked[p]
      BY <2>2, <3>3, <3>7, <3>9 DEF FirmInv
    <3>10. QED
      BY <3>4, <3>7, <3>8, <3>9
  <2>3. QED
    BY <1>3, <2>0, <2>1, <2>2 DEF WalkFile
<1>4. CASE EndWalk
  <2>1. CASE run' = Exited
    BY <2>1, FirmExit
  <2>2. CASE run' = [run EXCEPT !.pc = "policy", !.instant = tree]
    BY <1>4, <2>2 DEF EndWalk, Quietly, FirmInv, Firm, Loaded
  <2>3. QED
    BY <1>4, <2>1, <2>2 DEF EndWalk
<1>5. CASE ReadPolicy
  <2>1. CASE run' = Exited \/ run.purpose # "capture"
    BY <1>5, <2>1, FirmExit DEF ReadPolicy
  <2>2. CASE /\ run' = [run EXCEPT !.pc = "load", !.left = Sources,
                          !.policy = ProviderPolicy(run.walked, tree[Config])]
             /\ run.purpose = "capture"
    <3>1. tree' = tree /\ returned' = returned /\ run.pc = "policy"
      BY <1>5 DEF ReadPolicy, Quietly
    <3>2. SUFFICES ASSUME ~returned, NEW p \in Paths, tree[p] = run.walked[p]
                   PROVE  Firm(p)'
      BY <2>2, <3>1 DEF FirmInv
    <3>3. run.instant[p] = run.walked[p]
      BY <2>2, <3>1, <3>2 DEF FirmInv, Capturing, Firm
    <3>4. p = Config => run'.policy = ProviderPolicy(run.walked, run.walked[Config])
      BY <2>2, <3>2
    <3>5. Loaded' = {}
      BY <2>2 DEF Loaded
    <3>6. run'.walked = run.walked /\ run'.instant = run.instant
      BY <2>2
    <3>7. QED
      BY <3>3, <3>4, <3>5, <3>6 DEF Firm
  <2>3. QED
    BY <1>5, <2>1, <2>2 DEF ReadPolicy
<1>6. ASSUME NEW q \in Paths, LoadFile(q)
      PROVE  FirmInv'
  <2>1. /\ run' = [run EXCEPT !.left = @ \ {q}, !.used = [run.used EXCEPT ![q] = tree[q]]]
        /\ tree' = tree /\ returned' = returned /\ run.pc = "load"
    BY <1>6 DEF LoadFile, Quietly
  <2>2. SUFFICES ASSUME Capturing, ~returned, NEW p \in Paths, tree[p] = run.walked[p]
                 PROVE  Firm(p)'
    BY <2>1 DEF FirmInv, Capturing
  <2>3. Firm(p)
    BY <2>2 DEF FirmInv
  <2>4. Loaded = Sources \ run.left /\ Loaded' = Sources \ run'.left
    BY <2>1 DEF Loaded
  <2>5. p \in Loaded' => run'.used[p] = run.walked[p]
    BY <2>1, <2>2, <2>3, <2>4 DEF Firm
  <2>6. run'.walked = run.walked /\ run'.instant = run.instant /\ run'.policy = run.policy
    BY <2>1
  <2>7. QED
    BY <2>1, <2>3, <2>5, <2>6 DEF Firm
<1>7. CASE LoadConfiguration
  <2>1. /\ run' = [run EXCEPT !.pc = "execute", !.left = ExecutablesOf[tree[Config]],
                              !.used = [run.used EXCEPT ![Config] = tree[Config]]]
        /\ tree' = tree /\ returned' = returned /\ run.pc = "load" /\ run.left = {}
    BY <1>7 DEF LoadConfiguration, Quietly
  <2>2. SUFFICES ASSUME Capturing, ~returned, NEW p \in Paths, tree[p] = run.walked[p]
                 PROVE  Firm(p)'
    BY <2>1 DEF FirmInv, Capturing
  <2>3. Firm(p)
    BY <2>2 DEF FirmInv
  <2>4. Loaded = Sources /\ Loaded' = Sources \cup {Config}
    <3>1. Executed(run'.used) = run'.left
      BY <2>1 DEF Executed
    <3>2. QED
      BY <2>1, <3>1 DEF Loaded
  <2>5. p \in Loaded' => run'.used[p] = run.walked[p]
    BY <2>1, <2>2, <2>3, <2>4 DEF Firm
  <2>6. run'.walked = run.walked /\ run'.instant = run.instant /\ run'.policy = run.policy
    BY <2>1
  <2>7. QED
    BY <2>1, <2>3, <2>5, <2>6 DEF Firm
<1>8. ASSUME NEW q \in Paths, Execute(q)
      PROVE  FirmInv'
  <2>0. CASE tree[q] = Absent
    BY <1>8, <2>0, FirmExit DEF Execute
  <2> SUFFICES ASSUME tree[q] # Absent
               PROVE  FirmInv'
    BY <2>0
  <2>1. /\ run' = [run EXCEPT !.left = @ \ {q}, !.used = [run.used EXCEPT ![q] = tree[q]]]
        /\ tree' = tree /\ returned' = returned /\ run.pc = "execute" /\ q \in run.left
    BY <1>8 DEF Execute, First, Quietly
  <2>2. SUFFICES ASSUME Capturing, ~returned, NEW p \in Paths, tree[p] = run.walked[p]
                 PROVE  Firm(p)'
    BY <2>1 DEF FirmInv, Capturing
  <2>3. Firm(p)
    BY <2>2 DEF FirmInv
  <2>4. Executed(run'.used) = Executed(run.used)
    <3>1. q # Config
      BY <2>1, ExecutablesArePaths DEF Typed, PhaseInv, Executed
    <3>2. QED
      BY <2>1, <3>1 DEF Executed
  <2>5. p \in Loaded' => p \in Loaded \/ p = q
    BY <2>1, <2>4 DEF Loaded
  <2>6. p \in Loaded' => run'.used[p] = run.walked[p]
    BY <2>1, <2>2, <2>3, <2>5 DEF Firm
  <2>7. run'.walked = run.walked /\ run'.instant = run.instant /\ run'.policy = run.policy
    BY <2>1
  <2>8. QED
    BY <2>1, <2>3, <2>6, <2>7 DEF Firm
<1>9. CASE EndLoad \/ EndHash \/ \E q \in Paths : HashFile(q)
  <2>0. CASE run' = Exited
    BY <2>0, FirmExit
  <2> SUFFICES ASSUME run' # Exited
               PROVE  FirmInv'
    BY <2>0
  <2>1. /\ run' = [run EXCEPT !.pc = run'.pc, !.left = run'.left, !.roots = run'.roots]
        /\ tree' = tree /\ returned' = returned
        /\ run.pc \in {"execute", "hash"} /\ run'.pc \in {"hash", "rewalk"}
        /\ run.pc = "execute" => run.left = {}
        /\ run'.pc = "rewalk" => run'.roots = {"project", "spec"}
    BY ZenonT(60), <1>9 DEF EndLoad, EndHash, HashFile, Quietly
  <2>2. \A p \in Paths : ~(run'.pc = "rewalk" /\ Passed(p)')
    BY <2>1, FilesHaveRoots DEF Passed, RootOf
  <2>3. SUFFICES ASSUME Capturing, ~returned, NEW p \in Paths, tree[p] = run.walked[p]
                 PROVE  Firm(p)'
    BY <2>1, <2>2 DEF FirmInv, Capturing
  <2>4. Firm(p)
    BY <2>3 DEF FirmInv
  <2>5. Loaded' = Loaded
    BY ZenonT(60), <2>1 DEF Loaded, Executed
  <2>6. QED
    BY <2>1, <2>4, <2>5 DEF Firm
<1>10. CASE CompareObligations
  <2>1. run.purpose # "capture"
    BY <1>10 DEF CompareObligations, Typed, PhaseInv
  <2>2. QED
    BY <1>10, <2>1, FirmExit DEF CompareObligations
<1>11. CASE EndCapture \/ Approve \/ Fails
  BY <1>11, FirmExit DEF EndCapture, Approve, Fails
<1>12. ASSUME NEW q \in Paths, Edit(q)
       PROVE  FirmInv'
  <2>1. PICK v \in Values \ {tree[q]} :
          /\ tree' = [tree EXCEPT ![q] = v]
          /\ returned' = (returned \/ v \in was[q])
    BY <1>12 DEF Edit
  <2>2. run' = run
    BY <1>12 DEF Edit
  <2>3. SUFFICES ASSUME Capturing, ~returned', NEW p \in Paths,
                        tree'[p] = run.walked[p]
                          \/ (run.pc = "rewalk" /\ Passed(p) /\ run.rewalked[p] = run.walked[p])
                 PROVE  Firm(p)
    BY <2>2 DEF FirmInv, Capturing, Firm, Loaded, Passed, Executed, RootOf
  <2>4. ~returned /\ v \notin was[q]
    BY <2>1, <2>3
  <2>5. run.walked[q] \in was[q]
    BY <2>3 DEF Capturing, WalkInv
  <2>6. tree'[p] = run.walked[p] => tree[p] = run.walked[p]
    BY <2>1, <2>4, <2>5
  <2>7. QED
    BY <2>3, <2>4, <2>6 DEF FirmInv
<1>13. CASE UNCHANGED vars
  BY <1>13 DEF vars, FirmInv, Capturing, Firm, Loaded, Passed, Executed, RootOf
<1>14. QED
  BY <1>1, <1>2, <1>3, <1>4, <1>5, <1>6, <1>7, <1>8, <1>9, <1>10, <1>11, <1>12, <1>13 DEF Next

-----------------------------------------------------------------------------
(* Snapshots, approvals and validations                                    *)

\* The inductive invariant.
IInv == Typed /\ WasInv /\ WalkInv /\ FirmInv /\ SnapshotInv

LEMMA InvInit == Init => IInv
<1> SUFFICES ASSUME Init PROVE IInv
  OBVIOUS
<1>1. run.pc = "idle" /\ run.purpose = "capture" /\ snapshot = None /\ approved = None
  BY ExitedIsRun DEF Init
<1>2. FirmInv /\ SnapshotInv
  BY <1>1 DEF FirmInv, Capturing, SnapshotInv
<1>3. QED
  BY <1>2, TypedInit, WalkInit DEF IInv

\* A step that leaves snapshot and approval alone, and accepts nothing.
LEMMA SnapshotKeeps ==
  ASSUME SnapshotInv, snapshot' = snapshot, approved' = approved, run'.pc # "accepted",
         run'.purpose = "capture" \/ run'.pc = "walk" \/ run'.walked = snapshot.tree
  PROVE  SnapshotInv'
<1>1. snapshot' # None => Coherent(snapshot')
  BY DEF SnapshotInv
<1>2. approved' # None => /\ Coherent(approved'.basis)
                          /\ approved'.context = approved'.basis.context
                          /\ approved'.policy = approved'.basis.policy
  BY DEF SnapshotInv
<1>3. QED
  BY <1>1, <1>2 DEF SnapshotInv, Coherent, SemanticInputs, Executed

\* What a capture that saw no drift has captured.
LEMMA CapturedIsCoherent ==
  ASSUME Typed, WalkInv, FirmInv, run.pc = "rewalk", Walked, run.rewalked = run.walked,
         SemanticsHold(run.used, run.walked, run.walked)
  PROVE  Coherent(Captured)
<1> run \in Run
  BY DEF Typed, TypeOK
<1> USE SnapshotAssumption DEF Run, Trees
<1>1. SUFFICES ASSUME ~returned
               PROVE  /\ run.instant = run.walked
                      /\ \A p \in Sources \cup {Config} \cup Executed(run.used) :
                           run.used[p] = run.walked[p]
                      /\ run.policy = ProviderPolicy(run.walked, run.walked[Config])
                      /\ \A p \in SemanticInputs(run.used) : run.walked[p] # Absent
  BY DEF Coherent, Captured
<1>2. run.purpose = "capture" /\ run.instant \in Trees
  BY DEF Typed, PhaseInv
<1>3. \A p \in Paths : Firm(p)
  BY <1>1, <1>2, FilesHaveRoots DEF FirmInv, Capturing, Walked, Passed
<1>4. Loaded = Sources \cup {Config} \cup Executed(run.used)
  BY DEF Loaded
<1>5. Executed(run.used) \subseteq Paths
  BY ExecutablesArePaths DEF Executed
<1>6. run.instant = run.walked
  BY <1>2, <1>3 DEF Firm
<1>7. QED
  BY <1>3, <1>4, <1>5, <1>6 DEF Firm, SemanticsHold

LEMMA SnapshotNext == IInv /\ [Next]_vars => SnapshotInv'
<1> SUFFICES ASSUME IInv, [Next]_vars
             PROVE  SnapshotInv'
  OBVIOUS
<1> Typed /\ SnapshotInv /\ run \in Run /\ tree \in Trees
  BY DEF IInv, Typed, TypeOK
<1> USE SnapshotAssumption DEF Run, Walking, Trees
<1>0. ASSUME run' = Exited, snapshot' = snapshot, approved' = approved
      PROVE  SnapshotInv'
  BY <1>0, ExitedIsRun, SnapshotKeeps
<1>1. CASE StartCapture \/ StartValidation
  <2>1. run'.pc = "walk" /\ snapshot' = snapshot /\ approved' = approved
    BY <1>1, NewRunIsRun DEF StartCapture, StartValidation, Begin
  <2>2. QED
    BY <2>1, SnapshotKeeps
<1>2. CASE \/ \E r \in {"project", "spec"} : ListRoot(r)
           \/ \E p \in Paths : WalkFile(p) \/ LoadFile(p) \/ Execute(p) \/ HashFile(p)
           \/ LoadConfiguration \/ EndLoad \/ EndHash
  <2>1. CASE run' = Exited
    BY <1>0, <1>2, <2>1 DEF ListRoot, WalkFile, LoadFile, Execute, HashFile, LoadConfiguration,
                            EndLoad, EndHash, Quietly
  <2> SUFFICES ASSUME run' # Exited
               PROVE  SnapshotInv'
    BY <2>1
  <2>2. /\ run'.purpose = run.purpose /\ snapshot' = snapshot /\ approved' = approved
        /\ run.pc = "walk" => run'.pc = "walk"
        /\ run.pc \in {"walk", "rewalk", "load", "execute", "hash"}
        /\ run'.pc # "accepted"
    <3>1. CASE \/ \E r \in {"project", "spec"} : ListRoot(r)
               \/ \E p \in Paths : WalkFile(p)
      BY ZenonT(60), <3>1 DEF ListRoot, WalkFile, Quietly
    <3>2. CASE \E p \in Paths : LoadFile(p) \/ Execute(p) \/ HashFile(p)
      BY ZenonT(60), <3>2 DEF LoadFile, Execute, HashFile, Quietly
    <3>3. CASE LoadConfiguration \/ EndLoad \/ EndHash
      BY ZenonT(60), <3>3 DEF LoadConfiguration, EndLoad, EndHash, Quietly
    <3>4. QED
      BY <1>2, <3>1, <3>2, <3>3
  <2>3. run.pc # "walk" => run.purpose = "capture"
    BY <2>2 DEF Typed, PhaseInv
  <2>4. QED
    BY <2>2, <2>3, SnapshotKeeps
<1>3. CASE EndWalk
  <2>1. CASE run' = Exited
    BY <1>0, <1>3, <2>1 DEF EndWalk, Quietly
  <2>2. CASE /\ run' = [run EXCEPT !.pc = "policy", !.instant = tree]
             /\ run.purpose = "capture" \/ run.walked = snapshot.tree
    BY <1>3, <2>2, SnapshotKeeps DEF EndWalk, Quietly
  <2>3. QED
    BY <1>3, <2>1, <2>2 DEF EndWalk
<1>4. CASE ReadPolicy
  <2>1. CASE run' = Exited
    BY <1>0, <1>4, <2>1 DEF ReadPolicy, Quietly
  <2>2. CASE run' # Exited
    <3>1. /\ run'.purpose = run.purpose /\ run'.walked = run.walked
          /\ run'.pc # "accepted" /\ run.pc = "policy"
          /\ snapshot' = snapshot /\ approved' = approved
      BY <1>4, <2>2 DEF ReadPolicy, Quietly
    <3>2. run.purpose = "capture" \/ run.walked = snapshot.tree
      BY <3>1 DEF SnapshotInv
    <3>3. QED
      BY <3>1, <3>2, SnapshotKeeps
  <2>3. QED
    BY <2>1, <2>2
<1>5. CASE EndCapture
  <2>1. run' = Exited /\ approved' = approved /\ run.pc = "rewalk" /\ Walked
    BY <1>5 DEF EndCapture
  <2>2. CASE snapshot' = snapshot
    BY <1>0, <2>1, <2>2
  <2>3. CASE snapshot' = Captured /\ run.rewalked = run.walked
               /\ SemanticsHold(run.used, run.walked, run.walked)
    <3>1. Coherent(snapshot')
      BY <2>1, <2>3, CapturedIsCoherent DEF IInv
    <3>2. approved' # None => /\ Coherent(approved'.basis)
                              /\ approved'.context = approved'.basis.context
                              /\ approved'.policy = approved'.basis.policy
      BY <2>1 DEF SnapshotInv
    <3>3. run'.purpose = "capture" /\ run'.pc = "idle"
      BY <2>1, ExitedIsRun
    <3>4. QED
      BY <3>1, <3>2, <3>3 DEF SnapshotInv, Coherent, SemanticInputs, Executed
  <2>4. QED
    BY <1>5, <2>2, <2>3 DEF EndCapture
<1>6. CASE CompareObligations
  <2>1. CASE run' = Exited
    BY <1>0, <1>6, <2>1 DEF CompareObligations, Quietly
  <2>2. CASE /\ run' = [run EXCEPT !.pc = "accepted"]
             /\ Obligations(tree) = Obligations(snapshot.used)
             /\ run.purpose = "gate" => AsApproved
    <3>1. /\ run'.purpose = run.purpose /\ run'.walked = run.walked
          /\ run.pc = "obligations" /\ snapshot' = snapshot /\ approved' = approved /\ tree' = tree
      BY <1>6, <2>2 DEF CompareObligations, Quietly
    <3>2. run'.purpose # "capture" => run'.walked = snapshot'.tree
      BY <3>1 DEF SnapshotInv
    <3>3. run'.purpose = "gate" => AsApproved'
      BY <2>2, <3>1 DEF AsApproved
    <3>4. Obligations(tree') = Obligations(snapshot'.used)
      BY <2>2, <3>1
    <3>5. /\ snapshot' # None => Coherent(snapshot')
          /\ approved' # None => /\ Coherent(approved'.basis)
                                 /\ approved'.context = approved'.basis.context
                                 /\ approved'.policy = approved'.basis.policy
      BY <3>1 DEF SnapshotInv
    <3>6. QED
      BY <3>2, <3>3, <3>4, <3>5
         DEF SnapshotInv, Coherent, SemanticInputs, Executed, Obligations
  <2>3. QED
    BY <1>6, <2>1, <2>2 DEF CompareObligations
<1>7. CASE Approve
  <2>1. run' = Exited /\ snapshot' = snapshot
    BY <1>7 DEF Approve
  <2>2. snapshot # None /\ Coherent(snapshot)
    BY <1>7 DEF Approve, Typed, PhaseInv, SnapshotInv
  <2>3. approved' = [context |-> snapshot.context, policy |-> snapshot.policy,
                     basis |-> snapshot]
    BY <1>7 DEF Approve
  <2>4. Coherent(approved'.basis) /\ Coherent(snapshot')
    BY <2>1, <2>2, <2>3
  <2>5. run'.purpose = "capture" /\ run'.pc = "idle"
    BY <2>1, ExitedIsRun
  <2>6. QED
    BY <2>3, <2>4, <2>5 DEF SnapshotInv, Coherent, SemanticInputs, Executed
<1>8. CASE Fails
  BY <1>0, <1>8 DEF Fails, Quietly
<1>9. ASSUME NEW q \in Paths, Edit(q)
      PROVE  SnapshotInv'
  <2>1. PICK v \in Values \ {tree[q]} : was' = [was EXCEPT ![q] = @ \cup {v}]
    BY <1>9 DEF Edit
  <2>2. tree[q] \in was[q] /\ was \in [Paths -> SUBSET Values] /\ tree'[q] # tree[q]
    BY <1>9 DEF IInv, WasInv, Typed, TypeOK, Edit
  <2>3. tree[q] \in was'[q]
    BY <2>1, <2>2
  <2>4. ~Still'
    BY <2>2, <2>3 DEF Still
  <2>5. run' = run /\ snapshot' = snapshot /\ approved' = approved
    BY <1>9 DEF Edit
  <2>6. /\ snapshot' # None => Coherent(snapshot')
        /\ approved' # None => /\ Coherent(approved'.basis)
                               /\ approved'.context = approved'.basis.context
                               /\ approved'.policy = approved'.basis.policy
    BY <2>5 DEF SnapshotInv
  <2>7. QED
    BY <2>4, <2>5, <2>6 DEF SnapshotInv, AsApproved, Coherent, SemanticInputs, Executed
<1>10. CASE UNCHANGED vars
  BY <1>10 DEF vars, SnapshotInv, Still, AsApproved, Coherent, SemanticInputs, Executed,
               Obligations
<1>11. QED
  BY <1>1, <1>2, <1>3, <1>4, <1>5, <1>6, <1>7, <1>8, <1>9, <1>10 DEF Next

\* Everything the properties need stays true.
THEOREM SnapshotInvariantHolds == Spec => []IInv
<1>1. IInv /\ [Next]_vars => IInv'
  BY TypedNext, WasNext, WalkNext, FirmNext, SnapshotNext DEF IInv
<1>2. QED
  BY <1>1, InvInit, PTL DEF Spec

\* Unless a file changed and changed back during it, a capture is of one
\* instant: of the trees as they were when the first walk ended (capture).
THEOREM CaptureOfOneInstant == Spec => []CaptureIsOfOneInstant
<1>1. IInv => CaptureIsOfOneInstant
  BY DEF IInv, SnapshotInv, Coherent, CaptureIsOfOneInstant
<1>2. QED
  BY <1>1, SnapshotInvariantHolds, PTL

\* What was executed for a coherent snapshot is listed in its policy.
LEMMA ExecutedIsListed ==
  ASSUME NEW s \in Snapshot, Coherent(s), ~s.returned, NEW p \in Executed(s.used)
  PROVE  /\ p \in Paths
         /\ s.tree[Config] # Absent
         /\ s.tree[p] # Absent
         /\ p \in ExecutionInputs(s.tree[Config])
<1> USE SnapshotAssumption DEF Snapshot, Trees
<1>1. s.used[Config] = s.tree[Config]
  BY DEF Coherent
<1>2. p \in ExecutablesOf[s.tree[Config]]
  BY <1>1 DEF Executed
<1>3. s.tree[Config] # Absent
  BY <1>2
<1>4. p \in SemanticInputs(s.used)
  BY DEF SemanticInputs
<1>5. s.tree[p] # Absent
  BY <1>4 DEF Coherent
<1>6. p \in Paths
  BY <1>2, ExecutablesArePaths
<1>7. QED
  BY <1>2, <1>3, <1>5, <1>6 DEF ExecutionInputs

\* Nothing is executed for a snapshot that its policy does not list with the
\* bytes that were executed (provider_policy and run_selected).
THEOREM ExecutedInPolicy == Spec => []ExecutedIsInPolicy
<1>1. IInv => ExecutedIsInPolicy
  <2>1. SUFFICES ASSUME IInv, snapshot # None, ~snapshot.returned,
                        NEW p \in Executed(snapshot.used)
                 PROVE  p \in DOMAIN snapshot.policy /\ snapshot.policy[p] = snapshot.used[p]
    BY DEF ExecutedIsInPolicy
  <2>2. snapshot \in Snapshot /\ Coherent(snapshot)
    BY <2>1 DEF IInv, Typed, TypeOK, SnapshotInv
  <2>3. p \in Paths /\ snapshot.tree[p] # Absent /\ p \in ExecutionInputs(snapshot.tree[Config])
    BY <2>1, <2>2, ExecutedIsListed
  <2>4. snapshot.policy = ProviderPolicy(snapshot.tree, snapshot.tree[Config])
    BY <2>1, <2>2 DEF Coherent
  <2>5. snapshot.used[p] = snapshot.tree[p]
    BY <2>1, <2>2 DEF Coherent
  <2>6. QED
    BY <2>3, <2>4, <2>5 DEF ProviderPolicy
<1>2. QED
  BY <1>1, SnapshotInvariantHolds, PTL

\* Of two trees with one policy, the entries it lists are the same.
LEMMA PolicyFixesEntries ==
  ASSUME NEW s \in Trees, NEW t \in Trees,
         ProviderPolicy(s, s[Config]) = ProviderPolicy(t, t[Config])
  PROVE  /\ s[Config] = t[Config]
         /\ \A p \in Paths : p \in SpecPaths \cup ExecutionInputs(t[Config]) => s[p] = t[p]
<1> DEFINE Dom(e) == {q \in Paths : /\ e[q] # Absent
                                    /\ q \in SpecPaths \cup ExecutionInputs(e[Config])}
<1>1. Dom(s) = Dom(t) /\ \A p \in Dom(s) : s[p] = t[p]
  <2>1. DOMAIN ProviderPolicy(s, s[Config]) = Dom(s) /\ DOMAIN ProviderPolicy(t, t[Config]) = Dom(t)
    BY DEF ProviderPolicy
  <2>2. \A p \in Dom(s) : ProviderPolicy(s, s[Config])[p] = s[p]
    BY DEF ProviderPolicy
  <2>3. \A p \in Dom(t) : ProviderPolicy(t, t[Config])[p] = t[p]
    BY DEF ProviderPolicy
  <2>4. QED
    BY <2>1, <2>2, <2>3
<1>2. s[Config] = t[Config]
  <2>1. \A e \in Trees : e[Config] # Absent => Config \in Dom(e)
    BY SnapshotAssumption DEF ExecutionInputs
  <2>2. QED
    BY <1>1, <2>1
<1>3. \A p \in Paths : p \in SpecPaths \cup ExecutionInputs(t[Config]) => s[p] = t[p]
  BY <1>1, <1>2
<1>4. QED
  BY <1>2, <1>3

\* What the gate accepts was extracted as the approved baseline was
\* (evaluate_snapshot, PROVIDER_POLICY_DRIFT and PRODUCER_CONTEXT_MISMATCH).
THEOREM AcceptedAsApproved == Spec => []AcceptedIsApproved
<1>1. IInv => AcceptedIsApproved
  <2>1. SUFFICES ASSUME IInv, Accepted, ~snapshot.returned, ~approved.basis.returned
                 PROVE  LET basis == approved.basis
                        IN  /\ snapshot.context = basis.context
                            /\ Executed(snapshot.used) = Executed(basis.used)
                            /\ \A p \in SpecPaths \cup Executed(basis.used) :
                                 snapshot.tree[p] = basis.tree[p]
                            /\ \A p \in Decisions \cup Executed(basis.used) :
                                 snapshot.used[p] = basis.used[p]
    BY DEF AcceptedIsApproved
  <2> DEFINE basis == approved.basis
  <2>2. snapshot # None /\ approved # None
    BY <2>1 DEF IInv, Typed, PhaseInv, Accepted
  <2>3. snapshot \in Snapshot /\ basis \in Snapshot
    BY <2>1, <2>2 DEF IInv, Typed, TypeOK, RequiredSet
  <2>4. Coherent(snapshot) /\ Coherent(basis)
    BY <2>1, <2>2 DEF IInv, SnapshotInv
  <2>5. snapshot.context = basis.context /\ snapshot.policy = basis.policy
    BY <2>1, <2>2 DEF IInv, SnapshotInv, Accepted, AsApproved
  <2>6. snapshot.tree \in Trees /\ basis.tree \in Trees
    BY <2>3 DEF Snapshot
  <2>7. ProviderPolicy(snapshot.tree, snapshot.tree[Config])
          = ProviderPolicy(basis.tree, basis.tree[Config])
    BY <2>1, <2>4, <2>5 DEF Coherent
  <2>8. /\ snapshot.tree[Config] = basis.tree[Config]
        /\ \A p \in Paths : p \in SpecPaths \cup ExecutionInputs(basis.tree[Config]) =>
             snapshot.tree[p] = basis.tree[p]
    BY <2>6, <2>7, PolicyFixesEntries
  <2>9. /\ \A p \in Sources \cup {Config} \cup Executed(snapshot.used) :
             snapshot.used[p] = snapshot.tree[p]
        /\ \A p \in Sources \cup {Config} \cup Executed(basis.used) : basis.used[p] = basis.tree[p]
    BY <2>1, <2>4 DEF Coherent
  <2>10. Executed(snapshot.used) = Executed(basis.used)
    BY <2>8, <2>9 DEF Executed
  <2>11. \A p \in Executed(basis.used) :
           p \in Paths /\ p \in ExecutionInputs(basis.tree[Config])
    BY <2>1, <2>3, <2>4, ExecutedIsListed
  <2>12. \A p \in SpecPaths \cup Executed(basis.used) : snapshot.tree[p] = basis.tree[p]
    BY <2>8, <2>11, SnapshotAssumption
  <2>13. \A p \in Decisions \cup Executed(basis.used) : snapshot.used[p] = basis.used[p]
    BY <2>9, <2>10, <2>12, SnapshotAssumption
  <2>14. QED
    BY <2>5, <2>10, <2>12, <2>13
<1>2. QED
  BY <1>1, SnapshotInvariantHolds, PTL

\* What the gate accepts while the trees hold still is of those trees, however
\* the capture was disturbed (validate).
THEOREM AcceptedPresent == Spec => []AcceptedIsPresent
<1>1. IInv => AcceptedIsPresent
  <2>1. SUFFICES ASSUME IInv, Accepted, Still
                 PROVE  /\ snapshot.tree = tree
                        /\ Obligations(snapshot.used) = Obligations(tree)
    BY DEF AcceptedIsPresent, Still
  <2>2. run.walked = snapshot.tree /\ Obligations(snapshot.used) = Obligations(tree)
    BY <2>1 DEF IInv, SnapshotInv, Accepted
  <2>3. \A p \in Paths : run.walked[p] = tree[p]
    BY <2>1 DEF IInv, WalkInv, Accepted, Still
  <2>4. run.walked \in Trees /\ tree \in Trees
    BY <2>1 DEF IInv, Typed, TypeOK, Run
  <2>5. QED
    BY <2>2, <2>3, <2>4 DEF Trees
<1>2. QED
  BY <1>1, SnapshotInvariantHolds, PTL
=============================================================================
