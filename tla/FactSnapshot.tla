---------------------------- MODULE FactSnapshot ----------------------------
(***************************************************************************)
(* Fact snapshots (fact_snapshot.rs) and the gate that relies on them      *)
(* (gate.rs prepare_snapshot, evaluate_snapshot).  A capture walks the two *)
(* source trees, reads the provider policy, loads the project - which runs *)
(* the configured providers -, hashes what was loaded, and walks the trees *)
(* again.  A validation walks them once more and compares.  Nothing locks  *)
(* the trees: a file may change between any two reads, and change back.    *)
(*                                                                         *)
(* Neither operation writes to the trees, so one process at a time shows   *)
(* all there is to see.  A file's kind, permissions and bytes are one      *)
(* value; a read of one file is one step.                                  *)
(***************************************************************************)
EXTENDS Naturals

CONSTANTS
  Paths,          \* files either tree may hold
  SpecPaths,      \* those of the specification tree
  Config,         \* adrproof.json
  Sources,        \* what loading reads besides configuration and providers
  Decisions,      \* the sources that hold the ADRs
  Contents,       \* what a file can be
  Absent,         \* ... when it is not there
  ExecutablesOf,  \* [Contents \cup {Absent} -> SUBSET Paths], as configured
  ObligationsOf,  \* [Contents \cup {Absent} -> ...], what ADRs lower to
  Contexts,       \* producer contexts
  Order,          \* [Paths -> Nat], the order in which files are visited
  None,
  MaxEdits        \* bound: so many edits of the trees

Values == Contents \cup {Absent}

ASSUME SnapshotAssumption ==
  /\ Config \in Paths
  /\ SpecPaths \subseteq Paths
  /\ Sources \subseteq Paths \ {Config}
  /\ Decisions \subseteq Sources \cap SpecPaths
  /\ Absent \notin Contents
  /\ ExecutablesOf \in [Values -> SUBSET (Paths \ (Sources \cup {Config}))]
  /\ ExecutablesOf[Absent] = {}
  /\ Order \in [Paths -> Nat]
  /\ MaxEdits \in Nat

VARIABLES
  tree,      \* the source trees
  run,       \* the one process: where it is and what it has read
  was,       \* history: what each file has been since the run began
  returned,  \* history: a file has become again what it was before
  snapshot,  \* the snapshot captured last
  approved,  \* the pinned required set, None at first
  edits

vars == <<tree, run, was, returned, snapshot, approved, edits>>

Trees == [Paths -> Values]

\* The entries of a tree that a policy lists.
Policies == UNION {[S -> Contents] : S \in SUBSET Paths}

\* `instant` and `returned` are history: the trees at the moment the first
\* walk ended, and whether the capture was disturbed unnoticeably.
Snapshot ==
  [context : Contexts, tree : Trees, policy : Policies, used : Trees,
   instant : Trees, returned : BOOLEAN]

\* What the approval pins; the snapshot it was prepared from is history.
RequiredSet == [context : Contexts, policy : Policies, basis : Snapshot]

Walking == {"walk", "rewalk"}

Run ==
  [pc : Walking \cup {"idle", "policy", "load", "execute", "hash", "obligations",
        "accepted"},
   purpose : {"capture", "prepare", "gate"},
   context : Contexts \cup {None},
   roots : SUBSET {"project", "spec"},   \* not yet listed
   left : SUBSET Paths,                  \* not yet read, in any phase
   walked : Trees, rewalked : Trees, instant : Trees \cup {None},
   policy : Policies \cup {None},
   used : Trees]

\* Trees, run and snapshot stay well formed: whatever a run still holds it has
\* read, and an approved set has the snapshot it was prepared with (capture,
\* prepare_snapshot).
TypeOK ==
  /\ tree \in Trees
  /\ run \in Run
  /\ was \in [Paths -> SUBSET Values]
  /\ returned \in BOOLEAN
  /\ snapshot \in Snapshot \cup {None}
  /\ approved \in RequiredSet \cup {None}
  /\ edits \in 0..MaxEdits

Nothing == [p \in Paths |-> Absent]

NewRun(pc, purpose, context) ==
  [pc |-> pc, purpose |-> purpose, context |-> context,
   roots |-> {"project", "spec"}, left |-> {}, walked |-> Nothing,
   rewalked |-> Nothing, instant |-> None, policy |-> None, used |-> Nothing]

\* An error leaves nothing behind.
Exited == [NewRun("idle", "capture", None) EXCEPT !.roots = {}]

Init ==
  /\ tree \in Trees
  /\ run = Exited
  /\ was = [p \in Paths |-> {tree[p]}]
  /\ returned = FALSE
  /\ snapshot = None
  /\ approved = None
  /\ edits = 0

-----------------------------------------------------------------------------
(* What is computed from what was read.                                    *)

\* external_provider::execution_inputs, of a configuration as just read.
ExecutionInputs(config) ==
  IF config = Absent THEN {} ELSE {Config} \cup ExecutablesOf[config]

\* provider_policy lists the specification alone.
ProviderPolicy_SpecOnly(entries, config) ==
  [p \in {q \in SpecPaths : entries[q] # Absent} |-> entries[p]]

\* provider_policy lists the specification and the execution inputs.
ProviderPolicy(entries, config) ==
  [p \in {q \in Paths : /\ entries[q] # Absent
                        /\ q \in SpecPaths \cup ExecutionInputs(config)} |-> entries[p]]

\* The inputs the loaded model reports; the configuration only if it named
\* providers.
Executed(used) == ExecutablesOf[used[Config]]

SemanticInputs(used) ==
  {p \in Sources : used[p] # Absent}
    \cup (IF Executed(used) = {} THEN {} ELSE {Config} \cup Executed(used))

\* validate_semantic: nonempty, and every hash is the one in the tree.
SemanticsHold(used, hashes, entries) ==
  /\ SemanticInputs(used) # {}
  /\ \A p \in SemanticInputs(used) : entries[p] = hashes[p] /\ hashes[p] # Absent

Obligations(entries) == [p \in Decisions |-> ObligationsOf[entries[p]]]

-----------------------------------------------------------------------------
(* Steps shared by capture and validation.                                 *)

Quietly == UNCHANGED <<tree, was, returned, snapshot, approved, edits>>

First(S, p) == p \in S /\ \A q \in S : Order[p] <= Order[q]

RootOf(p) == IF p \in SpecPaths THEN "spec" ELSE "project"

\* A directory is listed: what is not in it now is not looked for.
ListRoot(r) ==
  /\ run.pc \in Walking
  /\ r \in run.roots
  /\ run.left = {}
  /\ r = "spec" => "project" \notin run.roots
  /\ run' = [run EXCEPT !.roots = @ \ {r},
               !.left = {p \in Paths : RootOf(p) = r /\ tree[p] # Absent}]
  /\ Quietly

\* A listed file is read; one that is gone by now ends the run.
WalkFile(p) ==
  /\ run.pc \in Walking
  /\ First(run.left, p)
  /\ run' = IF tree[p] = Absent THEN Exited
            ELSE IF run.pc = "walk"
              THEN [run EXCEPT !.left = @ \ {p}, !.walked[p] = tree[p]]
              ELSE [run EXCEPT !.left = @ \ {p}, !.rewalked[p] = tree[p]]
  /\ Quietly

Walked == run.roots = {} /\ run.left = {}

\* The first walk has ended.  A validation compares it with the snapshot.
EndWalk ==
  /\ run.pc = "walk"
  /\ Walked
  /\ run' = IF run.purpose # "capture" /\ run.walked # snapshot.tree THEN Exited
            ELSE [run EXCEPT !.pc = "policy", !.instant = tree]
  /\ Quietly

\* The configuration is read again, its executables must be there, and all
\* must have been walked.  A validation compares the policy it finds.
ReadPolicy ==
  /\ run.pc = "policy"
  /\ LET config == tree[Config]
         found == /\ \A p \in ExecutionInputs(config) :
                       tree[p] # Absent /\ run.walked[p] # Absent
         policy == ProviderPolicy(run.walked, config)
     IN  run' = IF ~found \/ (run.purpose # "capture" /\ policy # snapshot.policy)
                  THEN Exited
                ELSE IF run.purpose = "capture"
                  THEN [run EXCEPT !.pc = "load", !.policy = policy, !.left = Sources]
                ELSE [run EXCEPT !.pc = "obligations"]
  /\ Quietly

\* Anything read may be unreadable, aliased, oversized or malformed, a
\* provider may fail, and a snapshot may not have the pinned hash.
Fails ==
  /\ run.pc \notin {"idle", "accepted"}
  /\ run' = Exited
  /\ Quietly

-----------------------------------------------------------------------------
(* capture                                                                 *)

Begin(new) ==
  /\ run' = new
  /\ was' = [p \in Paths |-> {tree[p]}]
  /\ returned' = FALSE
  /\ UNCHANGED <<tree, snapshot, approved, edits>>

StartCapture ==
  /\ run.pc \in {"idle", "accepted"}
  /\ \E c \in Contexts : Begin(NewRun("walk", "capture", c))

\* The ADRs, manifests and migrations are read.
LoadFile(p) ==
  /\ run.pc = "load"
  /\ First(run.left, p)
  /\ run' = [run EXCEPT !.left = @ \ {p}, !.used[p] = tree[p]]
  /\ Quietly

\* run_selected reads the configuration a second time ...
LoadConfiguration ==
  /\ run.pc = "load"
  /\ run.left = {}
  /\ run' = [run EXCEPT !.pc = "execute", !.used[Config] = tree[Config],
                        !.left = ExecutablesOf[tree[Config]]]
  /\ Quietly

\* ... and runs what it names.
Execute(p) ==
  /\ run.pc = "execute"
  /\ First(run.left, p)
  /\ run' = IF tree[p] = Absent THEN Exited
            ELSE [run EXCEPT !.left = @ \ {p}, !.used[p] = tree[p]]
  /\ Quietly

\* Every input of the model must have been walked.
EndLoad ==
  /\ run.pc = "execute"
  /\ run.left = {}
  /\ run' = IF \E p \in SemanticInputs(run.used) : run.walked[p] = Absent THEN Exited
            ELSE [run EXCEPT !.pc = "hash", !.left = SemanticInputs(run.used)]
  /\ Quietly

\* fingerprint_semantic_files; validate_semantic compares each hash with the
\* first walk.
HashFile(p) ==
  /\ run.pc = "hash"
  /\ First(run.left, p)
  /\ run' = IF tree[p] # run.walked[p] THEN Exited
            ELSE [run EXCEPT !.left = @ \ {p}]
  /\ Quietly

EndHash ==
  /\ run.pc = "hash"
  /\ run.left = {}
  /\ run' = [run EXCEPT !.pc = "rewalk", !.roots = {"project", "spec"}]
  /\ Quietly

Captured ==
  [context |-> run.context, tree |-> run.walked, policy |-> run.policy,
   used |-> run.used, instant |-> run.instant, returned |-> returned]

\* The two walks are not compared.
EndCapture_NoDrift ==
  /\ run.pc = "rewalk"
  /\ Walked
  /\ run' = Exited
  /\ snapshot' = IF SemanticsHold(run.used, run.walked, run.walked)
                   THEN Captured ELSE snapshot
  /\ UNCHANGED <<tree, was, returned, approved, edits>>

\* CAPTURE_INPUT_DRIFT unless both walks saw the same.
EndCapture ==
  /\ run.pc = "rewalk"
  /\ Walked
  /\ run' = Exited
  /\ snapshot' = IF /\ run.rewalked = run.walked
                    /\ SemanticsHold(run.used, run.walked, run.walked)
                   THEN Captured ELSE snapshot
  /\ UNCHANGED <<tree, was, returned, approved, edits>>

-----------------------------------------------------------------------------
(* validate, on behalf of prepare_snapshot or evaluate_snapshot.           *)

\* read_set accepts the pinned, approved snapshot-mode set and nothing else.
StartValidation ==
  /\ run.pc \in {"idle", "accepted"}
  /\ snapshot # None
  /\ \E purpose \in {"prepare", "gate"} :
        /\ purpose = "gate" => approved # None
        /\ Begin(NewRun("walk", purpose, None))

\* PRODUCER_CONTEXT_MISMATCH, PROVIDER_POLICY_DRIFT.
AsApproved_ContextOnly == approved.context = snapshot.context

AsApproved ==
  /\ approved.context = snapshot.context
  /\ approved.policy = snapshot.policy

\* The obligations are taken from the snapshot on trust.
CompareObligations_Trusting ==
  /\ run.pc = "obligations"
  /\ run' = IF run.purpose = "gate" /\ ~AsApproved THEN Exited
            ELSE [run EXCEPT !.pc = "accepted"]
  /\ Quietly

\* The ADRs are loaded and lowered, and the captured model must have their
\* obligations.  evaluate_snapshot then compares with the required set.
CompareObligations ==
  /\ run.pc = "obligations"
  /\ run' = IF Obligations(tree) # Obligations(snapshot.used) THEN Exited
            ELSE IF run.purpose = "gate" /\ ~AsApproved THEN Exited
            ELSE [run EXCEPT !.pc = "accepted"]
  /\ Quietly

\* The draft is given the context of a capture that is not there.
Approve_ContextOfRun ==
  /\ run.pc = "accepted" /\ run.purpose = "prepare"
  /\ approved' = [context |-> run.context, policy |-> snapshot.policy,
                  basis |-> snapshot]
  /\ run' = Exited
  /\ UNCHANGED <<tree, was, returned, snapshot, edits>>

\* prepare_internal puts context and policy into the draft; a human approves
\* and pins it.
Approve ==
  /\ run.pc = "accepted" /\ run.purpose = "prepare"
  /\ approved' = [context |-> snapshot.context, policy |-> snapshot.policy,
                  basis |-> snapshot]
  /\ run' = Exited
  /\ UNCHANGED <<tree, was, returned, snapshot, edits>>

-----------------------------------------------------------------------------
\* Someone - a provider that is being run, too - changes a file.
Edit(p) ==
  /\ edits < MaxEdits
  /\ edits' = edits + 1
  /\ \E v \in Values \ {tree[p]} :
        /\ tree' = [tree EXCEPT ![p] = v]
        /\ was' = [was EXCEPT ![p] = @ \cup {v}]
        /\ returned' = (returned \/ v \in was[p])
  /\ UNCHANGED <<run, snapshot, approved>>

Next ==
  \/ StartCapture \/ StartValidation
  \/ \E r \in {"project", "spec"} : ListRoot(r)
  \/ \E p \in Paths : \/ WalkFile(p) \/ LoadFile(p) \/ Execute(p)
                      \/ HashFile(p) \/ Edit(p)
  \/ EndWalk \/ ReadPolicy \/ LoadConfiguration \/ EndLoad \/ EndHash
  \/ EndCapture \/ CompareObligations \/ Approve \/ Fails

Spec == Init /\ [][Next]_vars

-----------------------------------------------------------------------------
(* Properties                                                              *)

\* A snapshot is of one instant: unless a file changed and changed back while
\* it was being captured, which no comparison of walks can see, the trees as a
\* whole once were what it lists, and its model was loaded from exactly that,
\* though every file was read at another time (capture, CAPTURE_INPUT_DRIFT).
CaptureIsOfOneInstant ==
  snapshot # None /\ ~snapshot.returned =>
    /\ snapshot.instant = snapshot.tree
    /\ \A p \in Sources \cup {Config} \cup Executed(snapshot.used) :
         snapshot.used[p] = snapshot.tree[p]

\* Whatever was executed for a snapshot is in the policy it lists, with the
\* bytes that were executed, though policy and loading read the configuration
\* separately (provider_policy before load_project_model_with_roots).
ExecutedIsInPolicy ==
  snapshot # None /\ ~snapshot.returned =>
    \A p \in Executed(snapshot.used) :
       p \in DOMAIN snapshot.policy /\ snapshot.policy[p] = snapshot.used[p]

Accepted == run.pc = "accepted" /\ run.purpose = "gate"

\* A snapshot the gate goes on with was extracted under the specification, by
\* the executables and in the context of the one its baseline was approved
\* with, whichever tree each was captured from (evaluate_snapshot).
AcceptedIsApproved ==
  Accepted /\ ~snapshot.returned /\ ~approved.basis.returned =>
    LET basis == approved.basis
    IN  /\ snapshot.context = basis.context
        /\ Executed(snapshot.used) = Executed(basis.used)
        /\ \A p \in SpecPaths \cup Executed(basis.used) : snapshot.tree[p] = basis.tree[p]
        /\ \A p \in Decisions \cup Executed(basis.used) : snapshot.used[p] = basis.used[p]

\* If the trees hold still while a snapshot is validated, they are the captured
\* ones and the captured obligations are theirs, even when the capture was
\* disturbed unnoticeably (validate, SNAPSHOT_STALE and SNAPSHOT_SPEC_MISMATCH).
AcceptedIsPresent ==
  Accepted /\ (\A p \in Paths : was[p] = {tree[p]}) =>
    /\ snapshot.tree = tree
    /\ Obligations(snapshot.used) = Obligations(tree)
=============================================================================
