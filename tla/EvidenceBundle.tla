--------------------------- MODULE EvidenceBundle ---------------------------
(***************************************************************************)
(* Evidence bundles (bundle.rs): create copies a state root, file by file, *)
(* while other commands may add records to it and rewrite its artifacts;   *)
(* verify judges the copy later, offline.  Records are immutable and are   *)
(* renamed into the directory of their kind; they may cite records that    *)
(* were there before.  An artifact (the project model) is rewritten in     *)
(* place.  A create may die anywhere, a finished bundle be damaged.        *)
(***************************************************************************)
EXTENDS Naturals, FiniteSets

CONSTANTS
  Bundled,       \* records
  DirectoryOf,   \* [Bundled -> Nat \ {0}], directories in the order of names
  Cites,         \* [Bundled -> SUBSET Bundled]
  Artifact,      \* the one artifact, last of the root directory
  Contents,      \* what it may contain
  Torn,          \* ... and when it is half rewritten
  Keys,          \* signing keys
  Absent,        \* no file
  Partial,       \* a file that was created and not yet written
  MaxDamage      \* bound: so many files are damaged

Paths == Bundled \cup {Artifact}

\* A record is its content; damaged stands for other bytes.
Bytes == Bundled \cup Contents \cup {Torn, "damaged"}

\* What is in the directories of a bundle, and what its manifest lists.
PartialData == UNION {[S -> Bytes] : S \in SUBSET Paths}
SignatureFiles == [key : Keys, manifest : PartialData]

ASSUME BundleAssumption ==
  /\ DirectoryOf \in [Bundled -> Nat \ {0}]
  /\ Cites \in [Bundled -> SUBSET Bundled]
  /\ Artifact \notin Bundled
  /\ Torn \notin Contents
  /\ Absent # Partial
  /\ {Absent, Partial} \cap (Keys \cup PartialData \cup SignatureFiles) = {}
  /\ MaxDamage \in Nat

VARIABLES
  stored,    \* the records in the state root
  artifact,  \* the content of the artifact
  creator,   \* the create command
  bundle,    \* its output directory
  damage

bundleVars == <<stored, artifact, creator, bundle, damage>>

Directories == {DirectoryOf[r] : r \in Bundled}

NoBundle == [exists |-> FALSE, data |-> <<>>, manifest |-> Absent, signature |-> Absent]

Dead == [pc |-> "idle", key |-> Absent, unlisted |-> {}, found |-> {}, listed |-> {},
         hashes |-> <<>>]

BundleInit ==
  /\ stored = {}
  /\ artifact \in Contents
  /\ creator = Dead
  /\ bundle = NoBundle
  /\ damage = 0

-----------------------------------------------------------------------------
(* The state root.                                                         *)

\* A record is renamed into place, after what it cites.
AddRecord(r) ==
  /\ r \notin stored
  /\ Cites[r] \subseteq stored
  /\ stored' = stored \cup {r}
  /\ UNCHANGED <<artifact, creator, bundle, damage>>

\* run_check_with_roots writes project-model.json in place: fs::write truncates,
\* then writes.
Rewrite ==
  /\ artifact' \in IF artifact = Torn THEN Contents ELSE {Torn}
  /\ UNCHANGED <<stored, creator, bundle, damage>>

-----------------------------------------------------------------------------
(* create_with_signing_key                                                 *)

Elsewhere == UNCHANGED <<stored, artifact, damage>>

\* An output that exists is refused, whatever is in it.  The root directory
\* is listed.
Create ==
  /\ creator.pc = "idle"
  /\ ~bundle.exists
  /\ bundle' = [bundle EXCEPT !.exists = TRUE]
  /\ LET found == {DirectoryOf[r] : r \in stored}
     IN  \E key \in Keys \cup {Absent} :
           creator' = [Dead EXCEPT !.pc = "list", !.key = key, !.unlisted = found,
                                   !.found = found]
  /\ Elsewhere

\* collect_files: directories by name, names beginning with a dot left out,
\* so that no temporary file is.
ListDirectory_Reversed ==
  /\ creator.pc = "list"
  /\ \E d \in creator.unlisted :
       /\ \A e \in creator.unlisted : d >= e
       /\ creator' = [creator EXCEPT !.unlisted = @ \ {d},
                        !.listed = @ \cup {r \in stored : DirectoryOf[r] = d}]
  /\ UNCHANGED bundle /\ Elsewhere

ListDirectory ==
  /\ creator.pc = "list"
  /\ \E d \in creator.unlisted :
       /\ \A e \in creator.unlisted : d <= e
       /\ creator' = [creator EXCEPT !.unlisted = @ \ {d},
                        !.listed = @ \cup {r \in stored : DirectoryOf[r] = d}]
  /\ UNCHANGED bundle /\ Elsewhere

\* The artifact comes last.
EndListing ==
  /\ creator.pc = "list"
  /\ creator.unlisted = {}
  /\ creator' = [creator EXCEPT !.pc = "copy", !.listed = @ \cup {Artifact}]
  /\ UNCHANGED bundle /\ Elsewhere

With(f, p, v) == [q \in DOMAIN f \cup {p} |-> IF q = p THEN v ELSE f[q]]

Source(p) == IF p = Artifact THEN artifact ELSE p

Copy(p) ==
  /\ creator.pc = "copy"
  /\ p \in creator.listed \ DOMAIN bundle.data
  /\ DOMAIN bundle.data = DOMAIN creator.hashes
  /\ bundle' = [bundle EXCEPT !.data = With(@, p, Source(p))]
  /\ UNCHANGED creator /\ Elsewhere

\* The source is hashed, not the copy.
HashCopy_OfSource(p) ==
  /\ creator.pc = "copy"
  /\ p \in DOMAIN bundle.data \ DOMAIN creator.hashes
  /\ creator' = [creator EXCEPT !.hashes = With(@, p, Source(p))]
  /\ UNCHANGED bundle /\ Elsewhere

HashCopy(p) ==
  /\ creator.pc = "copy"
  /\ p \in DOMAIN bundle.data \ DOMAIN creator.hashes
  /\ creator' = [creator EXCEPT !.hashes = With(@, p, bundle.data[p])]
  /\ UNCHANGED bundle /\ Elsewhere

\* The manifest does not wait for the last file.
BeginManifest_Early ==
  /\ creator.pc = "copy"
  /\ DOMAIN creator.hashes = DOMAIN bundle.data
  /\ creator' = [creator EXCEPT !.pc = "manifest"]
  /\ bundle' = [bundle EXCEPT !.manifest = Partial]
  /\ Elsewhere

\* bundle.json is created, then has its content.
BeginManifest ==
  /\ creator.pc = "copy"
  /\ DOMAIN creator.hashes = creator.listed
  /\ creator' = [creator EXCEPT !.pc = "manifest"]
  /\ bundle' = [bundle EXCEPT !.manifest = Partial]
  /\ Elsewhere

\* A bundle without a key is signed all the same.
WriteManifest_AlwaysSigned ==
  /\ creator.pc = "manifest"
  /\ creator' = [creator EXCEPT !.pc = "sign"]
  /\ bundle' = [bundle EXCEPT !.manifest = creator.hashes]
  /\ Elsewhere

WriteManifest ==
  /\ creator.pc = "manifest"
  /\ creator' = [creator EXCEPT !.pc = IF creator.key = Absent THEN "done" ELSE "sign"]
  /\ bundle' = [bundle EXCEPT !.manifest = creator.hashes]
  /\ Elsewhere

\* bundle.sig.json likewise; the signature is of the manifest in memory.
BeginSignature ==
  /\ creator.pc = "sign"
  /\ creator' = [creator EXCEPT !.pc = "signature"]
  /\ bundle' = [bundle EXCEPT !.signature = Partial]
  /\ Elsewhere

WriteSignature ==
  /\ creator.pc = "signature"
  /\ creator' = [creator EXCEPT !.pc = "done"]
  /\ bundle' = [bundle EXCEPT !.signature = [key |-> creator.key, manifest |-> creator.hashes]]
  /\ Elsewhere

\* An error or the death of the process.
CreateStops ==
  /\ creator.pc \notin {"idle", "done", "stopped"}
  /\ creator' = [creator EXCEPT !.pc = "stopped"]
  /\ UNCHANGED bundle /\ Elsewhere

\* A file of a bundle that nobody writes any more is lost, changed or added.
Damage ==
  /\ creator.pc \in {"done", "stopped"}
  /\ damage < MaxDamage
  /\ damage' = damage + 1
  /\ \/ \E p \in DOMAIN bundle.data :
          bundle' = [bundle EXCEPT !.data = [q \in DOMAIN @ \ {p} |-> @[q]]]
     \/ \E p \in Paths : bundle' = [bundle EXCEPT !.data = With(@, p, "damaged")]
     \/ bundle' \in {[bundle EXCEPT !.manifest = Partial],
                     [bundle EXCEPT !.manifest = Absent],
                     [bundle EXCEPT !.signature = Absent]}
  /\ UNCHANGED <<stored, artifact, creator>>

BundleNext ==
  \/ \E r \in Bundled : AddRecord(r)
  \/ Rewrite
  \/ Create \/ ListDirectory \/ EndListing
  \/ \E p \in Paths : Copy(p) \/ HashCopy(p)
  \/ BeginManifest \/ WriteManifest \/ BeginSignature \/ WriteSignature
  \/ CreateStops \/ Damage

BundleSpec == BundleInit /\ [][BundleNext]_bundleVars

-----------------------------------------------------------------------------
(* verify_with_key, verify_signature                                       *)

Parses(file) == file \notin {Absent, Partial}

\* A signature is required by name or by a trusted key.  One that is there
\* must be of this manifest in any case.
SignatureHolds(trusted, required) ==
  IF bundle.signature = Absent THEN ~required /\ trusted = Absent
  ELSE /\ Parses(bundle.signature)
       /\ bundle.signature.manifest = bundle.manifest
       /\ trusted \in {Absent, bundle.signature.key}

\* Every listed file has its bytes, and no other file is there.
Verifies(trusted, required) ==
  /\ Parses(bundle.manifest)
  /\ bundle.data = bundle.manifest
  /\ SignatureHolds(trusted, required)

-----------------------------------------------------------------------------
(* Properties                                                              *)

\* State root, creator and bundle stay well formed, and nothing is in an output
\* directory that no create has made (create_with_signing_key).
BundleTypeOK ==
  /\ stored \subseteq Bundled
  /\ artifact \in Contents \cup {Torn}
  /\ damage \in 0..MaxDamage
  /\ bundle.exists \in BOOLEAN
  /\ bundle.data \in PartialData
  /\ Parses(bundle.manifest) => bundle.manifest \in PartialData
  /\ Parses(bundle.signature) => bundle.signature \in SignatureFiles
  /\ creator.pc \in {"idle", "list", "copy", "manifest", "sign", "signature", "done", "stopped"}
  /\ creator.key \in Keys \cup {Absent}
  /\ creator.unlisted \subseteq creator.found /\ creator.found \subseteq Directories
  /\ creator.listed \subseteq Paths
  /\ creator.hashes \in PartialData
  /\ ~bundle.exists => bundle = NoBundle /\ creator = Dead

\* A create that returns has made a bundle that verifies, whatever was written
\* to the state root meanwhile, even half a file (fs::copy, then the copy is
\* read and hashed).
CreatedBundleVerifies ==
  creator.pc = "done" /\ damage = 0 =>
    /\ Verifies(Absent, FALSE)
    /\ creator.key # Absent => Verifies(creator.key, TRUE)

\* What verifies is everything that was listed, as it was copied: neither a
\* create that died at any point nor later damage leaves a bundle that
\* verifies with less; and with a signature asked for, it was signed with that
\* key when all was written (bundle.json written last, collect_bundle_identities).
VerifiedBundleIsWhole ==
  \A trusted \in Keys \cup {Absent}, required \in BOOLEAN :
    Verifies(trusted, required) =>
      /\ DOMAIN bundle.data = creator.listed
      /\ bundle.data = creator.hashes
      /\ required \/ trusted # Absent => creator.key # Absent
      /\ trusted # Absent => creator.key = trusted

\* A record in a finished bundle finds there what it cites of a kind whose
\* directory is listed after its own and was there at the start, though records
\* are added all the time (collect_files, entries.sort; model-validation-evidence
\* comes before scenario-evidence, after model-evidence).
LaterCitationsResolve ==
  creator.pc = "done" =>
    \A r \in creator.listed \cap Bundled : \A c \in Cites[r] :
      DirectoryOf[c] >= DirectoryOf[r] /\ DirectoryOf[c] \in creator.found =>
        c \in creator.listed
=============================================================================
