---------------------------- MODULE ReviewStore ----------------------------
(***************************************************************************)
(* The formalization-review store (reviews.rs): a directory of content     *)
(* addressed records, `<id>.json`, written by `review import` and read by  *)
(* `review status` and `review prepare`.  Nothing locks the directory.     *)
(* Every command is a process that lists the directory, parses the listed  *)
(* files one by one, and rejects the store as a whole unless the reviews   *)
(* form linear histories; an import then creates its file exclusively,     *)
(* writes it in place, syncs it and loads the whole store again before it  *)
(* reports success.  Processes interleave between any two file operations  *)
(* and may die anywhere.                                                   *)
(***************************************************************************)
EXTENDS ReviewRules

CONSTANT Procs  \* concurrently running review commands

VARIABLES
  file,      \* [Records -> FileState]: the file `<id>.json` of each record
  spec,      \* current revision of the specification tree
  pc,        \* what each process does next
  doc,       \* the document a process imports (NoRecord: a status command)
  listing,   \* the directory listing of the load in progress
  unread,    \* the listed files that load has still to parse
  accepted,  \* history: every set of records some load has accepted
  acked      \* history: the records whose import has reported success

vars == <<file, spec, pc, doc, listing, unread, accepted, acked>>

FileState == {"absent", "partial", "complete"}
PC == {"idle", "listing", "reading", "deciding", "creating", "writing",
       "syncing", "comparing", "relisting", "rereading"}

Present  == {r \in Records : file[r] # "absent"}
Complete == {r \in Records : file[r] = "complete"}

\* Files and commands of the review store stay well formed (load, import).
TypeOK ==
  /\ file \in [Records -> FileState]
  /\ spec \in Revisions
  /\ pc \in [Procs -> PC]
  /\ doc \in [Procs -> Records \cup {NoRecord}]
  /\ listing \in [Procs -> SUBSET Records]
  /\ unread \in [Procs -> SUBSET Records]
  /\ \A p \in Procs : unread[p] \subseteq listing[p]
  /\ accepted \subseteq SUBSET Records
  /\ acked \subseteq Records

Init ==
  /\ file = [r \in Records |-> "absent"]
  /\ spec \in Revisions
  /\ pc = [p \in Procs |-> "idle"]
  /\ doc = [p \in Procs |-> NoRecord]
  /\ listing = [p \in Procs |-> {}]
  /\ unread = [p \in Procs |-> {}]
  /\ accepted = {}
  /\ acked = {}

-----------------------------------------------------------------------------
(* Reading the store: load() and parse().                                  *)

Finish(p) ==
  /\ pc' = [pc EXCEPT ![p] = "idle"]
  /\ doc' = [doc EXCEPT ![p] = NoRecord]
  /\ listing' = [listing EXCEPT ![p] = {}]
  /\ unread' = [unread EXCEPT ![p] = {}]

Goto(p, label) ==
  /\ pc' = [pc EXCEPT ![p] = label]
  /\ UNCHANGED doc

\* parse() refuses truncated JSON, and validate() an unapproved draft.
Parses(r) == file[r] = "complete" /\ DecisionOf[r] # "draft"

List_KeepsOldListing(p) ==
  /\ pc[p] \in {"listing", "relisting"}
  /\ unread' = [unread EXCEPT ![p] = Present]
  /\ Goto(p, IF pc[p] = "listing" THEN "reading" ELSE "rereading")
  /\ UNCHANGED <<listing, file, spec, accepted, acked>>

\* read_dir: the names present now.
List(p) ==
  /\ pc[p] \in {"listing", "relisting"}
  /\ listing' = [listing EXCEPT ![p] = Present]
  /\ unread' = [unread EXCEPT ![p] = Present]
  /\ Goto(p, IF pc[p] = "listing" THEN "reading" ELSE "rereading")
  /\ UNCHANGED <<file, spec, accepted, acked>>

\* One listed file is opened and parsed, as it is at that moment.
ReadEntry(p) ==
  /\ pc[p] \in {"reading", "rereading"}
  /\ \E r \in unread[p] :
        /\ Parses(r)
        /\ unread' = [unread EXCEPT ![p] = @ \ {r}]
  /\ UNCHANGED <<file, spec, pc, doc, listing, accepted, acked>>

\* A listed file that does not parse fails the whole command.
ReadBroken(p) ==
  /\ pc[p] \in {"reading", "rereading"}
  /\ \E r \in unread[p] : ~Parses(r)
  /\ Finish(p)
  /\ UNCHANGED <<file, spec, accepted, acked>>

\* heads() accepts what was read.  A status or prepare command reports it,
\* an import goes on to its own checks.
AcceptFirstLoad(p) ==
  /\ pc[p] = "reading"
  /\ unread[p] = {}
  /\ Linear(listing[p])
  /\ accepted' = accepted \cup {listing[p]}
  /\ IF doc[p] = NoRecord
       THEN Finish(p)
       ELSE Goto(p, "deciding") /\ UNCHANGED <<listing, unread>>
  /\ UNCHANGED <<file, spec, acked>>

\* An import that "rolls back" its own record when the store is rejected.
RejectLoad_RollsBack(p) ==
  /\ pc[p] \in {"reading", "rereading"}
  /\ unread[p] = {}
  /\ ~Linear(listing[p])
  /\ Finish(p)
  /\ file' = IF pc[p] = "rereading"
               THEN [file EXCEPT ![doc[p]] = "absent"] ELSE file
  /\ UNCHANGED <<spec, accepted, acked>>

\* heads() refuses: the command fails and the files stay as they are.
RejectLoad(p) ==
  /\ pc[p] \in {"reading", "rereading"}
  /\ unread[p] = {}
  /\ ~Linear(listing[p])
  /\ Finish(p)
  /\ UNCHANGED <<file, spec, accepted, acked>>

-----------------------------------------------------------------------------
(* import()                                                                *)

StartImport(p) ==
  /\ pc[p] = "idle"
  /\ \E r \in Records : doc' = [doc EXCEPT ![p] = r]
  /\ pc' = [pc EXCEPT ![p] = "listing"]
  /\ UNCHANGED <<file, spec, listing, unread, accepted, acked>>

StartStatus(p) ==
  /\ pc[p] = "idle"
  /\ pc' = [pc EXCEPT ![p] = "listing"]
  /\ UNCHANGED <<file, spec, doc, listing, unread, accepted, acked>>

\* The submission is well formed and its binding is what prepare would
\* compute now: an active, completely mapped requirement of this revision.
Submittable(r) ==
  /\ DecisionOf[r] # "draft"
  /\ BoundTo[r] = spec
  /\ RequirementOf[r] \in Active[spec] \cap Mapped[spec]

\* It continues the loaded history from that history's head.
ExtendsHead(S, r) ==
  /\ SupersedesOf[r] = Head(S, RequirementOf[r])
  /\ Linear(S \cup {r})

Refuse(p) ==
  /\ pc[p] = "deciding"
  /\ \/ ~Submittable(doc[p])
     \/ doc[p] \notin listing[p] /\ ~ExtendsHead(listing[p], doc[p])
  /\ Finish(p)
  /\ UNCHANGED <<file, spec, accepted, acked>>

\* Importing a stored record again succeeds at once.
AlreadyStored(p) ==
  /\ pc[p] = "deciding"
  /\ Submittable(doc[p])
  /\ doc[p] \in listing[p]
  /\ acked' = acked \cup {doc[p]}
  /\ Finish(p)
  /\ UNCHANGED <<file, spec, accepted>>

Proceed(p) ==
  /\ pc[p] = "deciding"
  /\ Submittable(doc[p])
  /\ doc[p] \notin listing[p]
  /\ ExtendsHead(listing[p], doc[p])
  /\ Goto(p, "creating")
  /\ UNCHANGED <<file, spec, listing, unread, accepted, acked>>

\* Opening for writing without O_EXCL truncates what is there.
Create_Truncates(p) ==
  /\ pc[p] = "creating"
  /\ file' = [file EXCEPT ![doc[p]] = "partial"]
  /\ Goto(p, "writing")
  /\ UNCHANGED <<spec, listing, unread, accepted, acked>>

\* create_new: only one process creates the file; any other compares.
Create(p) ==
  /\ pc[p] = "creating"
  /\ IF file[doc[p]] = "absent"
       THEN /\ file' = [file EXCEPT ![doc[p]] = "partial"]
            /\ Goto(p, "writing")
       ELSE Goto(p, "comparing") /\ UNCHANGED file
  /\ UNCHANGED <<spec, listing, unread, accepted, acked>>

Write(p) ==
  /\ pc[p] = "writing"
  /\ file' = [file EXCEPT ![doc[p]] = "complete"]
  /\ Goto(p, "syncing")
  /\ UNCHANGED <<spec, listing, unread, accepted, acked>>

\* The import reports success without loading the store again.
Sync_ReportsSuccess(p) ==
  /\ pc[p] = "syncing"
  /\ acked' = acked \cup {doc[p]}
  /\ Finish(p)
  /\ UNCHANGED <<file, spec, accepted>>

Sync(p) ==
  /\ pc[p] = "syncing"
  /\ Goto(p, "relisting")
  /\ UNCHANGED <<file, spec, listing, unread, accepted, acked>>

\* open, write_all or sync_all fails: an error is reported, the file stays.
IoError(p) ==
  /\ pc[p] \in {"creating", "writing", "syncing"}
  /\ Finish(p)
  /\ UNCHANGED <<file, spec, accepted, acked>>

\* An import that waits for the other writer of the same file.
CompareBroken_Waits(p) == FALSE

\* The existing file does not parse yet (or never will): an error.
CompareBroken(p) ==
  /\ pc[p] = "comparing"
  /\ ~Parses(doc[p])
  /\ Finish(p)
  /\ UNCHANGED <<file, spec, accepted, acked>>

\* The name is the hash of the content, so a parsed file holds the record.
CompareEqual(p) ==
  /\ pc[p] = "comparing"
  /\ Parses(doc[p])
  /\ Goto(p, "relisting")
  /\ UNCHANGED <<file, spec, listing, unread, accepted, acked>>

\* The store, reloaded after the write, is accepted: success is reported.
AcceptFinalLoad(p) ==
  /\ pc[p] = "rereading"
  /\ unread[p] = {}
  /\ Linear(listing[p])
  /\ accepted' = accepted \cup {listing[p]}
  /\ acked' = acked \cup {doc[p]}
  /\ Finish(p)
  /\ UNCHANGED <<file, spec>>

-----------------------------------------------------------------------------
(* The environment: processes die, and the specification is edited.        *)

Crash(p) ==
  /\ pc[p] # "idle"
  /\ Finish(p)
  /\ UNCHANGED <<file, spec, accepted, acked>>

Edit ==
  /\ spec' \in Revisions \ {spec}
  /\ UNCHANGED <<file, pc, doc, listing, unread, accepted, acked>>

Load(p) ==
  List(p) \/ ReadEntry(p) \/ ReadBroken(p) \/ AcceptFirstLoad(p) \/ RejectLoad(p)

Import(p) ==
  \/ Refuse(p) \/ AlreadyStored(p) \/ Proceed(p) \/ Create(p) \/ Write(p)
  \/ Sync(p) \/ IoError(p) \/ CompareBroken(p) \/ CompareEqual(p)
  \/ AcceptFinalLoad(p)

Start(p) == StartImport(p) \/ StartStatus(p)

Next ==
  \/ \E p \in Procs : Start(p) \/ Load(p) \/ Import(p) \/ Crash(p)
  \/ Edit

Spec == Init /\ [][Next]_vars

\* A running command is scheduled, and its file operations return.
FairSpec == Spec /\ \A p \in Procs : WF_vars(Load(p) \/ Import(p))

-----------------------------------------------------------------------------
(* Properties                                                              *)

\* Two loads never accept histories that disagree: of any two histories that
\* commands have accepted, one continues the other.  Concurrent imports may
\* leave a branch, but nobody is ever shown one side of it while another
\* command is shown the other (reviews.rs import(): "never silently pick a
\* head").  It takes create_new, the atomic listing and the fact that no
\* command removes a file, together.
AcceptedHistoriesAgree ==
  \A S, T \in accepted : S \subseteq T \/ T \subseteq S

\* All acknowledged imports are part of one accepted linear history whose
\* files are complete.  Two imports racing to supersede the same head are
\* never both told that they succeeded; it is the load after the write that
\* ensures it.
AckedInOneHistory ==
  \E S \in accepted \cup {{}} :
    acked \subseteq S /\ S \subseteq Complete /\ Linear(S)

\* Whenever status would report REVIEWS_CURRENT for an accepted history, a
\* human has approved in full exactly the formalization that each active
\* requirement has now, however many no_semantic_change reapprovals and
\* edits of the tree lie between: heads() checks every link only locally.
CurrentRestsOnFullApproval ==
  \A S \in accepted, rev \in Revisions :
    ReviewsCurrent(S, rev) => \A q \in Active[rev] : FullyApproved(S, rev, q)

\* A complete record is never truncated, replaced or removed by any command,
\* whatever other imports of the same record are doing.
StoredRecordsNeverChange ==
  [][\A r \in Records : file[r] = "complete" => file'[r] = "complete"]_vars

\* Every command that starts returns, also next to crashed importers that
\* left half-written files behind: nothing waits for another process.
CommandsReturn ==
  \A p \in Procs : pc[p] # "idle" ~> pc[p] = "idle"

\* The union of what was accepted so far is the one history that the
\* abstract specification lets grow.
AcceptedHistory == INSTANCE ReviewHistory WITH history <- UNION accepted

\* The store implements it.
ImplementsHistory == AcceptedHistory!Spec
=============================================================================
