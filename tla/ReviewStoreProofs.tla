------------------------- MODULE ReviewStoreProofs -------------------------
(***************************************************************************)
(* Proofs about the review store, for any number of commands, records,     *)
(* requirements and revisions.  The argument rests on three observations:  *)
(* files only go from absent to partial to complete; every listing is a    *)
(* snapshot of a growing set of names, so any two listings are comparable; *)
(* and a listing is accepted only when it is linear and entirely parsed.   *)
(* Hence the accepted histories form a chain, whose largest member holds   *)
(* every acknowledged record.                                              *)
(***************************************************************************)
EXTENDS ReviewStore, ReviewRulesProofs, TLAPS

Good == {r \in Records : Parses(r)}

\* The labels at which a command is an import past its first load.
Importing == {"deciding", "creating", "writing", "syncing", "comparing",
              "relisting", "rereading"}

HasDocument == \A p \in Procs : pc[p] \in Importing => doc[p] \in Records

DocInv ==
  \A p \in Procs :
    /\ pc[p] \in {"writing", "syncing", "comparing", "relisting"} =>
         file[doc[p]] # "absent"
    /\ pc[p] = "rereading" => doc[p] \in listing[p]
    /\ pc[p] = "deciding" => listing[p] \in accepted

ListingInv ==
  \A p \in Procs :
    /\ listing[p] \subseteq Present
    /\ listing[p] \ unread[p] \subseteq Good

\* Any two sets of names that were ever listed or accepted are comparable.
Comparable(S, T) == S \subseteq T \/ T \subseteq S

ChainInv ==
  /\ \A S, T \in accepted : Comparable(S, T)
  /\ \A p \in Procs, S \in accepted : Comparable(listing[p], S)
  /\ \A p, q \in Procs : Comparable(listing[p], listing[q])

AcceptedInv ==
  /\ \A S \in accepted : Linear(S) /\ S \subseteq Good
  /\ UNION accepted \in accepted \cup {{}}
  /\ acked \subseteq UNION accepted

Typed == TypeOK /\ HasDocument

IInv == Typed /\ DocInv /\ ListingInv /\ ChainInv /\ AcceptedInv

-----------------------------------------------------------------------------

(***************************************************************************)
(* Every variable keeps its type; an import past its first load carries a  *)
(* document.                                                               *)
(***************************************************************************)
LEMMA TypeInit == Init => Typed
  BY RecordsAssumption DEF Init, Typed, HasDocument, Importing, TypeOK, FileState, PC

LEMMA TypeStep == Typed /\ [Next]_vars => Typed'
<1> SUFFICES ASSUME Typed, [Next]_vars PROVE Typed'
  OBVIOUS
<1> USE RecordsAssumption DEF Typed, HasDocument, Importing, TypeOK, FileState, PC, Present
<1>1. ASSUME NEW p \in Procs, Start(p) PROVE Typed'
  BY <1>1 DEF Start, StartImport, StartStatus
<1>2. ASSUME NEW p \in Procs, List(p) PROVE Typed'
  BY <1>2 DEF List, Goto
<1>3. ASSUME NEW p \in Procs, ReadEntry(p) PROVE Typed'
  BY <1>3 DEF ReadEntry
<1>4. ASSUME NEW p \in Procs, ReadBroken(p) \/ RejectLoad(p) \/ Crash(p) PROVE Typed'
  BY <1>4 DEF ReadBroken, RejectLoad, Crash, Finish
<1>5. ASSUME NEW p \in Procs, AcceptFirstLoad(p) PROVE Typed'
  BY <1>5 DEF AcceptFirstLoad, Finish, Goto
<1>6. ASSUME NEW p \in Procs, Refuse(p) \/ IoError(p) \/ CompareBroken(p) PROVE Typed'
  BY <1>6 DEF Refuse, IoError, CompareBroken, Finish
<1>7. ASSUME NEW p \in Procs, AlreadyStored(p) PROVE Typed'
  BY <1>7 DEF AlreadyStored, Finish
<1>8. ASSUME NEW p \in Procs, Proceed(p) \/ Sync(p) \/ CompareEqual(p) PROVE Typed'
  BY <1>8 DEF Proceed, Sync, CompareEqual, Goto
<1>9. ASSUME NEW p \in Procs, Create(p) \/ Write(p) PROVE Typed'
  BY <1>9 DEF Create, Write, Goto
<1>10. ASSUME NEW p \in Procs, AcceptFinalLoad(p) PROVE Typed'
  BY <1>10 DEF AcceptFinalLoad, Finish
<1>11. ASSUME Edit \/ UNCHANGED vars PROVE Typed'
  BY <1>11 DEF Edit, vars
<1>12. QED
  BY <1>1, <1>2, <1>3, <1>4, <1>5, <1>6, <1>7, <1>8, <1>9, <1>10, <1>11
  DEF Next, Load, Import
(***************************************************************************)
(* Files only progress: no command truncates, replaces or removes one.     *)
(***************************************************************************)
LEMMA FilesProgress ==
  ASSUME Typed, [Next]_vars
  PROVE  \A r \in Records :
           /\ file[r] = "complete" => file'[r] = "complete"
           /\ file[r] # "absent" => file'[r] # "absent"
<1> USE DEF Typed, HasDocument, Importing, TypeOK, FileState
<1>1. CASE UNCHANGED file
  BY <1>1
<1>2. ASSUME NEW p \in Procs, Create(p) \/ Write(p)
      PROVE  \A r \in Records :
               /\ file[r] = "complete" => file'[r] = "complete"
               /\ file[r] # "absent" => file'[r] # "absent"
  BY <1>2 DEF Create, Write
<1>3. UNCHANGED file \/ \E p \in Procs : Create(p) \/ Write(p)
  BY DEF Next, vars, Start, StartImport, StartStatus, Load, List, ReadEntry,
         ReadBroken, AcceptFirstLoad, RejectLoad, Import, Refuse, AlreadyStored,
         Proceed, Sync, IoError, CompareBroken, CompareEqual, AcceptFinalLoad,
         Crash, Edit
<1>4. QED
  BY <1>1, <1>2, <1>3

\* What could be parsed, or listed, still can be.
LEMMA GoodGrows ==
  ASSUME Typed, [Next]_vars
  PROVE  Good \subseteq Good' /\ Present \subseteq Present' /\ Good \subseteq Present
  BY FilesProgress DEF Good, Present, Parses

(***************************************************************************)
(* An import's own file exists from its creation on, is in the listing of  *)
(* its final load, and its decision is taken on an accepted listing.       *)
(***************************************************************************)
LEMMA DocStep == Typed /\ DocInv /\ [Next]_vars => DocInv'
<1> SUFFICES ASSUME Typed, DocInv, [Next]_vars, NEW q \in Procs
             PROVE  /\ pc'[q] \in {"writing", "syncing", "comparing", "relisting"} =>
                          file'[doc'[q]] # "absent"
                    /\ pc'[q] = "rereading" => doc'[q] \in listing'[q]
                    /\ pc'[q] = "deciding" => listing'[q] \in accepted'
  BY DEF DocInv
<1> DEFINE Goal == /\ pc'[q] \in {"writing", "syncing", "comparing", "relisting"} =>
                          file'[doc'[q]] # "absent"
                   /\ pc'[q] = "rereading" => doc'[q] \in listing'[q]
                   /\ pc'[q] = "deciding" => listing'[q] \in accepted'
<1>1. pc[q] \in Importing => (file[doc[q]] # "absent" => file'[doc[q]] # "absent")
  BY FilesProgress DEF Typed, HasDocument
<1> USE DEF Typed, HasDocument, TypeOK, PC, Importing, DocInv
<1>2. ASSUME UNCHANGED <<pc, doc, listing>>, accepted \subseteq accepted' PROVE Goal
  BY <1>1, <1>2
<1>3. ASSUME NEW p \in Procs, Start(p) PROVE Goal
  BY <1>1, <1>3 DEF Start, StartImport, StartStatus
<1>4. ASSUME NEW p \in Procs, List(p) PROVE Goal
  BY <1>1, <1>4 DEF List, Goto, Present
<1>5. ASSUME NEW p \in Procs, Finish(p), accepted \subseteq accepted' PROVE Goal
  BY <1>1, <1>5 DEF Finish
<1>6. ASSUME NEW p \in Procs, AcceptFirstLoad(p), doc[p] # NoRecord PROVE Goal
  BY <1>1, <1>6 DEF AcceptFirstLoad, Goto
<1>7. ASSUME NEW p \in Procs, Proceed(p) \/ Sync(p) PROVE Goal
  BY <1>1, <1>7 DEF Proceed, Sync, Goto
<1>8. ASSUME NEW p \in Procs, CompareEqual(p) PROVE Goal
  BY <1>1, <1>8 DEF CompareEqual, Goto, Parses
<1>9. ASSUME NEW p \in Procs, Create(p) \/ Write(p) PROVE Goal
  BY <1>1, <1>9 DEF Create, Write, Goto
<1>10. QED
  <2>1. ASSUME NEW p \in Procs, Load(p) PROVE Goal
    BY <2>1, <1>2, <1>4, <1>5, <1>6
    DEF Load, ReadEntry, ReadBroken, AcceptFirstLoad, RejectLoad
  <2>2. ASSUME NEW p \in Procs, Import(p) PROVE Goal
    BY <2>2, <1>5, <1>7, <1>8, <1>9
    DEF Import, Refuse, AlreadyStored, IoError, CompareBroken, AcceptFinalLoad
  <2>3. ASSUME NEW p \in Procs, Crash(p) PROVE Goal
    BY <2>3, <1>5 DEF Crash
  <2>4. ASSUME Edit \/ UNCHANGED vars PROVE Goal
    BY <2>4, <1>2 DEF Edit, vars
  <2>5. QED
    BY <2>1, <2>2, <2>3, <2>4, <1>3 DEF Next

(***************************************************************************)
(* What a load has listed exists, and what it has read parses.             *)
(***************************************************************************)
LEMMA ListingStep == Typed /\ ListingInv /\ [Next]_vars => ListingInv'
<1> SUFFICES ASSUME Typed, ListingInv, [Next]_vars, NEW q \in Procs
             PROVE  /\ listing'[q] \subseteq Present'
                    /\ listing'[q] \ unread'[q] \subseteq Good'
  BY DEF ListingInv
<1> DEFINE Goal == /\ listing'[q] \subseteq Present'
                   /\ listing'[q] \ unread'[q] \subseteq Good'
<1>1. Good \subseteq Good' /\ Present \subseteq Present'
  BY GoodGrows
<1> USE DEF Typed, TypeOK, ListingInv
<1>2. ASSUME UNCHANGED <<listing, unread>> PROVE Goal
  BY <1>1, <1>2
<1>3. ASSUME NEW p \in Procs, Finish(p) PROVE Goal
  BY <1>1, <1>3 DEF Finish
<1>4. ASSUME NEW p \in Procs, List(p) PROVE Goal
  BY <1>1, <1>4 DEF List
<1>5. ASSUME NEW p \in Procs, ReadEntry(p) PROVE Goal
  <2>1. PICK r \in unread[p] : Parses(r) /\ unread' = [unread EXCEPT ![p] = @ \ {r}]
    BY <1>5 DEF ReadEntry
  <2>2. r \in Good
    BY <2>1 DEF Good
  <2>3. listing' = listing
    BY <1>5 DEF ReadEntry
  <2>4. QED
    BY <1>1, <2>1, <2>2, <2>3
<1>6. QED
  <2>1. ASSUME NEW p \in Procs, Load(p) PROVE Goal
    BY <2>1, <1>2, <1>3, <1>4, <1>5 DEF Load, ReadBroken, AcceptFirstLoad, RejectLoad
  <2>2. ASSUME NEW p \in Procs, Import(p) PROVE Goal
    BY <2>2, <1>2, <1>3
    DEF Import, Refuse, AlreadyStored, Proceed, Create, Write, Sync, IoError,
        CompareBroken, CompareEqual, AcceptFinalLoad
  <2>3. ASSUME NEW p \in Procs, Start(p) \/ Crash(p) PROVE Goal
    BY <2>3, <1>2, <1>3 DEF Start, StartImport, StartStatus, Crash
  <2>4. ASSUME Edit \/ UNCHANGED vars PROVE Goal
    BY <2>4, <1>2 DEF Edit, vars
  <2>5. QED
    BY <2>1, <2>2, <2>3, <2>4 DEF Next

(***************************************************************************)
(* Listings and accepted histories form a chain: a new listing is all that *)
(* is present, and every earlier one is part of that.                      *)
(***************************************************************************)
LEMMA ChainStep ==
  ASSUME Typed, ListingInv, ChainInv, AcceptedInv, [Next]_vars
  PROVE  ChainInv'
<1> USE DEF Typed, TypeOK
<1>1. ASSUME UNCHANGED <<listing, accepted>> PROVE ChainInv'
  BY <1>1 DEF ChainInv
<1>2. ASSUME NEW p \in Procs, Finish(p), UNCHANGED accepted PROVE ChainInv'
  BY <1>2 DEF ChainInv, Comparable, Finish
<1>3. ASSUME NEW p \in Procs, List(p) PROVE ChainInv'
  <2>1. /\ listing' = [listing EXCEPT ![p] = Present]
        /\ accepted' = accepted
    BY <1>3 DEF List
  <2>2. \A S \in accepted : S \subseteq Present
    BY GoodGrows DEF AcceptedInv
  <2>3. \A q \in Procs : listing[q] \subseteq Present
    BY DEF ListingInv
  <2>4. QED
    BY <2>1, <2>2, <2>3 DEF ChainInv, Comparable
<1>4. ASSUME NEW p \in Procs, accepted' = accepted \cup {listing[p]},
             UNCHANGED listing \/ Finish(p)
      PROVE  ChainInv'
  <2>1. \A S, T \in accepted' : Comparable(S, T)
    BY <1>4 DEF ChainInv, Comparable
  <2>2. \A q \in Procs : listing'[q] = listing[q] \/ listing'[q] = {}
    BY <1>4 DEF Finish
  <2>3. \A q \in Procs, S \in accepted' : Comparable(listing'[q], S)
    BY <1>4, <2>2 DEF ChainInv, Comparable
  <2>4. \A q, r \in Procs : Comparable(listing'[q], listing'[r])
    BY <2>2 DEF ChainInv, Comparable
  <2>5. QED
    BY <2>1, <2>3, <2>4 DEF ChainInv, Comparable
<1>5. QED
  <2>1. ASSUME NEW p \in Procs, Load(p) PROVE ChainInv'
    BY <2>1, <1>1, <1>2, <1>3, <1>4
    DEF Load, ReadEntry, ReadBroken, AcceptFirstLoad, RejectLoad
  <2>2. ASSUME NEW p \in Procs, Import(p) PROVE ChainInv'
    BY <2>2, <1>1, <1>2, <1>4
    DEF Import, Refuse, AlreadyStored, Proceed, Create, Write, Sync, IoError,
        CompareBroken, CompareEqual, AcceptFinalLoad
  <2>3. ASSUME NEW p \in Procs, Start(p) \/ Crash(p) PROVE ChainInv'
    BY <2>3, <1>1, <1>2 DEF Start, StartImport, StartStatus, Crash
  <2>4. ASSUME Edit \/ UNCHANGED vars PROVE ChainInv'
    BY <2>4, <1>1 DEF Edit, vars
  <2>5. QED
    BY <2>1, <2>2, <2>3, <2>4 DEF Next

(***************************************************************************)
(* Adding to a chain that has a largest member a set comparable with it    *)
(* leaves a chain with a largest member.                                   *)
(***************************************************************************)
LEMMA LargestOfChain ==
  ASSUME NEW A, NEW L,
         UNION A \in A \cup {{}},
         \A S \in A : Comparable(L, S)
  PROVE  /\ UNION (A \cup {L}) \in A \cup {L}
         /\ UNION A \subseteq UNION (A \cup {L})
<1>1. UNION (A \cup {L}) = (UNION A) \cup L
  OBVIOUS
<1>2. Comparable(L, UNION A)
  BY DEF Comparable
<1>3. CASE L \subseteq UNION A
  <2>1. UNION (A \cup {L}) = UNION A
    BY <1>1, <1>3
  <2>2. UNION A \in A \/ (UNION A = {} /\ L = {})
    BY <1>3
  <2>3. QED
    BY <2>1, <2>2
<1>4. CASE UNION A \subseteq L
  <2>1. UNION (A \cup {L}) = L
    BY <1>1, <1>4
  <2>2. QED
    BY <2>1, <1>1
<1>5. QED
  BY <1>2, <1>3, <1>4 DEF Comparable

(***************************************************************************)
(* Accepted histories are linear and entirely parsed, one of them contains *)
(* all others, and it contains every acknowledged record.                  *)
(***************************************************************************)
LEMMA AcceptedStep ==
  ASSUME Typed, DocInv, ListingInv, ChainInv, AcceptedInv, [Next]_vars
  PROVE  AcceptedInv'
<1> USE DEF Typed, TypeOK
<1>1. Good \subseteq Good'
  BY GoodGrows
<1>2. ASSUME UNCHANGED <<accepted, acked>> PROVE AcceptedInv'
  BY <1>1, <1>2 DEF AcceptedInv
<1>3. ASSUME NEW p \in Procs, AlreadyStored(p) PROVE AcceptedInv'
  <2>1. doc[p] \in UNION accepted
    BY <1>3 DEF AlreadyStored, DocInv
  <2>2. accepted' = accepted /\ acked' = acked \cup {doc[p]}
    BY <1>3 DEF AlreadyStored
  <2>3. QED
    BY <1>1, <2>1, <2>2 DEF AcceptedInv
<1>4. ASSUME NEW p \in Procs,
             unread[p] = {}, Linear(listing[p]),
             accepted' = accepted \cup {listing[p]},
             acked' \subseteq acked \cup listing[p]
      PROVE  AcceptedInv'
  <2>1. listing[p] \subseteq Good
    BY <1>4 DEF ListingInv
  <2>2. \A S \in accepted' : Linear(S) /\ S \subseteq Good'
    BY <1>1, <1>4, <2>1 DEF AcceptedInv
  <2>3. /\ UNION accepted' \in accepted' \cup {{}}
        /\ UNION accepted \subseteq UNION accepted'
    <3>1. /\ UNION accepted \in accepted \cup {{}}
          /\ \A S \in accepted : Comparable(listing[p], S)
      BY DEF AcceptedInv, ChainInv
    <3>2. /\ UNION (accepted \cup {listing[p]}) \in accepted \cup {listing[p]}
          /\ UNION accepted \subseteq UNION (accepted \cup {listing[p]})
      BY <3>1, LargestOfChain, Zenon
    <3>3. QED
      BY <1>4, <3>2, Zenon
  <2>4. acked' \subseteq UNION accepted'
    BY <1>4, <2>3 DEF AcceptedInv
  <2>5. QED
    BY <2>2, <2>3, <2>4 DEF AcceptedInv
<1>5. QED
  <2>1. ASSUME NEW p \in Procs, Load(p) PROVE AcceptedInv'
    BY <2>1, <1>2, <1>4
    DEF Load, List, ReadEntry, ReadBroken, AcceptFirstLoad, RejectLoad
  <2>2. ASSUME NEW p \in Procs, AcceptFinalLoad(p) PROVE AcceptedInv'
    BY <2>2, <1>4 DEF AcceptFinalLoad, DocInv
  <2>3. ASSUME NEW p \in Procs, Import(p) PROVE AcceptedInv'
    BY <2>2, <2>3, <1>2, <1>3
    DEF Import, Refuse, Proceed, Create, Write, Sync, IoError, CompareBroken,
        CompareEqual
  <2>4. ASSUME NEW p \in Procs, Start(p) \/ Crash(p) PROVE AcceptedInv'
    BY <2>4, <1>2 DEF Start, StartImport, StartStatus, Crash
  <2>5. ASSUME Edit \/ UNCHANGED vars PROVE AcceptedInv'
    BY <2>5, <1>2 DEF Edit, vars
  <2>6. QED
    BY <2>1, <2>3, <2>4, <2>5 DEF Next

-----------------------------------------------------------------------------

LEMMA Inductive == Spec => []IInv
<1>1. Init => IInv
  <2>1. Init => Typed
    BY TypeInit
  <2>2. ASSUME Init PROVE DocInv /\ ListingInv /\ ChainInv /\ AcceptedInv
    BY <2>2 DEF Init, DocInv, ListingInv, ChainInv, AcceptedInv, Comparable
  <2>3. QED
    BY <2>1, <2>2 DEF IInv
<1>2. IInv /\ [Next]_vars => IInv'
  BY TypeStep, DocStep, ListingStep, ChainStep, AcceptedStep DEF IInv
<1>3. QED
  BY <1>1, <1>2, PTL DEF Spec

(***************************************************************************)
(* The variables of the review store keep their types.                     *)
(***************************************************************************)
THEOREM TypeCorrect == Spec => []TypeOK
  BY Inductive, PTL DEF IInv, Typed

(***************************************************************************)
(* No two commands ever accept histories of which neither continues the    *)
(* other, whatever is imported concurrently and wherever imports die.      *)
(***************************************************************************)
THEOREM HistoriesAgree == Spec => []AcceptedHistoriesAgree
<1>1. IInv => AcceptedHistoriesAgree
  BY DEF IInv, ChainInv, Comparable, AcceptedHistoriesAgree
<1>2. QED
  BY <1>1, Inductive, PTL

(***************************************************************************)
(* All acknowledged imports belong to one linear history of complete       *)
(* files: racing imports are never acknowledged on different branches.     *)
(***************************************************************************)
THEOREM AckedImportsAgree == Spec => []AckedInOneHistory
<1>1. ASSUME IInv PROVE AckedInOneHistory
  <2>1. CASE UNION accepted \in accepted
    <3>1. UNION accepted \subseteq Complete
      BY <1>1, <2>1 DEF IInv, AcceptedInv, Good, Parses, Complete
    <3>2. QED
      BY <1>1, <2>1, <3>1 DEF IInv, AcceptedInv, AckedInOneHistory
  <2>2. CASE UNION accepted = {}
    <3>1. acked = {}
      BY <1>1, <2>2 DEF IInv, AcceptedInv
    <3>2. Linear({})
      BY DEF Linear, PredecessorsPresent, NoBranch, ReapprovalKeepsFormalization,
             OneApprovedRoot, NoCycle, Superseded, OneHead
    <3>3. QED
      BY <3>1, <3>2 DEF AckedInOneHistory
  <2>3. QED
    BY <1>1, <2>1, <2>2 DEF IInv, AcceptedInv
<1>2. QED
  BY <1>1, Inductive, PTL

(***************************************************************************)
(* A complete record is never truncated, replaced or removed.              *)
(***************************************************************************)
THEOREM RecordsNeverChange == Spec => StoredRecordsNeverChange
<1>1. IInv /\ [Next]_vars =>
        [\A r \in Records : file[r] = "complete" => file'[r] = "complete"]_vars
  BY FilesProgress DEF IInv
<1>2. QED
  BY <1>1, Inductive, PTL DEF Spec, StoredRecordsNeverChange

-----------------------------------------------------------------------------

LEMMA LinearIsChained ==
  ASSUME NEW S \in SUBSET Records, Linear(S)
  PROVE  AcceptedHistory!Chained(S)
  BY RecordsAssumption
  DEF Linear, PredecessorsPresent, NoBranch, OneApprovedRoot, AcceptedHistory!Chained

LEMMA AcceptedGrows == [Next]_vars => accepted \subseteq accepted'
  BY DEF Next, vars, Start, StartImport, StartStatus, Load, List, ReadEntry,
         ReadBroken, AcceptFirstLoad, RejectLoad, Import, Refuse, AlreadyStored,
         Proceed, Create, Write, Sync, IoError, CompareBroken, CompareEqual,
         AcceptFinalLoad, Crash, Edit

(***************************************************************************)
(* The store implements the abstract history: what its readers accept is   *)
(* one growing history whose reviews form a chain per requirement.         *)
(***************************************************************************)
THEOREM StoreImplementsHistory == Spec => ImplementsHistory
<1>1. Init => AcceptedHistory!Init
  BY DEF Init, AcceptedHistory!Init
<1>2. ASSUME IInv, IInv', [Next]_vars
      PROVE  [AcceptedHistory!Next]_(UNION accepted)
  <2>1. UNION accepted \subseteq UNION accepted'
    BY <1>2, AcceptedGrows
  <2>2. CASE UNION accepted' = {}
    BY <2>1, <2>2
  <2>3. CASE UNION accepted' \in accepted'
    <3>1. /\ UNION accepted' \in SUBSET Records
          /\ Linear(UNION accepted')
      BY <1>2, <2>3 DEF IInv, Typed, TypeOK, AcceptedInv
    <3>2. AcceptedHistory!Extend(UNION accepted')
      BY <2>1, <3>1, LinearIsChained DEF AcceptedHistory!Extend
    <3>3. QED
      BY <3>1, <3>2 DEF AcceptedHistory!Next
  <2>4. QED
    BY <1>2, <2>2, <2>3 DEF IInv, AcceptedInv
<1>3. QED
  BY <1>1, <1>2, Inductive, PTL DEF Spec, ImplementsHistory, AcceptedHistory!Spec

-----------------------------------------------------------------------------

(***************************************************************************)
(* REVIEWS_CURRENT implies that each active requirement's present          *)
(* formalization was once approved in full.                                *)
(***************************************************************************)
THEOREM CurrentMeansApproved == Spec => []CurrentRestsOnFullApproval
<1>1. ASSUME IInv PROVE CurrentRestsOnFullApproval
  <2> SUFFICES ASSUME NEW S \in accepted, NEW rev \in Revisions,
                      ReviewsCurrent(S, rev), NEW q \in Active[rev]
               PROVE  FullyApproved(S, rev, q)
    BY DEF CurrentRestsOnFullApproval
  <2>1. S \in SUBSET Records /\ Linear(S) /\ \A r \in S : DecisionOf[r] # "draft"
    BY <1>1 DEF IInv, Typed, TypeOK, AcceptedInv, Good, Parses
  <2>2. QED
    BY <2>1, CurrentIsApproved
<1>2. QED
  BY <1>1, Inductive, PTL
=============================================================================
