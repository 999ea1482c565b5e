----------------------- MODULE ProviderProcessProofs -----------------------
(***************************************************************************)
(* Proofs about running a provider, for every number of processes and      *)
(* every size.  The inductive invariant relates what the readers have kept *)
(* to what was produced and is no longer in the pipe, ties end of file to  *)
(* a pipe nobody can write to, and a host past the killing to a group that *)
(* is gone.                                                                *)
(***************************************************************************)
EXTENDS ProviderProcess, TLAPS

\* Pipe ends are held by live processes, and readers start with the child.
HoldInv ==
  /\ \A s \in Streams : holds[s] \subseteq live
  /\ Child \notin started => pc \in {"spawning", "returned"} /\ eof = {}
  /\ pc = "spawning" => started = {}
  /\ pc = "returned" /\ Child \notin started => result = "execution"

\* What a reader has kept is what has left the pipe, up to the limit.
ReaderInv ==
  /\ \A s \in Outputs :
       /\ pipe[s] <= produced[s]
       /\ captured[s] = Smaller(produced[s] - pipe[s], Limit + 1)
       /\ s \in exceeded <=> produced[s] - pipe[s] > Limit
  /\ \A s \in eof : holds[s] = {} /\ pipe[s] = 0

\* A host that has gone on to its readers has seen the provider's end.
HostInv ==
  /\ (pc \in {"joining", "returned"} /\ Child \in started) => Child \notin live
  /\ (timedOut \/ writeFailed) => pc \in {"killing", "joining", "returned"}
  /\ (KillAvailable /\ pc \in {"joining", "returned"} /\ (timedOut \/ writeFailed))
       => live \subseteq escaped

\* An accepted result was decided when both readers had ended.
ResultInv ==
  /\ result = "none" \/ pc = "returned"
  /\ (pc = "returned" /\ Child \in started) => (eof = Outputs /\ result = Outcome)

IInv == TypeOK /\ HoldInv /\ ReaderInv /\ HostInv /\ ResultInv

USE ProviderAssumption

(***************************************************************************)
(* The initial state.                                                      *)
(***************************************************************************)

LEMMA InitInv == Init => IInv
<1> SUFFICES ASSUME Init PROVE IInv
  OBVIOUS
<1>1. TypeOK
  <2>1. pipe \in [Streams -> 0..PipeSize] /\ holds \in [Streams -> SUBSET Processes]
    BY DEF Init
  <2>2. captured \in [Outputs -> 0..(Limit + 1)] /\ produced \in [Outputs -> Nat]
    BY DEF Init
  <2>3. elapsed \in 0..Timeout /\ unsent \in 0..RequestSize
    BY DEF Init
  <2> QED
    BY <2>1, <2>2, <2>3 DEF Init, TypeOK, PC, Result
<1>2. HoldInv
  BY DEF Init, HoldInv
<1>3. ReaderInv
  BY DEF Init, ReaderInv, Outputs, Streams, Smaller
<1>4. HostInv /\ ResultInv
  BY DEF Init, HostInv, ResultInv
<1> QED
  BY <1>1, <1>2, <1>3, <1>4 DEF IInv

-----------------------------------------------------------------------------
(* Type correctness.                                                       *)

LEMMA HostKeepsType == TypeOK /\ (Host \/ Tick) => TypeOK'
<1> SUFFICES ASSUME TypeOK, Host \/ Tick PROVE TypeOK'
  OBVIOUS
<1> USE DEF TypeOK, host, readers, provider, PC, Outputs, Streams, Processes
<1>1. CASE Spawn
  <2>1. holds' \in [Streams -> SUBSET Processes]
    BY <1>1 DEF Spawn
  <2> QED
    BY <1>1, <2>1 DEF Spawn
<1>2. CASE SpawnFails
  BY <1>2 DEF SpawnFails, Result
<1>3. CASE WriteRequest
  BY <1>3 DEF WriteRequest
<1>4. CASE WriteFails \/ RequestWritten \/ Poll
  BY <1>4 DEF WriteFails, RequestWritten, Poll
<1>8. CASE CheckClock
  BY <1>8 DEF CheckClock
<1>5. CASE KillTree
  BY <1>5 DEF KillTree, Kill
<1>6. CASE Return
  BY <1>6 DEF Return, Outcome, Result
<1>7. CASE Tick
  BY <1>7 DEF Tick
<1> QED
  BY <1>1, <1>2, <1>3, <1>4, <1>5, <1>6, <1>7, <1>8 DEF Host

LEMMA ReaderKeepsType ==
  ASSUME TypeOK, NEW s \in Outputs, Reader(s) PROVE TypeOK'
<1> USE DEF TypeOK, host, readers, provider, Outputs, Streams, Processes
<1>1. CASE ReadBlocks(s)
  BY <1>1 DEF ReadBlocks, Smaller
<1>2. CASE ReadEnd(s)
  BY <1>2 DEF ReadEnd
<1> QED
  BY <1>1, <1>2 DEF Reader

LEMMA ProviderKeepsType == TypeOK /\ Provider => TypeOK'
<1> SUFFICES ASSUME TypeOK, NEW p \in Processes,
                    \/ ReadRequest(p) \/ Escape(p) \/ Exit(p)
                    \/ \E s \in Outputs : Produce(p, s)
                    \/ \E s \in Streams : Close(p, s)
                    \/ \E d \in Descendants : Fork(p, d)
             PROVE  TypeOK'
  BY DEF Provider
<1> USE DEF TypeOK, host, readers, provider, Outputs, Streams, Processes
<1>1. CASE ReadRequest(p)
  BY <1>1 DEF ReadRequest
<1>2. CASE Escape(p)
  BY <1>2 DEF Escape
<1>3. CASE Exit(p)
  BY <1>3 DEF Exit
<1>4. ASSUME NEW s \in Outputs, Produce(p, s) PROVE TypeOK'
  BY <1>4 DEF Produce
<1>5. ASSUME NEW s \in Streams, Close(p, s) PROVE TypeOK'
  BY <1>5 DEF Close
<1>6. ASSUME NEW d \in Descendants, Fork(p, d) PROVE TypeOK'
  BY <1>6 DEF Fork
<1> QED
  BY <1>1, <1>2, <1>3, <1>4, <1>5, <1>6

LEMMA NextKeepsType == TypeOK /\ [Next]_vars => TypeOK'
<1> SUFFICES ASSUME TypeOK, [Next]_vars PROVE TypeOK'
  OBVIOUS
<1>1. CASE Next
  BY <1>1, HostKeepsType, ReaderKeepsType, ProviderKeepsType DEF Next
<1>2. CASE UNCHANGED vars
  BY <1>2 DEF vars, host, readers, provider, TypeOK
<1> QED
  BY <1>1, <1>2

-----------------------------------------------------------------------------
(* The other parts of the invariant, one lemma each.                       *)

LEMMA NextKeepsHold == TypeOK /\ HoldInv /\ [Next]_vars => HoldInv'
<1> SUFFICES ASSUME TypeOK, HoldInv, [Next]_vars PROVE HoldInv'
  OBVIOUS
<1> USE DEF HoldInv, host, readers, provider
<1>1. CASE Spawn
  BY <1>1 DEF Spawn
<1>2. CASE SpawnFails \/ WriteFails \/ RequestWritten \/ Poll \/ CheckClock \/ Return \/ Tick
  BY <1>2 DEF SpawnFails, WriteFails, RequestWritten, Poll, CheckClock, Return, Tick
<1>3. CASE WriteRequest
  BY <1>3 DEF WriteRequest
<1>4. CASE KillTree
  BY <1>4 DEF KillTree, Kill
<1>5. ASSUME NEW s \in Outputs, Reader(s) PROVE HoldInv'
  BY <1>5 DEF Reader, ReadBlocks, ReadEnd
<1>6. CASE Provider
  <2> SUFFICES ASSUME NEW p \in Processes,
                      \/ ReadRequest(p) \/ Escape(p) \/ Exit(p)
                      \/ \E s \in Outputs : Produce(p, s)
                      \/ \E s \in Streams : Close(p, s)
                      \/ \E d \in Descendants : Fork(p, d)
               PROVE  HoldInv'
    BY <1>6 DEF Provider
  <2>1. CASE ReadRequest(p) \/ Escape(p) \/ Exit(p)
    BY <2>1 DEF ReadRequest, Escape, Exit
  <2>2. ASSUME NEW s \in Outputs, Produce(p, s) PROVE HoldInv'
    BY <2>2 DEF Produce
  <2>3. ASSUME NEW s \in Streams, Close(p, s) PROVE HoldInv'
    BY <2>3 DEF Close, TypeOK
  <2>4. ASSUME NEW d \in Descendants, Fork(p, d) PROVE HoldInv'
    BY <2>4 DEF Fork, TypeOK
  <2> QED
    BY <2>1, <2>2, <2>3, <2>4
<1>7. CASE UNCHANGED vars
  BY <1>7 DEF vars
<1> QED
  BY <1>1, <1>2, <1>3, <1>4, <1>5, <1>6, <1>7 DEF Next, Host

\* A pipe nobody writes to stays so, and what leaves a pipe is accounted for.
LEMMA NextKeepsReader ==
  TypeOK /\ HoldInv /\ ReaderInv /\ [Next]_vars => ReaderInv'
<1> SUFFICES ASSUME TypeOK, HoldInv, ReaderInv, [Next]_vars PROVE ReaderInv'
  OBVIOUS
<1> USE DEF ReaderInv, host, readers, provider
<1>1. CASE Spawn
  BY <1>1 DEF Spawn, HoldInv
<1>2. CASE SpawnFails \/ WriteFails \/ RequestWritten \/ Poll \/ CheckClock \/ Return \/ Tick
  BY <1>2 DEF SpawnFails, WriteFails, RequestWritten, Poll, CheckClock, Return, Tick
<1>3. CASE WriteRequest
  BY <1>3 DEF WriteRequest, TypeOK, Outputs, Streams
<1>4. CASE KillTree
  BY <1>4 DEF KillTree, Kill, TypeOK, Outputs, Streams
<1>5. ASSUME NEW s \in Outputs, ReadBlocks(s) PROVE ReaderInv'
  <2> PICK count \in 1..Smaller(pipe[s], BufferSize) :
        /\ pipe' = [pipe EXCEPT ![s] = @ - count]
        /\ captured' = [captured EXCEPT ![s] = Smaller(@ + count, Limit + 1)]
    BY <1>5 DEF ReadBlocks
  <2>1. count <= pipe[s] /\ pipe[s] \in Nat /\ produced[s] \in Nat /\ count \in Nat
        /\ captured[s] \in Nat
    BY DEF Smaller, TypeOK, Outputs, Streams
  <2>2. pipe'[s] = pipe[s] - count /\ produced' = produced /\ holds' = holds /\ eof' = eof
    BY <1>5 DEF ReadBlocks, TypeOK, Streams, Outputs
  <2>3. captured'[s] = Smaller(captured[s] + count, Limit + 1)
    BY DEF TypeOK
  <2>4. captured'[s] = Smaller(produced[s] - pipe'[s], Limit + 1)
    BY <2>1, <2>2, <2>3 DEF Smaller
  <2>5. s \in exceeded' <=> produced[s] - pipe'[s] > Limit
    BY <1>5, <2>1, <2>2, <2>4 DEF ReadBlocks, Smaller
  <2>6. \A t \in Outputs \ {s} :
          /\ pipe'[t] = pipe[t] /\ captured'[t] = captured[t]
          /\ t \in exceeded' <=> t \in exceeded
    BY <1>5 DEF ReadBlocks, TypeOK, Streams, Outputs
  <2>7. s \notin eof
    BY <2>1
  <2>8. pipe'[s] <= produced[s]
    BY <2>1, <2>2
  <2> QED
    BY <2>2, <2>4, <2>5, <2>6, <2>7, <2>8 DEF TypeOK
<1>6. ASSUME NEW s \in Outputs, ReadEnd(s) PROVE ReaderInv'
  BY <1>6 DEF ReadEnd
<1>7. CASE Provider
  <2> SUFFICES ASSUME NEW p \in Processes,
                      \/ ReadRequest(p) \/ Escape(p) \/ Exit(p)
                      \/ \E s \in Outputs : Produce(p, s)
                      \/ \E s \in Streams : Close(p, s)
                      \/ \E d \in Descendants : Fork(p, d)
               PROVE  ReaderInv'
    BY <1>7 DEF Provider
  <2>1. CASE ReadRequest(p)
    BY <2>1 DEF ReadRequest, TypeOK, Outputs, Streams
  <2>2. CASE Escape(p)
    BY <2>2 DEF Escape
  <2>6. CASE Exit(p)
    <3>1. \A s \in Outputs : holds[s] = {} => holds'[s] = {}
      BY <2>6 DEF Exit, Streams
    <3> QED
      BY <2>6, <3>1 DEF Exit, TypeOK
  <2>3. ASSUME NEW s \in Outputs, Produce(p, s) PROVE ReaderInv'
    BY <2>3 DEF Produce, TypeOK, Outputs, Streams
  <2>4. ASSUME NEW s \in Streams, Close(p, s) PROVE ReaderInv'
    BY <2>4 DEF Close, TypeOK, Outputs, Streams
  <2>5. ASSUME NEW d \in Descendants, Fork(p, d) PROVE ReaderInv'
    BY <2>5 DEF Fork, TypeOK, Outputs, Streams
  <2> QED
    BY <2>1, <2>2, <2>3, <2>4, <2>5, <2>6
<1>8. CASE UNCHANGED vars
  BY <1>8 DEF vars
<1> QED
  BY <1>1, <1>2, <1>3, <1>4, <1>5, <1>6, <1>7, <1>8 DEF Next, Host, Reader

LEMMA NextKeepsHost == TypeOK /\ HoldInv /\ HostInv /\ [Next]_vars => HostInv'
<1> SUFFICES ASSUME TypeOK, HoldInv, HostInv, [Next]_vars PROVE HostInv'
  OBVIOUS
<1> USE DEF HostInv, host, readers, provider
<1>1. CASE Spawn \/ WriteRequest \/ Tick
  BY <1>1 DEF Spawn, WriteRequest, Tick, TypeOK
<1>10. CASE SpawnFails
  BY <1>10 DEF SpawnFails, HoldInv, TypeOK
<1>2. CASE WriteFails \/ CheckClock
  BY <1>2 DEF WriteFails, CheckClock, TypeOK
<1>7. CASE RequestWritten
  BY <1>7 DEF RequestWritten, TypeOK
<1>8. CASE Poll
  BY <1>8 DEF Poll, TypeOK
<1>9. CASE Return
  BY <1>9 DEF Return, TypeOK
<1>3. CASE KillTree
  BY <1>3 DEF KillTree, Kill, TypeOK, Processes
<1>4. ASSUME NEW s \in Outputs, Reader(s) PROVE HostInv'
  BY <1>4 DEF Reader, ReadBlocks, ReadEnd
<1>5. CASE Provider
  <2> SUFFICES ASSUME NEW p \in Processes,
                      \/ ReadRequest(p) \/ Escape(p) \/ Exit(p)
                      \/ \E s \in Outputs : Produce(p, s)
                      \/ \E s \in Streams : Close(p, s)
                      \/ \E d \in Descendants : Fork(p, d)
               PROVE  HostInv'
    BY <1>5 DEF Provider
  <2>1. CASE ReadRequest(p) \/ Escape(p) \/ Exit(p)
    BY <2>1 DEF ReadRequest, Escape, Exit
  <2>2. ASSUME NEW s \in Outputs, Produce(p, s) PROVE HostInv'
    BY <2>2 DEF Produce
  <2>3. ASSUME NEW s \in Streams, Close(p, s) PROVE HostInv'
    BY <2>3 DEF Close
  <2>4. ASSUME NEW d \in Descendants, Fork(p, d) PROVE HostInv'
    BY <2>4 DEF Fork
  <2> QED
    BY <2>1, <2>2, <2>3, <2>4
<1>6. CASE UNCHANGED vars
  BY <1>6 DEF vars
<1> QED
  BY <1>1, <1>2, <1>3, <1>4, <1>5, <1>6, <1>7, <1>8, <1>9, <1>10 DEF Next, Host

\* After the outcome is decided nothing it depends on changes.
LEMMA NextKeepsResult == IInv /\ [Next]_vars => ResultInv'
<1> SUFFICES ASSUME IInv, [Next]_vars PROVE ResultInv'
  OBVIOUS
<1> USE DEF IInv, ResultInv, host, readers, provider
<1>1. CASE Spawn
  BY <1>1 DEF Spawn
<1>2. CASE SpawnFails
  BY <1>2 DEF SpawnFails, HoldInv
<1>3. CASE WriteRequest \/ WriteFails \/ RequestWritten
  BY <1>3 DEF WriteRequest, WriteFails, RequestWritten
<1>4. CASE Poll \/ CheckClock \/ KillTree \/ Tick
  BY <1>4 DEF Poll, CheckClock, KillTree, Tick
<1>5. CASE Return
  BY <1>5 DEF Return, Outcome, WellFormed
<1>6. ASSUME NEW s \in Outputs, ReadBlocks(s) PROVE ResultInv'
  <2>1. pipe[s] # 0
    BY <1>6 DEF ReadBlocks, Smaller, TypeOK
  <2>2. eof # Outputs
    BY <2>1 DEF ReaderInv
  <2> QED
    BY <1>6, <2>2 DEF ReadBlocks
<1>7. ASSUME NEW s \in Outputs, ReadEnd(s) PROVE ResultInv'
  BY <1>7 DEF ReadEnd, TypeOK, Outcome, WellFormed
<1>8. CASE Provider
  <2> SUFFICES ASSUME NEW p \in Processes,
                      \/ ReadRequest(p) \/ Escape(p) \/ Exit(p)
                      \/ \E s \in Outputs : Produce(p, s)
                      \/ \E s \in Streams : Close(p, s)
                      \/ \E d \in Descendants : Fork(p, d)
               PROVE  ResultInv'
    BY <1>8 DEF Provider
  <2>1. CASE ReadRequest(p) \/ Escape(p)
    BY <2>1 DEF ReadRequest, Escape, Outcome, WellFormed
  <2>2. CASE Exit(p)
    <3>1. pc = "returned" /\ Child \in started => status' = status
      BY <2>2 DEF Exit, HostInv
    <3> QED
      BY <2>2, <3>1 DEF Exit, Outcome, WellFormed
  <2>3. ASSUME NEW s \in Outputs, Produce(p, s) PROVE ResultInv'
    BY <2>3 DEF Produce, Outcome, WellFormed
  <2>4. ASSUME NEW s \in Streams, Close(p, s) PROVE ResultInv'
    BY <2>4 DEF Close, Outcome, WellFormed
  <2>5. ASSUME NEW d \in Descendants, Fork(p, d) PROVE ResultInv'
    BY <2>5 DEF Fork, Outcome, WellFormed
  <2> QED
    BY <2>1, <2>2, <2>3, <2>4, <2>5
<1>9. CASE UNCHANGED vars
  BY <1>9 DEF vars, Outcome, WellFormed
<1> QED
  BY <1>1, <1>2, <1>3, <1>4, <1>5, <1>6, <1>7, <1>8, <1>9 DEF Next, Host, Reader

LEMMA NextKeepsInv == IInv /\ [Next]_vars => IInv'
BY NextKeepsType, NextKeepsHold, NextKeepsReader, NextKeepsHost, NextKeepsResult
   DEF IInv

LEMMA Invariant == Spec => []IInv
BY InitInv, NextKeepsInv, PTL DEF Spec

-----------------------------------------------------------------------------
(* The theorems.                                                           *)

\* Every variable keeps its type; what a reader keeps in memory never exceeds
\* MAX_OUTPUT_BYTES + 1 (read_limited).
THEOREM TypeCorrect == Spec => []TypeOK
BY Invariant, PTL DEF IInv

\* The output limit is exact, for every limit, buffer and pipe size.
THEOREM LimitsAreExact == Spec => []LimitIsExact
<1>1. IInv => LimitIsExact
  BY DEF IInv, ReaderInv, LimitIsExact, TypeOK
<1> QED
  BY <1>1, Invariant, PTL

\* run_one accepts only the whole output of a provider that ended by itself.
THEOREM AcceptedResponsesAreWhole == Spec => []AcceptedResponseIsWhole
<1>1. ASSUME IInv, result = "ok"
      PROVE  /\ status = "success"
             /\ ~timedOut
             /\ captured["stdout"] = ResponseSize
             /\ produced["stdout"] = ResponseSize
             /\ holds["stdout"] = {}
  <2>1. pc = "returned" /\ Child \in started
    BY <1>1 DEF IInv, ResultInv, HoldInv
  <2>2. eof = Outputs /\ Outcome = "ok"
    BY <1>1, <2>1 DEF IInv, ResultInv
  <2>3. ~writeFailed /\ ~timedOut
    BY <2>2 DEF Outcome
  <2>4. exceeded = {} /\ status = "success" /\ WellFormed
    BY <2>2, <2>3 DEF Outcome
  <2>5. holds["stdout"] = {} /\ pipe["stdout"] = 0
    BY <1>1, <2>2 DEF IInv, ReaderInv, Outputs
  <2>6. captured["stdout"] = produced["stdout"]
    BY <1>1, <2>4, <2>5 DEF IInv, ReaderInv, Outputs, Smaller, TypeOK
  <2> QED
    BY <2>3, <2>4, <2>5, <2>6 DEF WellFormed
<1>2. IInv => AcceptedResponseIsWhole
  BY <1>1 DEF AcceptedResponseIsWhole
<1> QED
  BY <1>2, Invariant, PTL

\* A run that timed out, or could not write its request, has terminated the
\* provider's process group, whatever the provider forked meanwhile.
THEOREM FailedRunsLeaveNoGroup == Spec => []FailedRunLeavesNoGroup
<1>1. IInv => FailedRunLeavesNoGroup
  BY DEF IInv, HostInv, FailedRunLeavesNoGroup
<1> QED
  BY <1>1, Invariant, PTL
=============================================================================
