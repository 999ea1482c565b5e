-------------------------- MODULE ProviderProcess --------------------------
(***************************************************************************)
(* Running one external fact provider (external_provider.rs run_one): the  *)
(* host spawns the executable in a process group of its own, two reader    *)
(* threads drain its stdout and stderr, the host writes the request to its *)
(* stdin, polls for its exit until the timeout, kills the group when the   *)
(* timeout comes first, joins the readers and decides the outcome.         *)
(*                                                                         *)
(* The provider is arbitrary: it reads its request or not, writes, closes  *)
(* its streams, forks, moves its children to other sessions, hangs or      *)
(* exits.  Its text is abstracted to a number of blocks: the first         *)
(* ResponseSize blocks of stdout are a response of the kind `answer`, and  *)
(* any other number of blocks is not one JSON document.                    *)
(***************************************************************************)
EXTENDS Naturals

CONSTANTS
  Child,         \* the process the host has spawned
  Descendants,   \* processes it may fork, directly or not
  RequestSize,   \* blocks of the serialized request
  ResponseSize,  \* blocks of the response the provider means to write
  PipeSize,      \* blocks the operating system buffers in a pipe
  BufferSize,    \* blocks a reader takes from a pipe at once
  Limit,         \* MAX_OUTPUT_BYTES, in blocks
  Timeout,       \* timeout_ms, in clock ticks
  KillAvailable, \* does the `kill` utility work?
  MaxOutput      \* bound: blocks the provider writes to a stream

ASSUME ProviderAssumption ==
  /\ Child \notin Descendants
  /\ RequestSize \in Nat /\ ResponseSize \in Nat /\ Limit \in Nat
  /\ PipeSize \in Nat \ {0} /\ BufferSize \in Nat \ {0}
  /\ Timeout \in Nat /\ MaxOutput \in Nat
  /\ KillAvailable \in BOOLEAN

Processes == {Child} \cup Descendants
Outputs   == {"stdout", "stderr"}
Streams   == {"stdin"} \cup Outputs

VARIABLES
  pc,          \* what the host does next
  unsent,      \* blocks of the request still to be written
  elapsed,     \* ticks since the request was written
  writeFailed, \* writing the request failed
  timedOut,    \* the host has given up waiting
  result,      \* what run_one returned
  captured,    \* blocks each reader thread has kept
  exceeded,    \* exceeded_limit of each reader
  eof,         \* readers that have returned
  pipe,        \* blocks in each pipe
  holds,       \* processes that hold the provider's end of each pipe
  started,     \* provider processes that have existed
  live,        \* ... and have not exited
  escaped,     \* ... and left the process group of Child
  status,      \* exit status of Child
  produced,    \* blocks ever written to stdout and stderr
  answer,      \* kind of response the provider writes
  noise        \* encoding of what it writes to stderr

host     == <<pc, unsent, elapsed, writeFailed, timedOut, result>>
readers  == <<captured, exceeded, eof>>
provider == <<started, live, escaped, status, produced, answer, noise>>
vars     == <<host, readers, pipe, holds, provider>>

PC == {"spawning", "writing", "polling", "checking", "killing", "joining",
       "returned"}

\* Diagnostic families ADRP-EXTP-200, 201, 202, 300 and those of
\* validate_response (301 to 600).
Result == {"none", "ok", "execution", "timeout", "limit", "response", "rejected"}

\* Host, readers and pipes stay well formed; a reader never keeps more than one
\* block beyond the limit, however much is written (read_limited, run_one).
TypeOK ==
  /\ pc \in PC
  /\ unsent \in 0..RequestSize
  /\ elapsed \in 0..Timeout
  /\ writeFailed \in BOOLEAN
  /\ timedOut \in BOOLEAN
  /\ result \in Result
  /\ captured \in [Outputs -> 0..(Limit + 1)]
  /\ exceeded \subseteq Outputs
  /\ eof \subseteq Outputs
  /\ pipe \in [Streams -> 0..PipeSize]
  /\ holds \in [Streams -> SUBSET Processes]
  /\ started \subseteq Processes
  /\ live \subseteq started
  /\ escaped \subseteq Descendants
  /\ status \in {"running", "success", "failure", "killed"}
  /\ produced \in [Outputs -> Nat]
  /\ answer \in {"valid", "malformed", "unsupported"}
  /\ noise \in {"utf8", "binary"}

Init ==
  /\ pc = "spawning"
  /\ unsent = RequestSize
  /\ elapsed = 0
  /\ writeFailed = FALSE
  /\ timedOut = FALSE
  /\ result = "none"
  /\ captured = [s \in Outputs |-> 0]
  /\ exceeded = {}
  /\ eof = {}
  /\ pipe = [s \in Streams |-> 0]
  /\ holds = [s \in Streams |-> {}]
  /\ started = {}
  /\ live = {}
  /\ escaped = {}
  /\ status = "running"
  /\ produced = [s \in Outputs |-> 0]
  /\ answer \in {"valid", "malformed", "unsupported"}
  /\ noise \in {"utf8", "binary"}

-----------------------------------------------------------------------------
(* The host thread.                                                        *)

Spawn ==
  /\ pc = "spawning"
  /\ started' = {Child}
  /\ live' = {Child}
  /\ holds' = [s \in Streams |-> {Child}]
  /\ pc' = "writing"
  /\ UNCHANGED <<unsent, elapsed, writeFailed, timedOut, result, readers,
                 pipe, escaped, status, produced, answer, noise>>

SpawnFails ==
  /\ pc = "spawning"
  /\ pc' = "returned"
  /\ result' = "execution"
  /\ UNCHANGED <<unsent, elapsed, writeFailed, timedOut, readers, pipe, holds,
                 provider>>

\* write_all blocks while the pipe is full; no clock is running yet.
WriteRequest ==
  /\ pc = "writing"
  /\ unsent > 0
  /\ holds["stdin"] # {}
  /\ pipe["stdin"] < PipeSize
  /\ pipe' = [pipe EXCEPT !["stdin"] = @ + 1]
  /\ unsent' = unsent - 1
  /\ UNCHANGED <<pc, elapsed, writeFailed, timedOut, result, readers, holds,
                 provider>>

\* Nobody can read the request any more.
WriteFails ==
  /\ pc = "writing"
  /\ unsent > 0
  /\ holds["stdin"] = {}
  /\ writeFailed' = TRUE
  /\ pc' = "killing"
  /\ UNCHANGED <<unsent, elapsed, timedOut, result, readers, pipe, holds, provider>>

\* The request is written and stdin closed; the clock starts.
RequestWritten ==
  /\ pc = "writing"
  /\ unsent = 0
  /\ pc' = "polling"
  /\ UNCHANGED <<unsent, elapsed, writeFailed, timedOut, result, readers, pipe,
                 holds, provider>>

\* try_wait: an exited provider goes to the readers.
Poll ==
  /\ pc = "polling"
  /\ pc' = IF Child \in live THEN "checking" ELSE "joining"
  /\ UNCHANGED <<unsent, elapsed, writeFailed, timedOut, result, readers, pipe,
                 holds, provider>>

\* A loop that only waits for the exit.
CheckClock_Never ==
  /\ pc = "checking"
  /\ pc' = "polling"
  /\ UNCHANGED <<unsent, elapsed, writeFailed, timedOut, result, readers, pipe,
                 holds, provider>>

CheckClock ==
  /\ pc = "checking"
  /\ \/ elapsed >= Timeout /\ timedOut' = TRUE /\ pc' = "killing"
     \/ elapsed < Timeout /\ pc' = "polling" /\ UNCHANGED timedOut
  /\ UNCHANGED <<unsent, elapsed, writeFailed, result, readers, pipe, holds,
                 provider>>

Tick ==
  /\ pc \in {"polling", "checking"}
  /\ elapsed < Timeout
  /\ elapsed' = elapsed + 1
  /\ UNCHANGED <<pc, unsent, writeFailed, timedOut, result, readers, pipe, holds,
                 provider>>

Kill(victims) ==
  /\ live' = live \ victims
  /\ holds' = [s \in Streams |-> holds[s] \ victims]
  /\ status' = IF Child \in live THEN "killed" ELSE status

\* Only the process the host knows is killed.
KillTree_ChildOnly ==
  /\ pc = "killing"
  /\ Kill({Child})
  /\ pc' = "joining"
  /\ UNCHANGED <<unsent, elapsed, writeFailed, timedOut, result, readers, pipe,
                 started, escaped, produced, answer, noise>>

\* kill_process_tree and the wait that reaps the child: `kill -KILL -pgid`
\* when that works, and the child in any case.
KillTree ==
  /\ pc = "killing"
  /\ Kill(IF KillAvailable THEN Processes \ escaped ELSE {Child})
  /\ pc' = "joining"
  /\ UNCHANGED <<unsent, elapsed, writeFailed, timedOut, result, readers, pipe,
                 started, escaped, produced, answer, noise>>

\* What the readers captured is one JSON document of the v1 shape.
WellFormed == answer # "malformed" /\ captured["stdout"] = ResponseSize

\* The checks of run_one, in their order.
Outcome ==
  CASE writeFailed -> "execution"
    [] ~writeFailed /\ timedOut -> "timeout"
    [] ~writeFailed /\ ~timedOut ->
         IF exceeded # {} THEN "limit"
         ELSE IF noise = "binary" /\ captured["stderr"] > 0 THEN "response"
         ELSE IF status # "success" THEN "execution"
         ELSE IF ~WellFormed THEN "response"
         ELSE IF answer = "unsupported" THEN "rejected"
         ELSE "ok"

\* The outcome is decided from what has been captured so far.
Return_WithoutJoin ==
  /\ pc = "joining"
  /\ result' = Outcome
  /\ pc' = "returned"
  /\ UNCHANGED <<unsent, elapsed, writeFailed, timedOut, readers, pipe, holds,
                 provider>>

\* Both readers have been joined.
Return ==
  /\ pc = "joining"
  /\ eof = Outputs
  /\ result' = Outcome
  /\ pc' = "returned"
  /\ UNCHANGED <<unsent, elapsed, writeFailed, timedOut, readers, pipe, holds,
                 provider>>

Host ==
  \/ Spawn \/ SpawnFails \/ WriteRequest \/ WriteFails \/ RequestWritten
  \/ Poll \/ CheckClock \/ KillTree \/ Return

-----------------------------------------------------------------------------
(* The reader threads: read_limited().                                     *)

Smaller(m, n) == IF m < n THEN m ELSE n

\* A reader that keeps whatever it drains.
ReadBlocks_KeepsAll(s) ==
  /\ \E count \in 1..Smaller(pipe[s], BufferSize) :
        /\ pipe' = [pipe EXCEPT ![s] = @ - count]
        /\ captured' = [captured EXCEPT ![s] = @ + count]
  /\ exceeded' = IF captured'[s] > Limit THEN exceeded \cup {s} ELSE exceeded
  /\ UNCHANGED <<host, eof, holds, provider>>

\* A reader that takes the limit itself for an excess.
ReadBlocks_LimitIsExcess(s) ==
  /\ \E count \in 1..Smaller(pipe[s], BufferSize) :
        /\ pipe' = [pipe EXCEPT ![s] = @ - count]
        /\ captured' = [captured EXCEPT ![s] = Smaller(@ + count, Limit + 1)]
  /\ exceeded' = IF captured'[s] >= Limit THEN exceeded \cup {s} ELSE exceeded
  /\ UNCHANGED <<host, eof, holds, provider>>

\* Everything is drained, at most one block beyond the limit is kept.
ReadBlocks(s) ==
  /\ \E count \in 1..Smaller(pipe[s], BufferSize) :
        /\ pipe' = [pipe EXCEPT ![s] = @ - count]
        /\ captured' = [captured EXCEPT ![s] = Smaller(@ + count, Limit + 1)]
  /\ exceeded' = IF captured'[s] > Limit THEN exceeded \cup {s} ELSE exceeded
  /\ UNCHANGED <<host, eof, holds, provider>>

\* End of file: the pipe is empty and no process can write to it.
ReadEnd(s) ==
  /\ Child \in started
  /\ s \notin eof
  /\ pipe[s] = 0
  /\ holds[s] = {}
  /\ eof' = eof \cup {s}
  /\ UNCHANGED <<host, captured, exceeded, pipe, holds, provider>>

Reader(s) == ReadBlocks(s) \/ ReadEnd(s)

-----------------------------------------------------------------------------
(* The provider and the processes it forks.                                *)

ReadRequest(p) ==
  /\ p \in holds["stdin"]
  /\ pipe["stdin"] > 0
  /\ pipe' = [pipe EXCEPT !["stdin"] = @ - 1]
  /\ UNCHANGED <<host, readers, holds, provider>>

Produce(p, s) ==
  /\ p \in holds[s]
  /\ pipe[s] < PipeSize
  /\ produced[s] < MaxOutput
  /\ pipe' = [pipe EXCEPT ![s] = @ + 1]
  /\ produced' = [produced EXCEPT ![s] = @ + 1]
  /\ UNCHANGED <<host, readers, holds, started, live, escaped, status, answer, noise>>

Close(p, s) ==
  /\ p \in holds[s]
  /\ holds' = [holds EXCEPT ![s] = @ \ {p}]
  /\ UNCHANGED <<host, readers, pipe, provider>>

\* A forked process inherits the open streams and the process group.
Fork(p, d) ==
  /\ p \in live
  /\ d \in Descendants \ started
  /\ started' = started \cup {d}
  /\ live' = live \cup {d}
  /\ escaped' = IF p \in escaped THEN escaped \cup {d} ELSE escaped
  /\ holds' = [s \in Streams |-> IF p \in holds[s] THEN holds[s] \cup {d} ELSE holds[s]]
  /\ UNCHANGED <<host, readers, pipe, status, produced, answer, noise>>

\* setsid; the leader of a process group cannot call it.
Escape(p) ==
  /\ p \in live \ {Child}
  /\ p \notin escaped
  /\ escaped' = escaped \cup {p}
  /\ UNCHANGED <<host, readers, pipe, holds, started, live, status, produced,
                 answer, noise>>

Exit(p) ==
  /\ p \in live
  /\ live' = live \ {p}
  /\ holds' = [s \in Streams |-> holds[s] \ {p}]
  /\ IF p = Child THEN status' \in {"success", "failure"} ELSE UNCHANGED status
  /\ UNCHANGED <<host, readers, pipe, started, escaped, produced, answer, noise>>

Provider ==
  \E p \in Processes :
    \/ ReadRequest(p) \/ Escape(p) \/ Exit(p)
    \/ \E s \in Outputs : Produce(p, s)
    \/ \E s \in Streams : Close(p, s)
    \/ \E d \in Descendants : Fork(p, d)

-----------------------------------------------------------------------------
Next == Host \/ Tick \/ (\E s \in Outputs : Reader(s)) \/ Provider

Spec == Init /\ [][Next]_vars

\* The host's threads are scheduled and its clock advances.  Nothing is
\* assumed of the provider.
FairSpec ==
  /\ Spec
  /\ WF_vars(Host) /\ WF_vars(Tick)
  /\ \A s \in Outputs : WF_vars(Reader(s))

-----------------------------------------------------------------------------
(* Properties                                                              *)

\* A response is accepted only from a provider that exited with success
\* before the timeout and when all that it and its children have written, or
\* ever can write, to stdout was read: never a prefix, never what a killed
\* provider left in the pipe.
AcceptedResponseIsWhole ==
  result = "ok" =>
    /\ status = "success"
    /\ ~timedOut
    /\ captured["stdout"] = ResponseSize
    /\ produced["stdout"] = ResponseSize
    /\ holds["stdout"] = {}

\* The output limit is exact: a stream of Limit blocks is accepted, one of
\* Limit + 1 blocks is not, however the reads cut it (read_limited).
LimitIsExact ==
  \A s \in eof :
    /\ captured[s] = Smaller(produced[s], Limit + 1)
    /\ s \in exceeded <=> produced[s] > Limit

\* After a timeout or a failed request no process of the provider's group is
\* left running ("the provider process group is terminated on Unix",
\* docs/EXTERNAL_PROVIDER_PROTOCOL.md), even if the provider itself had
\* already exited when it was killed.
FailedRunLeavesNoGroup ==
  (KillAvailable /\ pc = "returned" /\ (timedOut \/ writeFailed)) =>
    live \subseteq escaped

\* Every run returns, whatever the provider does: "it bounds stdout/stderr
\* and execution time" (docs/TRUST_MODEL.md).
RunReturns == <>(pc = "returned")
=============================================================================
