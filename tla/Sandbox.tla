-------------------------------- MODULE Sandbox --------------------------------
(***************************************************************************)
(* One execution by ContainerExecutor: a container that copies the prepared *)
(* workspace, then the container that tests it.  Each is run_in_container:  *)
(* a client process of the engine that is polled until it exits or its      *)
(* deadline passes, a thread that drains its output, and the removal of the *)
(* container of a client that was killed.  One stream stands for stdout and *)
(* stderr, which are drained and received by the same code.                *)
(***************************************************************************)
EXTENDS Integers, Sequences

CONSTANTS
  Limit,      \* bytes of output that are retained
  Chunk,      \* bytes per read of the drain
  PipeSize,   \* bytes the pipe holds
  MaxOutput   \* bound of this model: bytes a container writes

ASSUME SandboxAssumption ==
  /\ {Limit, Chunk, PipeSize} \subseteq Nat \ {0} /\ MaxOutput \in Nat

VARIABLES
  pc,         \* spawn | wait | kill | cleanup | status | drain | decide | done
  stage,      \* prepare, then test
  box,        \* the container of each stage: none | running | exited | removed
  client,     \* the engine's client process: none | running | dying | gone
  code,       \* success | failure | None, of the container, then of its client
  lost,       \* the client ended without its container
  wanted,     \* bytes the container is going to write
  written, taken,          \* bytes written into and read from the pipe
  held,       \* another process holds the pipe open after the client is gone
  head, tail, discarded,   \* of drain_stream_bounded
  drain,      \* reading | sent | failed
  ample,      \* the deadline is beyond whatever the container does
  elapsed,    \* it has passed
  timed_out, cleanup_error,
  answer      \* what execute returns

world  == <<box, client, code, lost, wanted, written, held>>
reader == <<taken, head, tail, discarded, drain>>
parent == <<stage, timed_out, cleanup_error, answer>>
vars   == <<pc, world, reader, parent, ample, elapsed>>

Stages == {"prepare", "test"}
None   == "None"

Error == [ok |-> FALSE]
Result(exit, late, output) == [ok |-> TRUE, exit |-> exit, timed_out |-> late, stdout |-> output]

Least2(a, b) == IF a <= b THEN a ELSE b
Minus(a, b)  == IF a >= b THEN a - b ELSE 0     \* saturating_sub

-----------------------------------------------------------------------------
(* drain_stream_bounded and BoundedStreamCapture::render *)
HeadLimit == Limit \div 2
TailLimit == Limit - HeadLimit

NoOutput ==
  /\ taken = 0 /\ head = <<>> /\ tail = <<>> /\ discarded = 0 /\ drain = "reading"

\* The bytes of a chunk are named by their positions in the output.
Bytes(from, to) == [i \in 1..(to - from + 1) |-> from + i - 1]

\* Mutant: a full tail keeps what it has.
Kept_first(old, rest) ==
  SubSeq(old \o rest, 1, Least2(TailLimit, Len(old) + Len(rest)))

\* The tail after more bytes.
Kept(old, rest) ==
  LET excess == Minus(Len(old) + Len(rest), TailLimit) IN
  IF Len(rest) >= TailLimit
  THEN SubSeq(rest, Len(rest) - TailLimit + 1, Len(rest))
  ELSE SubSeq(old, excess + 1, Len(old)) \o rest

\* Mutant: nothing is read beyond the retention limit.
MayRead_limited(k) == taken + k <= written /\ taken + k <= Limit

MayRead(k) == taken + k <= written

Read ==
  /\ drain = "reading"
  /\ \E k \in 1..Chunk :
       /\ MayRead(k)
       /\ LET chunk == Bytes(taken + 1, taken + k)
              keep  == Least2(Minus(HeadLimit, Len(head)), k)
              rest  == SubSeq(chunk, keep + 1, k)
          IN  /\ head' = head \o SubSeq(chunk, 1, keep)
              /\ tail' = Kept(tail, rest)
              /\ discarded' = discarded + Minus(Len(tail) + Len(rest), TailLimit)
       /\ taken' = taken + k
  /\ UNCHANGED <<pc, world, drain, parent, ample, elapsed>>

EndOfStream ==
  /\ drain = "reading"
  /\ client = "gone" /\ ~held /\ taken = written
  /\ drain' = "sent"
  /\ UNCHANGED <<pc, world, taken, head, tail, discarded, parent, ample, elapsed>>

ReadFails ==
  /\ drain = "reading" /\ client # "none"
  /\ drain' = "failed"
  /\ UNCHANGED <<pc, world, taken, head, tail, discarded, parent, ample, elapsed>>

render ==
  IF discarded > 0
  THEN LET retained == head \o tail IN
       <<SubSeq(retained, 1, HeadLimit), discarded, SubSeq(retained, HeadLimit + 1, Len(retained))>>
  ELSE <<head \o tail>>

-----------------------------------------------------------------------------
(* The engine, its client and the container.  A request of the client that   *)
(* is under way when the client is killed counts as made or as not made.     *)
Outside == UNCHANGED <<pc, reader, parent, ample, elapsed>>

Start ==
  /\ client = "running" /\ box[stage] = "none"
  /\ box' = [box EXCEPT ![stage] = "running"]
  /\ wanted' \in 0..MaxOutput
  /\ UNCHANGED <<client, code, lost, written, held>> /\ Outside

\* A full pipe stops the container.
Write ==
  /\ box[stage] = "running" /\ client = "running" /\ written < wanted
  /\ written - taken < PipeSize \/ drain = "failed"
  /\ written' = written + 1
  /\ UNCHANGED <<box, client, code, lost, wanted, held>> /\ Outside

ContainerExits ==
  /\ box[stage] = "running" /\ written = wanted
  /\ box' = [box EXCEPT ![stage] = "exited"]
  /\ code' \in IF client = "gone" THEN {code} ELSE {"success", "failure"}
  /\ UNCHANGED <<client, lost, wanted, written, held>> /\ Outside

ClientExits ==
  /\ client = "running" /\ box[stage] = "exited"
  /\ client' = "gone"
  /\ UNCHANGED <<box, code, lost, wanted, written, held>> /\ Outside

\* The client ends on its own: no engine, connection lost, killed by a signal.
ClientDies ==
  /\ client = "running" /\ box[stage] # "exited"
  /\ client' = "gone" /\ lost' = TRUE
  /\ code' \in {"failure", None}
  /\ UNCHANGED <<box, wanted, written, held>> /\ Outside

KillTakesEffect ==
  /\ client = "dying"
  /\ client' = "gone" /\ code' = None
  /\ UNCHANGED <<box, lost, wanted, written, held>> /\ Outside

World == Start \/ Write \/ ContainerExits \/ ClientExits \/ KillTakesEffect

-----------------------------------------------------------------------------
(* run_in_container *)
Return(a) ==
  /\ pc' = "done" /\ answer' = a
  /\ UNCHANGED <<stage, timed_out, cleanup_error>>

Then(next) == pc' = next /\ UNCHANGED parent

Spawn ==
  /\ pc = "spawn"
  /\ \/ /\ client' = "running" /\ held' \in BOOLEAN
        /\ Then("wait")
     \/ Return(Error) /\ UNCHANGED <<client, held>>
  /\ UNCHANGED <<box, code, lost, wanted, written, reader, ample, elapsed>>

\* wait_with_timeout: a poll, the deadline, and the kill behind them.
PollExited ==
  /\ pc = "wait" /\ client = "gone"
  /\ Then("status")
  /\ UNCHANGED <<world, reader, ample, elapsed>>

Deadline ==
  /\ pc = "wait" /\ ~ample /\ ~elapsed
  /\ elapsed' = TRUE
  /\ UNCHANGED <<pc, world, reader, parent, ample>>

PollLate ==
  /\ pc = "wait" /\ client # "gone" /\ elapsed
  /\ Then("kill")
  /\ UNCHANGED <<world, reader, ample, elapsed>>

Kill ==
  /\ pc = "kill"
  /\ client' = IF client = "gone" THEN "gone" ELSE "dying"
  /\ timed_out' = TRUE
  /\ pc' = "cleanup"
  /\ UNCHANGED <<box, code, lost, wanted, written, held, reader, stage, cleanup_error, answer, ample, elapsed>>

\* try_wait fails
PollFails ==
  /\ pc = "wait"
  /\ Return(Error)
  /\ UNCHANGED <<world, reader, ample, elapsed>>

\* cleanup_exact_container: rm -f succeeds, or it fails, exceeds its own deadline
\* or its streams are not drained, and may have removed the container even so.
\* Whether the removal of a container that was never created succeeds depends
\* on the engine.
Cleanup ==
  /\ pc = "cleanup"
  /\ \E removed, failed \in BOOLEAN :
       /\ failed \/ removed
       /\ box' = [box EXCEPT ![stage] = IF removed /\ @ # "none" THEN "removed" ELSE @]
       /\ cleanup_error' = failed
  /\ pc' = "status"
  /\ UNCHANGED <<client, code, lost, wanted, written, held, reader, stage, timed_out, answer, ample, elapsed>>

\* child_status_with_timeout
Status ==
  /\ pc = "status"
  /\ IF client = "gone" THEN Then("drain") ELSE Return(Error)
  /\ UNCHANGED <<world, reader, ample, elapsed>>

\* receive_bounded_capture, with a deadline of its own
Receive ==
  /\ pc = "drain" /\ drain = "sent"
  /\ Then("decide")
  /\ UNCHANGED <<world, reader, ample, elapsed>>

ReceiveFails ==
  /\ pc = "drain" /\ drain # "sent"
  /\ Return(Error)
  /\ UNCHANGED <<world, reader, ample, elapsed>>

\* Mutant: a container that could not be removed is no reason to withhold the result.
Withheld_never == FALSE

Withheld == cleanup_error

Outcome == Result(IF timed_out THEN None ELSE code, timed_out, render)

\* Mutant: the tests start whatever became of the preparation.
Prepared_always == TRUE

Prepared == code = "success" /\ ~timed_out

\* The second container starts from a clean slate, with what is left of the time.
NextStage ==
  /\ stage' = "test" /\ pc' = "spawn"
  /\ client' = "none" /\ code' = None /\ lost' = FALSE
  /\ wanted' = 0 /\ written' = 0 /\ held' = FALSE
  /\ taken' = 0 /\ head' = <<>> /\ tail' = <<>> /\ discarded' = 0 /\ drain' = "reading"
  /\ elapsed' = FALSE
  /\ UNCHANGED <<box, timed_out, cleanup_error, answer, ample>>

Decide ==
  /\ pc = "decide"
  /\ IF ~Withheld /\ stage = "prepare" /\ Prepared
     THEN \/ NextStage
          \/ ~ample /\ Return(Error) /\ UNCHANGED <<world, reader, ample, elapsed>>
     ELSE /\ Return(IF Withheld \/ stage = "prepare" THEN Error ELSE Outcome)
          /\ UNCHANGED <<world, reader, ample, elapsed>>

-----------------------------------------------------------------------------
Init ==
  /\ pc = "spawn" /\ stage \in Stages   \* without a prepared workspace there is one stage
  /\ box = [s \in Stages |-> "none"]
  /\ client = "none" /\ code = None /\ lost = FALSE
  /\ wanted = 0 /\ written = 0 /\ held = FALSE
  /\ NoOutput
  /\ ample \in BOOLEAN /\ elapsed = FALSE
  /\ timed_out = FALSE /\ cleanup_error = FALSE
  /\ answer = Error

Parent ==
  \/ Spawn \/ PollExited \/ PollLate \/ Kill \/ Cleanup \/ Status
  \/ Receive \/ Decide

Faults == PollFails \/ ReceiveFails \/ ReadFails \/ ClientDies

Next == Parent \/ Deadline \/ World \/ Read \/ EndOfStream \/ Faults

Spec == Init /\ [][Next]_vars

\* The parent polls, the thread reads and deadlines pass.  That a container
\* comes to its end is assumed only where the deadline is ample.
FairSpec ==
  /\ Spec
  /\ WF_vars(Parent) /\ WF_vars(Deadline)
  /\ WF_vars(Read \/ EndOfStream)
  /\ WF_vars(ReceiveFails)
  /\ WF_vars(ample /\ World)

-----------------------------------------------------------------------------
\* Type invariant of an execution.
TypeOK ==
  /\ pc \in {"spawn", "wait", "kill", "cleanup", "status", "drain", "decide", "done"}
  /\ stage \in Stages
  /\ box \in [Stages -> {"none", "running", "exited", "removed"}]
  /\ client \in {"none", "running", "dying", "gone"}
  /\ code \in {"success", "failure", None}
  /\ {lost, held, ample, elapsed, timed_out, cleanup_error} \subseteq BOOLEAN
  /\ taken <= written /\ written <= wanted /\ wanted <= MaxOutput
  /\ Len(head) <= HeadLimit /\ Len(tail) <= TailLimit /\ discarded \in Nat
  /\ drain \in {"reading", "sent", "failed"}

\* No result leaves a container running: whether its client exited, was
\* killed at the deadline or exited while it was being killed.  A client that
\* lost its container cannot make a pass of it.
ResultMeansGone ==
  pc = "done" /\ answer.ok /\ (~lost \/ answer.exit = "success" \/ answer.timed_out) =>
    \A s \in Stages : box[s] # "running"

\* The container of the tests runs on a finished copy and never beside the
\* container that makes it.
TestsRunOnFinishedCopy ==
  stage = "test" /\ box["prepare"] # "none" => box["prepare"] = "exited"

\* A result carries the whole output, or its first and last bytes and the exact
\* number of those left out, wherever reads, limits and writes fall.
OutputIsWhole ==
  pc = "done" /\ answer.ok =>
    answer.stdout =
      IF written <= Limit THEN <<Bytes(1, written)>>
      ELSE <<Bytes(1, HeadLimit), written - Limit, Bytes(written - TailLimit + 1, written)>>

\* The call returns, also when the container never ends, and without its
\* deadline when the container does, however much it writes.
CallReturns == <>(pc = "done")

=============================================================================
