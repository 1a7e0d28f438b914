----------------------------- MODULE EvidenceOps -----------------------------
(***************************************************************************)
(* Operations on a finished evidence bundle: replays append attempts,      *)
(* reports replace one artifact, reads (show, compare) only look.  Each    *)
(* verifies, takes the run's lock file, verifies again, works, and undoes  *)
(* its own writes when anything after its first write fails.  The scan     *)
(* that made the bundle may still be rewriting its claims without the lock.*)
(*                                                                         *)
(* One scenario of one bundle, with the checksums of the others, sorted    *)
(* before and after it; a digest is the content it was taken of.           *)
(***************************************************************************)
EXTENDS Replay, FiniteSets

CONSTANTS
  Procs,       \* the processes, one operation each
  Recorded,    \* the recorded results considered, of Originals
  Finishing,   \* whether the scan has yet to write its claims
  MaxFaults,   \* bound on I/O errors and crashes
  Absent,      \* a file that does not exist, a local not yet assigned
  Torn         \* the content of a file whose writing failed

ASSUME OpsAssumption ==
  /\ None \notin Procs
  /\ Recorded \subseteq Originals
  /\ Finishing \in BOOLEAN
  /\ MaxFaults \in Nat

VARIABLES
  bundle,    \* the files
  lock,      \* whose lock file exists: a process, or None
  pc, job,   \* per process: where it is, and which operation it runs
  number,    \* the attempt it reserved
  record,    \* the result.json of its replay
  saved,     \* what it read of the bundle before its first write
  was,       \* history: the whole bundle then
  todo,      \* the files it has yet to restore
  result,    \* what it tells its caller
  finisher,  \* where the scan's own process is
  acked,     \* history: the attempts whose post-verification succeeded
  faults     \* I/O errors and crashes so far

vars == <<bundle, lock, pc, job, number, record, saved, was, todo, result, finisher,
          acked, faults>>

-----------------------------------------------------------------------------
(* The bundle: original is result.json of the scenario, attempts a function
   from attempt numbers, mirror replay-result.json, staging the directories
   below replays/ that hold no complete attempt.  The checksums.txt of the
   other scenarios list files that no operation changes.                   *)
OtherSums == {"earlier_sums", "later_sums"}
OtherFiles == "theirs"

NoAttempts == [n \in {} |-> Absent]

With(f, n, r) == [i \in DOMAIN f \cup {n} |-> IF i = n THEN r ELSE f[i]]
Without(f, n) == [i \in DOMAIN f \ {n} |-> f[i]]

ScenarioFiles(b) == [attempts |-> b.attempts, mirror |-> b.mirror]
RunFiles(b) == [claims |-> b.claims, report |-> b.report, scenario |-> b.scenario_sums,
                earlier |-> b.earlier_sums, later |-> b.later_sums]

Contiguous(b) == DOMAIN b.attempts = 1..Cardinality(DOMAIN b.attempts)

Latest(b) == IF DOMAIN b.attempts = {} THEN Absent
             ELSE b.attempts[LastOf(DOMAIN b.attempts)]

verify_run_root(b) ==
  /\ b.staging = {}
  /\ Contiguous(b)
  /\ \A n \in DOMAIN b.attempts : AttemptAccepted(b.original, b.attempts[n])
  /\ b.mirror = Latest(b)
  /\ b.scenario_sums = ScenarioFiles(b)
  /\ b.earlier_sums = OtherFiles /\ b.later_sums = OtherFiles
  /\ b.root_sums = RunFiles(b)

ReportContents == {"absent", "scan", "rendered", Torn}

\* Every complaint of the verifier is about the report.
verify_only_report_changed(b) ==
  \E r \in ReportContents : verify_run_root([b EXCEPT !.report = r])

\* What the scan leaves: no replays yet, its own claims rewritten or not.
Sealed(original, report) ==
  LET claims == IF Finishing THEN "scan" ELSE "final"
      sums   == [attempts |-> NoAttempts, mirror |-> Absent]
  IN  [original |-> original, report |-> report, attempts |-> NoAttempts,
       mirror |-> Absent, staging |-> {}, claims |-> claims, scenario_sums |-> sums,
       earlier_sums |-> OtherFiles, later_sums |-> OtherFiles,
       root_sums |-> [claims |-> claims, report |-> report, scenario |-> sums,
                      earlier |-> OtherFiles, later |-> OtherFiles]]

Init ==
  /\ \E o \in Recorded, r \in {"absent", "scan"} : bundle = Sealed(o, r)
  /\ lock = None
  /\ pc = [p \in Procs |-> "start"]
  /\ job \in [Procs -> {"replay", "report", "read"}]
  /\ number = [p \in Procs |-> 0]
  /\ record = [p \in Procs |-> Absent]
  /\ saved = [p \in Procs |-> Absent]
  /\ was = [p \in Procs |-> Absent]
  /\ todo = [p \in Procs |-> <<>>]
  /\ result = [p \in Procs |-> None]
  /\ finisher = IF Finishing THEN "claims" ELSE "done"
  /\ acked = NoAttempts
  /\ faults = 0

Move(p, phase) == pc' = [pc EXCEPT ![p] = phase]
Tell(p, answer) == result' = [result EXCEPT ![p] = answer]

-----------------------------------------------------------------------------
(* Every operation: verify, lock, verify.  Verifications in a row are one
   step: a bundle that fails the first of them is refused like one that
   fails the last.                                                         *)
VerifyFirst(p) ==
  /\ pc[p] = "start"
  /\ IF verify_run_root(bundle)
     THEN Move(p, "lock") /\ UNCHANGED result
     ELSE Move(p, "ended") /\ Tell(p, "refused")
  /\ UNCHANGED <<bundle, lock, job, number, record, saved, was, todo, finisher, acked, faults>>

\* Mutant: the lock file is opened whether it exists or not.
Acquire_shared(p) ==
  /\ pc[p] = "lock"
  /\ lock' = p /\ Move(p, "locked")
  /\ UNCHANGED <<bundle, job, number, record, saved, was, todo, result, finisher, acked, faults>>

\* Mutant: a lock that is taken is waited for.
Acquire_blocking(p) ==
  /\ pc[p] = "lock" /\ lock = None
  /\ lock' = p /\ Move(p, "locked")
  /\ UNCHANGED <<bundle, job, number, record, saved, was, todo, result, finisher, acked, faults>>

\* create_new of the lock file: it exists or it is ours.
Acquire(p) ==
  /\ pc[p] = "lock"
  /\ IF lock = None
     THEN lock' = p /\ Move(p, "locked") /\ UNCHANGED result
     ELSE Move(p, "ended") /\ Tell(p, "refused") /\ UNCHANGED lock
  /\ UNCHANGED <<bundle, job, number, record, saved, was, todo, finisher, acked, faults>>

AfterLoad == [replay |-> "prepare", report |-> "snapshot", read |-> "release"]

\* Mutant: nothing is verified once the lock is held.
VerifyLocked_trusting(p) ==
  /\ pc[p] = "locked"
  /\ Move(p, AfterLoad[job[p]])
  /\ IF job[p] = "read" THEN Tell(p, "read") ELSE UNCHANGED result
  /\ UNCHANGED <<bundle, lock, job, number, record, saved, was, todo, finisher, acked, faults>>

\* load_stable_verified_manifest; a read has what it came for
VerifyLocked(p) ==
  /\ pc[p] = "locked"
  /\ IF verify_run_root(bundle)
     THEN /\ Move(p, AfterLoad[job[p]])
          /\ IF job[p] = "read" THEN Tell(p, "read") ELSE UNCHANGED result
     ELSE Move(p, "release") /\ Tell(p, "refused")
  /\ UNCHANGED <<bundle, lock, job, number, record, saved, was, todo, finisher, acked, faults>>

\* Engine, digest, workspace or rendering is not what the operation needs.
Refuse(p) ==
  /\ pc[p] = "prepare" \/ (pc[p] = "snapshot" /\ job[p] = "report")
  /\ Move(p, "release") /\ Tell(p, "refused")
  /\ UNCHANGED <<bundle, lock, job, number, record, saved, was, todo, finisher, acked, faults>>

Release(p) ==
  /\ pc[p] = "release"
  /\ lock' = None
  /\ Move(p, "ended")
  /\ saved' = [saved EXCEPT ![p] = Absent]
  /\ was' = [was EXCEPT ![p] = Absent]
  /\ UNCHANGED <<bundle, job, number, record, todo, result, finisher, acked, faults>>

-----------------------------------------------------------------------------
\* The workspace copy is ready: the last verification before the reservation.
Prepare(p) ==
  /\ pc[p] = "prepare"
  /\ IF verify_run_root(bundle)
     THEN Move(p, "reserve") /\ UNCHANGED result
     ELSE Move(p, "release") /\ Tell(p, "refused")
  /\ UNCHANGED <<bundle, lock, job, number, record, saved, was, todo, finisher, acked, faults>>

\* The next number after contiguous attempts.
inspect_replay_attempts(b) == Cardinality(DOMAIN b.attempts) + 1

\* reserve_replay_attempt: a gap or a staging directory refuses the replay, else
\* the next number is its own.
Reserve(p) ==
  LET next == inspect_replay_attempts(bundle) IN
  /\ pc[p] = "reserve"
  /\ IF bundle.staging = {} /\ Contiguous(bundle)
     THEN /\ bundle' = [bundle EXCEPT !.staging = {next}]
          /\ number' = [number EXCEPT ![p] = next]
          /\ Move(p, "execute") /\ UNCHANGED result
     ELSE Move(p, "release") /\ Tell(p, "refused") /\ UNCHANGED <<bundle, number>>
  /\ UNCHANGED <<lock, job, record, saved, was, todo, finisher, acked, faults>>

\* fetch and test commands run in the disposable copy
Execute(p) ==
  /\ pc[p] = "execute"
  /\ \E r \in Reports(bundle.original) : record' = [record EXCEPT ![p] = r]
  /\ Move(p, "snapshot")
  /\ UNCHANGED <<bundle, lock, job, number, saved, was, todo, result, finisher, acked, faults>>

AfterSnapshot == [replay |-> "commit", report |-> "report"]

\* What a later failure is undone from: a report reads every scenario's checksums
\* (snapshot_checksum_files), a replay those of its own scenario and the root's.
Saves == [replay |-> {"mirror", "scenario_sums", "root_sums"},
          report |-> {"report", "root_sums", "earlier_sums", "scenario_sums", "later_sums"}]

Snapshot(p) ==
  /\ pc[p] = "snapshot"
  /\ saved' = [saved EXCEPT ![p] = [f \in Saves[job[p]] |-> bundle[f]]]
  /\ was' = [was EXCEPT ![p] = bundle]
  /\ Move(p, AfterSnapshot[job[p]])
  /\ UNCHANGED <<bundle, lock, job, number, record, todo, result, finisher, acked, faults>>

\* the staging directory becomes attempt-N
Commit(p) ==
  /\ pc[p] = "commit"
  /\ IF number[p] \in DOMAIN bundle.attempts
     THEN Move(p, "drop") /\ Tell(p, "uncommitted") /\ UNCHANGED bundle
     ELSE /\ bundle' = [bundle EXCEPT !.staging = @ \ {number[p]},
                                      !.attempts = With(@, number[p], record[p])]
          /\ Move(p, "mirror") /\ UNCHANGED result
  /\ UNCHANGED <<lock, job, number, record, saved, was, todo, finisher, acked, faults>>

\* Mutant: nothing removes the reservation.
DropStaging_left(p) ==
  /\ pc[p] = "drop"
  /\ Move(p, "release")
  /\ UNCHANGED <<bundle, lock, job, number, record, saved, was, todo, result, finisher, acked,
                 faults>>

\* The transaction goes out of scope uncommitted.
DropStaging(p) ==
  /\ pc[p] = "drop"
  /\ bundle' = [bundle EXCEPT !.staging = @ \ {number[p]}]
  /\ Move(p, "release")
  /\ UNCHANGED <<lock, job, number, record, saved, was, todo, result, finisher, acked, faults>>

-----------------------------------------------------------------------------
(* What follows the first write; a failure starts the undo.                *)
WriteMirror(p) ==
  /\ pc[p] = "mirror"
  /\ bundle' = [bundle EXCEPT !.mirror = record[p]]
  /\ Move(p, "earlier_sums")
  /\ UNCHANGED <<lock, job, number, record, saved, was, todo, result, finisher, acked, faults>>

WriteReport(p) ==
  /\ pc[p] = "report"
  /\ bundle' = [bundle EXCEPT !.report = "rendered"]
  /\ Move(p, "check")
  /\ UNCHANGED <<lock, job, number, record, saved, was, todo, result, finisher, acked, faults>>

\* What the operation restores, in the order it restores it.
UndoOrder == [replay |-> <<"attempts", "mirror", "scenario_sums", "root_sums">>,
              report |-> <<"report", "root_sums", "earlier_sums", "scenario_sums",
                           "later_sums">>]

\* Mutant: a failure is reported, nothing is restored.
Fail_kept(p) == Move(p, "release") /\ UNCHANGED todo

Fail(p) ==
  /\ Move(p, "undo")
  /\ todo' = [todo EXCEPT ![p] = UndoOrder[job[p]]]

CheckReport(p) ==
  /\ pc[p] = "check"
  /\ IF verify_only_report_changed(bundle)
     THEN Move(p, "earlier_sums") /\ UNCHANGED todo
     ELSE Fail(p)
  /\ UNCHANGED <<bundle, lock, job, number, record, saved, was, result, finisher, acked, faults>>

\* finalize_run_checksums writes the checksums of every scenario, in sorted order;
\* where it goes on after those of the others.
AfterOther == [earlier_sums |-> "scenario_sums", later_sums |-> "root_sums"]

SumOther(p) ==
  /\ pc[p] \in OtherSums
  /\ bundle' = [bundle EXCEPT ![pc[p]] = OtherFiles]
  /\ Move(p, AfterOther[pc[p]])
  /\ UNCHANGED <<lock, job, number, record, saved, was, todo, result, finisher, acked, faults>>

\* finalize_scenario_checksums: no inventory can be taken with a staging directory
SumScenario(p) ==
  /\ pc[p] = "scenario_sums"
  /\ IF bundle.staging = {}
     THEN /\ bundle' = [bundle EXCEPT !.scenario_sums = ScenarioFiles(bundle)]
          /\ Move(p, "later_sums") /\ UNCHANGED todo
     ELSE Fail(p) /\ UNCHANGED bundle
  /\ UNCHANGED <<lock, job, number, record, saved, was, result, finisher, acked, faults>>

SumRun(p) ==
  /\ pc[p] = "root_sums"
  /\ bundle' = [bundle EXCEPT !.root_sums = RunFiles(bundle)]
  /\ Move(p, "verify")
  /\ UNCHANGED <<lock, job, number, record, saved, was, todo, result, finisher, acked, faults>>

\* Mutant: a verified append is a pass, whatever the comparison said.
Outcome_verified(p) == IF job[p] = "report" THEN "rendered" ELSE "pass"

Outcome(p) == IF job[p] = "report" THEN "rendered"
              ELSE IF record[p].ok THEN "pass" ELSE "diverged"

\* The post-verification decides between success and undo.
PostVerify(p) ==
  /\ pc[p] = "verify"
  /\ IF verify_run_root(bundle)
     THEN /\ Move(p, "release") /\ Tell(p, Outcome(p))
          /\ acked' = IF job[p] = "replay" THEN With(acked, number[p], record[p]) ELSE acked
          /\ UNCHANGED todo
     ELSE Fail(p) /\ UNCHANGED <<result, acked>>
  /\ UNCHANGED <<bundle, lock, job, number, record, saved, was, finisher, faults>>

\* Mutant: the whole replays directory goes.
Restored_all(p, file) ==
  IF file = "attempts" THEN NoAttempts ELSE saved[p][file]

\* Mutant: the mirror keeps the failed attempt.
Restored_mirror_kept(p, file) ==
  IF file = "attempts" THEN Without(bundle.attempts, number[p])
  ELSE IF file = "mirror" THEN bundle.mirror ELSE saved[p][file]

\* What a file is restored to: of the attempts only the operation's own goes.
Restored(p, file) ==
  IF file = "attempts" THEN Without(bundle.attempts, number[p]) ELSE saved[p][file]

Undo(p) ==
  /\ pc[p] = "undo" /\ todo[p] # <<>>
  /\ bundle' = [bundle EXCEPT ![Head(todo[p])] = Restored(p, Head(todo[p]))]
  /\ todo' = [todo EXCEPT ![p] = Tail(@)]
  /\ UNCHANGED <<lock, pc, job, number, record, saved, was, result, finisher, acked, faults>>

UndoVerify(p) ==
  /\ pc[p] = "undo" /\ todo[p] = <<>>
  /\ Tell(p, IF verify_run_root(bundle) THEN "failed" ELSE "undo failed")
  /\ Move(p, "release")
  /\ UNCHANGED <<bundle, lock, job, number, record, saved, was, todo, finisher, acked, faults>>

-----------------------------------------------------------------------------
(* I/O errors and crashes.                                                 *)
Fault == faults < MaxFaults /\ faults' = faults + 1

\* A failed write leaves the file as it was or torn.
Damaged(file) == {bundle, [bundle EXCEPT ![file] = Torn]}

\* a read of the previous files, or a write into the staging directory
SnapshotFails(p) ==
  /\ pc[p] = "snapshot" /\ job[p] = "replay" /\ Fault
  /\ Move(p, "drop") /\ Tell(p, "uncommitted")
  /\ UNCHANGED <<bundle, lock, job, number, record, saved, was, todo, finisher, acked>>

RenameFails(p) ==
  /\ pc[p] = "commit" /\ Fault
  /\ Move(p, "drop") /\ Tell(p, "rename failed")
  /\ UNCHANGED <<bundle, lock, job, number, record, saved, was, todo, finisher, acked>>

\* Drop ignores its errors: the caller is told of the commit only.
DropFails(p) ==
  /\ pc[p] = "drop" /\ Fault
  /\ Move(p, "release")
  /\ UNCHANGED <<bundle, lock, job, number, record, saved, was, todo, result, finisher, acked>>

Written == {"mirror", "report", "earlier_sums", "scenario_sums", "later_sums", "root_sums"}

WriteFails(p) ==
  /\ pc[p] \in Written /\ Fault
  /\ bundle' \in Damaged(pc[p])
  /\ Fail(p)
  /\ UNCHANGED <<lock, job, number, record, saved, was, result, finisher, acked>>

\* the verification itself cannot be completed
CheckFails(p) ==
  /\ pc[p] \in {"check", "verify"} /\ Fault
  /\ Fail(p)
  /\ UNCHANGED <<bundle, lock, job, number, record, saved, was, result, finisher, acked>>

\* An attempt directory whose removal failed is intact or incomplete.
HalfRemoved(p) ==
  {bundle, [bundle EXCEPT !.attempts = Without(@, number[p]), !.staging = @ \cup {number[p]}]}

UndoFails(p) ==
  /\ pc[p] = "undo" /\ Fault
  /\ IF todo[p] = <<>> THEN UNCHANGED bundle
     ELSE IF Head(todo[p]) = "attempts" THEN bundle' \in HalfRemoved(p)
     ELSE bundle' \in Damaged(Head(todo[p]))
  /\ todo' = [todo EXCEPT ![p] = <<>>]
  /\ Move(p, "release") /\ Tell(p, "undo failed")
  /\ UNCHANGED <<lock, job, number, record, saved, was, finisher, acked>>

\* The lock file cannot be removed; nobody is told.
ReleaseFails(p) ==
  /\ pc[p] = "release" /\ Fault
  /\ Move(p, "ended")
  /\ UNCHANGED <<bundle, lock, job, number, record, saved, was, todo, result, finisher, acked>>

\* The process dies: its lock file and its staging directory stay.
Crash(p) ==
  /\ pc[p] \notin {"ended", "crashed"} /\ Fault
  /\ Move(p, "crashed")
  /\ UNCHANGED <<bundle, lock, job, number, record, saved, was, todo, result, finisher, acked>>

-----------------------------------------------------------------------------
(* finish_scan: the scan's process rewrites its claims and finalises the
   bundle again, without the lock and without undo.                        *)
Finish(phase) ==
  /\ finisher' = phase
  /\ UNCHANGED <<lock, pc, job, number, record, saved, was, todo, result, acked, faults>>

FinishClaims ==
  /\ finisher = "claims"
  /\ bundle' = [bundle EXCEPT !.claims = "final"]
  /\ Finish("earlier_sums")

FinishSumOther ==
  /\ finisher \in OtherSums
  /\ bundle' = [bundle EXCEPT ![finisher] = OtherFiles]
  /\ Finish(AfterOther[finisher])

FinishSumScenario ==
  /\ finisher = "scenario_sums"
  /\ IF bundle.staging = {}
     THEN /\ bundle' = [bundle EXCEPT !.scenario_sums = ScenarioFiles(bundle)]
          /\ Finish("later_sums")
     ELSE UNCHANGED bundle /\ Finish("failed")

FinishSumRun ==
  /\ finisher = "root_sums"
  /\ bundle' = [bundle EXCEPT !.root_sums = RunFiles(bundle)]
  /\ Finish("verify")

FinishVerify ==
  /\ finisher = "verify"
  /\ Finish(IF verify_run_root(bundle) THEN "done" ELSE "failed")
  /\ UNCHANGED bundle

FinishScan ==
  FinishClaims \/ FinishSumOther \/ FinishSumScenario \/ FinishSumRun \/ FinishVerify

-----------------------------------------------------------------------------
Step(p) ==
  \/ VerifyFirst(p) \/ Acquire(p) \/ VerifyLocked(p) \/ Refuse(p) \/ Release(p)
  \/ Prepare(p) \/ Reserve(p) \/ Execute(p) \/ Snapshot(p) \/ Commit(p) \/ DropStaging(p)
  \/ WriteMirror(p) \/ WriteReport(p) \/ CheckReport(p) \/ SumOther(p) \/ SumScenario(p)
  \/ SumRun(p) \/ PostVerify(p) \/ Undo(p) \/ UndoVerify(p)

FaultStep(p) ==
  \/ SnapshotFails(p) \/ RenameFails(p) \/ DropFails(p) \/ WriteFails(p)
  \/ CheckFails(p) \/ UndoFails(p) \/ ReleaseFails(p) \/ Crash(p)

Next == (\E p \in Procs : Step(p) \/ FaultStep(p)) \/ FinishScan

Spec == Init /\ [][Next]_vars

\* A process that is not dead goes on: no step of it waits for another process.
FairSpec == Spec /\ \A p \in Procs : WF_vars(Step(p))

-----------------------------------------------------------------------------
\* Where a process holds the lock.
Inside == {"locked", "prepare", "reserve", "execute", "snapshot", "commit", "drop",
           "mirror", "report", "check", "earlier_sums", "scenario_sums", "later_sums",
           "root_sums", "verify", "undo", "release"}

Phases == {"start", "lock", "ended", "crashed"} \cup Inside

Files == {"attempts", "mirror", "report", "earlier_sums", "scenario_sums", "later_sums",
          "root_sums"}

Results == {None, "refused", "read", "rendered", "pass", "diverged", "uncommitted",
            "rename failed", "failed", "undo failed"}

AttemptsType(f) ==
  DOMAIN f \subseteq Nat \ {0} /\ \A n \in DOMAIN f : f[n] \in ReplayRecords

\* Type invariant of the files, the lock and the operations' locals.
TypeOK ==
  /\ bundle.original \in Originals
  /\ AttemptsType(bundle.attempts)
  /\ bundle.mirror \in ReplayRecords \cup {Absent, Torn}
  /\ bundle.staging \subseteq Nat \ {0}
  /\ bundle.claims \in {"scan", "final"}
  /\ bundle.report \in ReportContents
  /\ lock \in Procs \cup {None}
  /\ pc \in [Procs -> Phases]
  /\ job \in [Procs -> {"replay", "report", "read"}]
  /\ number \in [Procs -> Nat]
  /\ record \in [Procs -> ReplayRecords \cup {Absent}]
  /\ todo \in [Procs -> Seq(Files)]
  /\ result \in [Procs -> Results]
  /\ finisher \in {"claims", "earlier_sums", "scenario_sums", "later_sums", "root_sums",
                   "verify", "done", "failed"}
  /\ AttemptsType(acked)
  /\ faults \in 0..MaxFaults

\* The lock file excludes: whoever works on the bundle owns it, so no two do,
\* whatever crashes (EvidenceOperationLock and RunOperationLock share one name).
LockExcludes == \A p \in Procs : pc[p] \in Inside => lock = p

\* An attempt that was verified after its commit, and so reported as a PASS or a
\* divergence, stays in the bundle as written through every later failure, undo
\* and crash (complete_replay_attempt).
AckedSurvive ==
  \A n \in DOMAIN acked : n \in DOMAIN bundle.attempts /\ bundle.attempts[n] = acked[n]

\* The converse: in a bundle that verifies and is not locked, every attempt was
\* reported so; a replay that failed leaves none, unless its caller was told that
\* the undo failed too.
OnlyAckedRemain ==
  /\ lock = None /\ verify_run_root(bundle)
  /\ \A p \in Procs : result[p] # "undo failed"
  => bundle.attempts = acked

\* The files that are not as they were before the transaction.
Changed(p) == {f \in DOMAIN bundle : bundle[f] # [was[p] EXCEPT !.staging = {}][f]}

\* Whatever failed, an undo whose own writes succeed restores every file as it was
\* before the transaction, save that a replay's forgets the checksums of the other
\* scenarios, which it rewrote too (docs/architecture, replay step 6, promises "the
\* previous mirror/checksum state"); and whoever is told of the failure, but not that
\* the undo failed, finds every file as it was (complete_replay_attempt,
\* rollback_report).
UndoRestores ==
  \A p \in Procs :
    /\ pc[p] = "undo" /\ todo[p] = <<>> =>
         Changed(p) \subseteq (IF job[p] = "replay" THEN OtherSums ELSE {})
    /\ pc[p] = "release" /\ result[p] = "failed" => Changed(p) = {}

\* One failure of the file system leaves no unlocked bundle that fails to verify,
\* unless the caller was told that the undo failed.
OneFaultIsHarmless ==
  lock = None /\ faults <= 1 =>
    verify_run_root(bundle) \/ \E p \in Procs : result[p] = "undo failed"

\* From its last verification until it commits, a replay's bundle is the verified
\* one and its own reservation: what it runs and compares with cannot change.
ExecutesOnVerified ==
  \A p \in Procs : job[p] = "replay" /\ pc[p] \in {"execute", "snapshot", "commit"} =>
     /\ bundle.staging = {number[p]}
     /\ verify_run_root([bundle EXCEPT !.staging = {}])

\* A replay that says PASS has left an attempt that ran the tests and ended with
\* the recorded exit, timeout and signature (docs/architecture, replay step 7).
PassIsWitnessed ==
  \A p \in Procs : result[p] = "pass" =>
    /\ number[p] \in DOMAIN bundle.attempts
    /\ LET a == bundle.attempts[number[p]]
           o == bundle.original
       IN  /\ a.phase = "test" /\ ~a.error
           /\ a.replay_exit = o.exit_code /\ a.timed_out = o.timed_out
           /\ a.replay_signature = o.hash

Executed(p) == pc[p] = "ended" /\ record[p] # Absent

\* Without I/O errors, what a replay executed is on record when it ends, whether
\* it passed, diverged or failed to fetch; an engine error of the tests is not.
ExecutionsAreRecorded ==
  \A p \in Procs : Executed(p) /\ faults = 0 /\ record[p] # Failed("test", FALSE) =>
     number[p] \in DOMAIN bundle.attempts /\ bundle.attempts[number[p]] = record[p]

\* docs/architecture, replay step 5: "Handled fetch failures and execution errors
\* become failed attempts".
HandledErrorsAreRecorded ==
  \A p \in Procs : Executed(p) /\ faults = 0 =>
     number[p] \in DOMAIN bundle.attempts /\ bundle.attempts[number[p]] = record[p]

\* The message of ReplayAttemptTransaction::commit when its rename fails:
\* "complete staging preserved at ...".
StagingIsPreserved ==
  \A p \in Procs : result[p] = "rename failed" /\ pc[p] \in {"release", "ended"} =>
     number[p] \in bundle.staging

Unattended == \A p \in Procs : pc[p] \notin Inside \ {"locked", "release"}

\* A bundle left unverifiable is never worked on again, not even by an operation
\* that had verified it before: nothing executes against it, reseals or repairs it.
BrokenStaysBroken ==
  [][~verify_run_root(bundle) /\ Unattended =>
       bundle' = bundle /\ Unattended']_vars

\* Every operation ends or dies, also behind a lock that a crash left.
OperationsEnd == \A p \in Procs : <>(pc[p] \in {"ended", "crashed"})

=============================================================================
