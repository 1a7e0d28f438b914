--------------------------------- MODULE Scan ---------------------------------
(***************************************************************************)
(* The scan: scan_with_adapter and what the CLI does with its outcome.     *)
(*                                                                         *)
(* The planned scenarios run one after another, the baseline first.  Each  *)
(* resolves its image, fetches dependencies when it has fetch commands,    *)
(* and runs the tests up to RerunsOnFailure times (the baseline once),     *)
(* stopping at the first pass.  Every error of the engine becomes evidence; *)
(* an error of the host (a ? in the code) abandons the bundle unsealed.    *)
(***************************************************************************)
EXTENDS EvidenceVerifier

CONSTANT Planned   \* scenarios in the plan, the baseline included

ASSUME PlannedAssumption == Planned \in Nat \ {0}

VARIABLES
  pc,            \* where scan_with_adapter is
  index,         \* the scenario that runs (scenario_index)
  fetch,         \* what became of its fetch phase
  attempts,      \* attempt_records of that scenario
  results,       \* results, each joined with its scenario directory
  baseline_ok,
  first_fail,    \* first_fail_scenario, 0 when None
  confirmed,     \* confirmed_first_fail
  frontier,      \* frontier.json; nothing is observed before it is written
  claim          \* the status in claims.json

vars == <<pc, index, fetch, attempts, results, baseline_ok, first_fail,
          confirmed, frontier, claim>>

Phases == {"engine", "next", "image", "fetch", "test", "classify", "finalize",
           "sealed", "done", "aborted"}

Running == {"engine", "next", "image", "fetch", "test", "classify", "finalize"}

is_baseline == index = 1

Reruns == IF is_baseline THEN 1 ELSE RerunsOnFailure

\* An ExecutionResult with the TestAttemptsSummary and phase files beside it.
Result(verdict, attempt, code, late, failure, status, records, image, phase) ==
  [verdict |-> verdict, attempt |-> attempt, exit_code |-> code, timed_out |-> late,
   failure |-> failure, status |-> status, attempts |-> records, image |-> image,
   fetch |-> phase]

\* blocked_result with not_run_summary: the test phase never started.
NotRun(verdict, code, late, failure, image, phase) ==
  Result(verdict, 0, code, late, failure, "NotRun", <<>>, image, phase)

Blocked == Failure("blocked", BlockedHash)

Init ==
  /\ pc = "engine" /\ index = 0
  /\ fetch = "unplanned" /\ attempts = <<>> /\ results = <<>>
  /\ baseline_ok = FALSE /\ first_fail = 0 /\ confirmed = FALSE
  /\ frontier = NoHorizon(0, 0, NoFailure) /\ claim = None

-----------------------------------------------------------------------------
EngineFound ==
  /\ pc = "engine"
  /\ pc' = "next"
  /\ UNCHANGED <<index, fetch, attempts, results, baseline_ok, first_fail,
                 confirmed, frontier, claim>>

\* finalize_no_engine_blocked_run: one BLOCKED baseline, sealed and verified.
NoEngine ==
  /\ pc = "engine"
  /\ \E phase \in {"unplanned", "planned"} :
       results' = <<NotRun("Blocked", None, FALSE, Blocked, FALSE, phase)>>
  /\ frontier' = compute_breakage_frontier(FALSE, results', FALSE, 0)
  /\ claim' = "BLOCKED"
  /\ pc' = IF verify_run(Planned, results', frontier', claim') THEN "sealed" ELSE "aborted"
  /\ UNCHANGED <<index, fetch, attempts, baseline_ok, first_fail, confirmed>>

NextScenario ==
  /\ pc = "next" /\ index < Planned
  /\ index' = index + 1
  /\ fetch' = "unplanned" /\ attempts' = <<>>
  /\ pc' = "image"
  /\ UNCHANGED <<results, baseline_ok, first_fail, confirmed, frontier, claim>>

PlanExhausted ==
  /\ pc = "next" /\ index = Planned
  /\ pc' = "finalize"
  /\ UNCHANGED <<index, fetch, attempts, results, baseline_ok, first_fail,
                 confirmed, frontier, claim>>

\* Mutant: the candidates run whatever the baseline did.
AfterResult_always_next(r) == "next"

\* What the loop does with a result: a baseline that did not pass ends it.
AfterResult(r) ==
  IF is_baseline /\ r.verdict # "BaselinePass" THEN "finalize" ELSE "next"

\* persist_scenario_artifacts and the pushes to results and ordered_for_frontier
Record(r) ==
  /\ results' = Append(results, r)
  /\ pc' = AfterResult(r)

\* A result of a scenario whose tests never ran: nothing else changes.
RecordNotRun(r) ==
  /\ Record(r)
  /\ UNCHANGED <<index, fetch, attempts, baseline_ok, first_fail, confirmed,
                 frontier, claim>>

-----------------------------------------------------------------------------
ImageResolved ==
  /\ pc = "image"
  /\ pc' = "fetch"
  /\ UNCHANGED <<index, fetch, attempts, results, baseline_ok, first_fail,
                 confirmed, frontier, claim>>

\* ensure_image or validate_image_digest failed; the commands stay on record.
ImageBlocked ==
  /\ pc = "image"
  /\ \E phase \in {"unplanned", "planned"} :
       RecordNotRun(NotRun("Blocked", None, FALSE, Blocked, FALSE, phase))

\* build_fetch_commands returned Unsupported
FetchUnsupported ==
  /\ pc = "fetch"
  /\ RecordNotRun(NotRun("Unsupported", None, FALSE, Blocked, TRUE, "unplanned"))

\* there are no fetch commands, or they exit 0 in time
FetchReady ==
  /\ pc = "fetch"
  /\ fetch' \in {"unplanned", "ok"}
  /\ pc' = "test"
  /\ UNCHANGED <<index, attempts, results, baseline_ok, first_fail, confirmed,
                 frontier, claim>>

\* Mutant: an engine error is retried instead of recorded.
FetchExecutionError_retry ==
  /\ pc = "fetch"
  /\ pc' = "image"
  /\ UNCHANGED <<index, fetch, attempts, results, baseline_ok, first_fail,
                 confirmed, frontier, claim>>

FetchExecutionError ==
  /\ pc = "fetch"
  /\ RecordNotRun(NotRun("Blocked", None, FALSE, Blocked, TRUE, "error"))

\* Mutant: a failed fetch goes on to the tests.
FetchFailed_tests_anyway ==
  /\ pc = "fetch"
  /\ fetch' = "failed"
  /\ pc' = "test"
  /\ UNCHANGED <<index, attempts, results, baseline_ok, first_fail, confirmed,
                 frontier, claim>>

\* the fetch ran and failed: the BLOCKED result carries the fetch's own outcome
FetchFailed ==
  /\ pc = "fetch"
  /\ \E raw \in {x \in RawResults : ~Passed(x)} :
       RecordNotRun(NotRun("Blocked", raw.exit_code, raw.timed_out,
                           normalize_failure(raw), TRUE, "failed"))

-----------------------------------------------------------------------------
\* One execution of the tests; a pass, or the last permitted rerun, ends the loop.
EndsLoop(raw) == Passed(raw) \/ Len(attempts) + 1 = Reruns

TestAttempt ==
  /\ pc = "test"
  /\ \E raw \in RawResults :
       /\ attempts' = Append(attempts, AttemptRecord(raw))
       /\ pc' = IF EndsLoop(raw) THEN "classify" ELSE "test"
  /\ UNCHANGED <<index, fetch, results, baseline_ok, first_fail, confirmed,
                 frontier, claim>>

\* The engine failed during an attempt: earlier attempts stay on record.
TestExecutionError ==
  /\ pc = "test"
  /\ Record(Result("Blocked", Len(attempts), None, FALSE, Blocked, "ExecutionError",
                   attempts, TRUE, fetch))
  /\ UNCHANGED <<index, fetch, attempts, baseline_ok, first_fail, confirmed,
                 frontier, claim>>

\* Mutant: the result keeps the failure of its last attempt whatever the verdict.
RecordedFailure_last(verdict) == attempts[Len(attempts)].failure

RecordedFailure(verdict) ==
  IF is_pass_like(verdict) THEN NoFailure
  ELSE IF verdict = "Flaky" THEN LastFailure(attempts)
  ELSE attempts[Len(attempts)].failure

NotesFirstFail(verdict) == verdict = "FutureFail" /\ first_fail = 0

Classify ==
  LET verdict == TestVerdict(is_baseline, attempts)
      last    == attempts[Len(attempts)]
  IN  /\ pc = "classify"
      /\ Record(Result(verdict, Len(attempts), last.exit_code, last.timed_out,
                       RecordedFailure(verdict), "Completed", attempts, TRUE, fetch))
      /\ baseline_ok' = IF is_baseline /\ verdict # "CoverageIncomplete"
                        THEN verdict = "BaselinePass" ELSE baseline_ok
      /\ first_fail' = IF NotesFirstFail(verdict) THEN index ELSE first_fail
      /\ confirmed' = IF NotesFirstFail(verdict)
                      THEN Passes(attempts) = {} /\ Len(attempts) >= 2 ELSE confirmed
      /\ UNCHANGED <<index, fetch, attempts, frontier, claim>>

-----------------------------------------------------------------------------
\* frontier.json, run.json and the rest, then finalize_run_checksums
Finalize ==
  /\ pc = "finalize"
  /\ frontier' = compute_breakage_frontier(baseline_ok, results, confirmed, first_fail)
  /\ pc' = "sealed"
  /\ UNCHANGED <<index, fetch, attempts, results, baseline_ok, first_fail,
                 confirmed, claim>>

\* The verdicts for which finish_scan claims BLOCKED.
NotCompleted == {"Blocked", "Unsupported", "Inconclusive", "CoverageIncomplete",
                 "BaselineInvalid", "Flaky"}

AnyBlocked(rs) == \E i \in DOMAIN rs : rs[i].verdict \in NotCompleted

FinalClaim == IF AnyBlocked(results) THEN "BLOCKED" ELSE "PASS"

\* finish_scan: the claim is rewritten, the bundle finalised and verified again.
FinishScan ==
  /\ pc = "sealed"
  /\ claim' = FinalClaim
  /\ pc' = IF verify_run(Planned, results, frontier, claim') THEN "done" ELSE "aborted"
  /\ UNCHANGED <<index, fetch, attempts, results, baseline_ok, first_fail,
                 confirmed, frontier>>

\* a host error, or the end of the process, anywhere before the bundle is sealed
Abort ==
  /\ pc \in Running
  /\ pc' = "aborted"
  /\ UNCHANGED <<index, fetch, attempts, results, baseline_ok, first_fail,
                 confirmed, frontier, claim>>

Scenario == \/ ImageResolved \/ ImageBlocked
            \/ FetchUnsupported \/ FetchReady \/ FetchExecutionError \/ FetchFailed
            \/ TestAttempt \/ TestExecutionError \/ Classify

Step == \/ EngineFound \/ NoEngine \/ NextScenario \/ PlanExhausted
        \/ Scenario \/ Finalize \/ FinishScan

Next == Step \/ Abort

Spec == Init /\ [][Next]_vars

\* Every step of the scan has its own deadline, so the scan never stands still.
FairSpec == Spec /\ WF_vars(Step)

-----------------------------------------------------------------------------
Hashes    == Diagnostics \cup ReservedHashes
Failures  == [kind : {None, "coverage", "timeout", "failure", "blocked"}, hash : Hashes]
Records   == [exit_code : ExitCodes, timed_out : BOOLEAN, failure : Failures]

ResultRecords ==
  [verdict : VerdictSet, attempt : Nat, exit_code : ExitCodes, timed_out : BOOLEAN,
   failure : Failures, status : {"Completed", "NotRun", "ExecutionError"},
   attempts : Seq(Records), image : BOOLEAN,
   fetch : {"unplanned", "planned", "error", "failed", "ok"}]

Frontiers ==
  [observed : BOOLEAN, first_failing : 0..Planned, last_passing : 0..Planned,
   failure : Failures, replay : 0..Planned]

\* Type invariant of the scan's variables (scan_with_adapter's locals).
TypeOK ==
  /\ pc \in Phases
  /\ index \in 0..Planned
  /\ fetch \in {"unplanned", "ok"}
  /\ attempts \in Seq(Records)
  /\ results \in Seq(ResultRecords)
  /\ baseline_ok \in BOOLEAN
  /\ first_fail \in 0..Planned
  /\ confirmed \in BOOLEAN
  /\ frontier \in Frontiers
  /\ claim \in {None, "BLOCKED", "PASS"}

\* The verifier, which re-derives every verdict, the frontier and the claim,
\* accepts each bundle the scan seals, with the claim it has and with the one it
\* is going to get: finish_scan's verification never fails.
SealedBundleVerifies ==
  pc \in {"sealed", "done"} =>
    \A c \in {claim, FinalClaim} : verify_run(Planned, results, frontier, c)

\* A horizon is claimed only after a passing baseline, for the earliest
\* scenario that failed at least twice, never passed, and failed in one way
\* each time; no later result is named as the last pass (verdict.rs:9).
HorizonAuthorized ==
  frontier.observed =>
    LET f == frontier.first_failing IN
      /\ f \in 2..Len(results)
      /\ results[1].verdict = "BaselinePass"
      /\ results[f].status = "Completed" /\ results[f].verdict = "FutureFail"
      /\ Len(results[f].attempts) >= 2
      /\ \A i, j \in DOMAIN results[f].attempts :
            /\ ~Passed(results[f].attempts[i])
            /\ results[f].attempts[i].failure.hash = results[f].attempts[j].failure.hash
      /\ \A i \in 1..(f - 1) : results[i].verdict # "FutureFail"
      /\ frontier.last_passing \in 1..(f - 1)

\* A scenario counts as passing only if its image resolved, its fetch did not
\* fail and no attempt failed: a retry never turns a failure into a pass.
PassIsClean ==
  \A i \in DOMAIN results : is_pass_like(results[i].verdict) =>
    /\ results[i].image /\ results[i].fetch \in {"unplanned", "ok"}
    /\ results[i].status = "Completed" /\ Len(results[i].attempts) = 1

\* Nothing is executed against a repository whose baseline did not pass.
BaselineGatesCandidates ==
  index > 1 => results[1].verdict = "BaselinePass" /\ baseline_ok

\* No test attempt belongs to a scenario whose image or fetch failed.
TestsNeedPreparation ==
  /\ pc \in {"test", "classify"} => fetch \in {"unplanned", "ok"}
  /\ \A i \in DOMAIN results : results[i].attempts # <<>> =>
        results[i].image /\ results[i].fetch \in {"unplanned", "ok"}

\* A public PASS claim stands on attempts alone: every planned scenario ran,
\* and either passed at its first attempt or failed at least twice, always with
\* one signature.  Anything weaker is claimed BLOCKED (finish_scan).
PassClaimIsComplete ==
  pc = "done" /\ claim = "PASS" =>
    /\ Len(results) = Planned
    /\ \A i \in DOMAIN results : LET a == results[i].attempts IN
         \/ Len(a) = 1 /\ Passed(a[1])
         \/ /\ Len(a) >= 2 /\ Passes(a) = {}
            /\ \A j, k \in DOMAIN a : a[j].failure.hash = a[k].failure.hash

\* Every scan ends, sealed by the CLI or abandoned, whatever the engine answers.
ScanEnds == <>(pc \in {"done", "aborted"})

=============================================================================
