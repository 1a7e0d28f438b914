------------------------------- MODULE Verdicts -------------------------------
(***************************************************************************)
(* The pure verdict algorithms of crates/core: what one container          *)
(* execution yields, how its failure is normalised, how the attempts of a  *)
(* scenario become one verdict, and when an ordered list of results        *)
(* authorises a breakage horizon.  The scan that produces a bundle and the *)
(* verifier that re-derives it both use these operators, as both call      *)
(* these functions.                                                        *)
(***************************************************************************)
EXTENDS Integers, Sequences

CONSTANT Diagnostics  \* the distinct outputs a failing command can print

None == "none"               \* an absent Option<_>
TimeoutHash  == "timeout"    \* the constant hash of a timed-out execution
CoverageHash == "coverage"   \* the hash of a valid trial-coverage report
BlockedHash  == "blocked"    \* the hash of an orchestration error message

ReservedHashes == {None, TimeoutHash, CoverageHash, BlockedHash}

ASSUME DiagnosticsAssumption == Diagnostics \cap ReservedHashes = {}

Failure(kind, hash) == [kind |-> kind, hash |-> hash]
NoFailure == Failure(None, None)

-----------------------------------------------------------------------------
(* One execution.  The exit code is absent when the deadline passed or a
   signal ended the client; report says whether the output holds one valid
   trial-coverage record, and diag is the rest of the output.              *)
ExitCodes == {"0", "1", "6", None}

\* Exit code 0 within the deadline.
Passed(x) == x.exit_code = "0" /\ ~x.timed_out

RawResults ==
  {raw \in [exit_code : ExitCodes, timed_out : BOOLEAN, report : BOOLEAN,
            diag : Diagnostics \cup {None}] :
     /\ raw.timed_out => raw.exit_code = None
     /\ raw.report => raw.exit_code = "6"
     /\ raw.diag = None <=> (Passed(raw) \/ raw.report)}

normalize_failure(raw) ==
  IF raw.exit_code = "6" /\ ~raw.timed_out /\ raw.report
  THEN Failure("coverage", CoverageHash)
  ELSE IF raw.timed_out THEN Failure("timeout", TimeoutHash)
                        ELSE Failure("failure", raw.diag)

\* A TestAttemptRecord carries a failure exactly when the attempt failed.
AttemptRecord(raw) ==
  [exit_code |-> raw.exit_code, timed_out |-> raw.timed_out,
   failure |-> IF Passed(raw) THEN NoFailure ELSE normalize_failure(raw)]

is_coverage_attempt(a) ==
  a.exit_code = "6" /\ ~a.timed_out /\ a.failure.kind = "coverage"

Passes(attempts)   == {i \in DOMAIN attempts : Passed(attempts[i])}
Coverage(attempts) == {i \in DOMAIN attempts : is_coverage_attempt(attempts[i])}

-----------------------------------------------------------------------------
VerdictSet == {"BaselinePass", "BaselineInvalid", "FuturePass", "FutureFail",
               "CoverageIncomplete", "Flaky", "Blocked", "Unsupported",
               "Inconclusive"}

is_pass_like(v) == v \in {"BaselinePass", "FuturePass"}

\* Mutant: failures of any kind are one failure.
Repeatable_any_failure(attempts) == Len(attempts) >= 2

\* Two or more failures that normalise to one recorded hash.
Repeatable(attempts) ==
  /\ Len(attempts) >= 2
  /\ attempts[1].failure.hash # None
  /\ \A i \in DOMAIN attempts : attempts[i].failure.hash = attempts[1].failure.hash

\* Mutant: the last attempt decides, so a retry launders a flake into a pass.
classify_candidate_attempts_last(attempts) ==
  IF attempts = <<>> THEN "Inconclusive"
  ELSE IF Passed(attempts[Len(attempts)]) THEN "FuturePass"
  ELSE IF Repeatable(attempts) THEN "FutureFail" ELSE "Inconclusive"

classify_candidate_attempts(attempts) ==
  IF attempts = <<>> THEN "Inconclusive"
  ELSE IF Coverage(attempts) = DOMAIN attempts THEN "CoverageIncomplete"
  ELSE IF Coverage(attempts) # {} THEN "Inconclusive"
  ELSE IF Passes(attempts) = DOMAIN attempts THEN "FuturePass"
  ELSE IF Passes(attempts) # {} THEN "Flaky"
  ELSE IF Repeatable(attempts) THEN "FutureFail" ELSE "Inconclusive"

\* The verdict of a completed test phase: the baseline runs once.
TestVerdict(is_baseline, attempts) ==
  IF attempts # <<>> /\ Coverage(attempts) = DOMAIN attempts THEN "CoverageIncomplete"
  ELSE IF ~is_baseline THEN classify_candidate_attempts(attempts)
  ELSE IF Passes(attempts) # {} THEN "BaselinePass" ELSE "BaselineInvalid"

\* The failure of the last attempt that recorded one.
LastFailure(attempts) ==
  LET failed == {i \in DOMAIN attempts : attempts[i].failure # NoFailure} IN
  IF failed = {} THEN NoFailure
  ELSE attempts[CHOOSE i \in failed : \A j \in failed : j <= i].failure

-----------------------------------------------------------------------------
(* The horizon.  results[i] is the result of the i-th planned scenario, the
   baseline being the first; 0 stands for no scenario.                     *)
FutureFails(results) ==
  {i \in DOMAIN results : i # 1 /\ results[i].verdict = "FutureFail"}

FirstOf(S) == IF S = {} THEN 0 ELSE CHOOSE i \in S : \A j \in S : i <= j
LastOf(S)  == IF S = {} THEN 0 ELSE CHOOSE i \in S : \A j \in S : j <= i

NoHorizon(first, last, failure) ==
  [observed |-> FALSE, first_failing |-> first, last_passing |-> last,
   failure |-> failure, replay |-> 0]

\* The search stops at the first failure: later passes are not looked at.
PassesBefore(results, first) ==
  {i \in DOMAIN results : is_pass_like(results[i].verdict) /\ (first = 0 \/ i < first)}

compute_breakage_frontier(baseline_ok, results, confirmed, replay) ==
  LET first == FirstOf(FutureFails(results))
      last  == LastOf(PassesBefore(results, first))
  IN  IF ~baseline_ok THEN NoHorizon(0, 0, NoFailure)
      ELSE IF first = 0 THEN NoHorizon(0, last, NoFailure)
      ELSE IF ~confirmed THEN NoHorizon(first, last, results[first].failure)
      ELSE [observed |-> TRUE, first_failing |-> first, last_passing |-> last,
            failure |-> results[first].failure, replay |-> replay]

=============================================================================
