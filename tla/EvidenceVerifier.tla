--------------------------- MODULE EvidenceVerifier ---------------------------
(***************************************************************************)
(* The semantic half of verify_run: what the offline verifier re-derives   *)
(* from a finished bundle without trusting the scan that wrote it.  Digest *)
(* and inventory checks are in the module about the files of a bundle.     *)
(*                                                                         *)
(* A bundle is a record: planned scenarios, one entry per result (the      *)
(* result joined with its scenario directory), frontier, and the status of *)
(* the public claim.                                                       *)
(***************************************************************************)
EXTENDS Verdicts

CONSTANT RerunsOnFailure

ASSUME RerunsAssumption == RerunsOnFailure \in Nat \ {0}

\* verify_test_attempts on a completed summary
CompletedOk(is_baseline, r) ==
  LET n       == Len(r.attempts)
      verdict == TestVerdict(is_baseline, r.attempts)
  IN  /\ n > 0
      /\ is_baseline => n = 1
      /\ ~is_baseline => /\ n <= RerunsOnFailure
                         /\ \A i \in Passes(r.attempts) : i = n
      /\ r.verdict = verdict
      /\ r.attempt = n
      /\ r.exit_code = r.attempts[n].exit_code
      /\ r.timed_out = r.attempts[n].timed_out
      /\ r.failure = IF verdict = "Flaky" THEN LastFailure(r.attempts)
                                          ELSE r.attempts[n].failure

\* verify_test_attempts: the attempt records, then the rule of their status
TestAttemptsOk(is_baseline, r) ==
  /\ \A i \in DOMAIN r.attempts :
        Passed(r.attempts[i]) <=> r.attempts[i].failure = NoFailure
  /\ \/ r.status = "Completed" /\ CompletedOk(is_baseline, r)
     \/ /\ r.status = "NotRun"
        /\ r.attempts = <<>> /\ r.attempt = 0
        /\ r.verdict \in {"Blocked", "Unsupported"}
     \/ /\ r.status = "ExecutionError"
        /\ r.attempt = Len(r.attempts)
        /\ r.verdict = "Blocked"

\* verify_current_scenario_semantics: phases, attempts, failure file
ScenarioOk(is_baseline, r) ==
  /\ ~(r.image /\ r.fetch = "planned")
  /\ TestAttemptsOk(is_baseline, r)
  /\ is_pass_like(r.verdict) => r.failure = NoFailure

\* verify_cross_file_closure: which scenarios must and must not have results
ResultsOk(planned, results) ==
  /\ Len(results) <= planned
  /\ planned > 0 => results # <<>>
  /\ results # <<>> => IF results[1].verdict = "BaselinePass"
                       THEN Len(results) = planned
                       ELSE Len(results) = 1
  /\ \A i \in DOMAIN results : ScenarioOk(i = 1, results[i])

\* verify_frontier_semantics: the frontier, re-derived from results and attempts
ExpectedFrontier(results) ==
  LET baseline_ok == results # <<>> /\ results[1].verdict = "BaselinePass"
      first       == FirstOf(FutureFails(results))
      confirmed   == /\ first # 0
                     /\ results[first].status = "Completed"
                     /\ Len(results[first].attempts) >= 2
                     /\ Passes(results[first].attempts) = {}
  IN  compute_breakage_frontier(baseline_ok, results, confirmed, first)

Undecided == {"Blocked", "Unsupported", "Inconclusive", "CoverageIncomplete",
              "BaselineInvalid", "Flaky"}

\* verify_claim_semantics
ClaimOk(results, claim) ==
  claim = "PASS" => /\ results # <<>>
                    /\ \A i \in DOMAIN results : results[i].verdict \notin Undecided

verify_run(planned, results, frontier, claim) ==
  /\ ResultsOk(planned, results)
  /\ frontier = ExpectedFrontier(results)
  /\ ClaimOk(results, claim)

=============================================================================
