------------------------------ MODULE Scan_proofs ------------------------------
(***************************************************************************)
(* Proofs about Scan for every number of scenarios, every rerun budget and *)
(* every set of diagnostics.                                               *)
(***************************************************************************)
EXTENDS Scan, WellFoundedInduction, TLAPS

-----------------------------------------------------------------------------
(* What the choices of the horizon name. *)

\* A nonempty set of naturals has the least element FirstOf names.
LEMMA FirstOfLeast ==
  ASSUME NEW S \in SUBSET Nat, S # {}
  PROVE  FirstOf(S) \in S /\ \A j \in S : FirstOf(S) <= j
<1>1. PICK x \in S : \A y \in S : <<y, x>> \notin OpToRel(<, Nat)
  BY NatLessThanWellFounded, WFMin
<1>2. \A y \in S : ~(y < x)
  BY <1>1, Zenon DEF OpToRel
<1>3. \A y \in S : x <= y
  BY <1>2
<1> QED
  BY <1>3 DEF FirstOf

\* A nonempty set of positions up to n has the greatest element LastOf names.
LEMMA LastOfGreatest ==
  ASSUME NEW n \in Nat, NEW S \in SUBSET (1..n), S # {}
  PROVE  LastOf(S) \in S /\ \A j \in S : j <= LastOf(S)
<1> DEFINE D == {d \in 0..n : n - d \in S}
<1>1. D \in SUBSET Nat /\ D # {}
  <2>1. PICK m : m \in S
    OBVIOUS
  <2>2. n - m \in D
    BY <2>1
  <2> QED
    BY <2>2
<1>2. PICK x \in D : \A y \in D : x <= y
  <2> HIDE DEF D
  <2> QED
    BY <1>1, FirstOfLeast
<1>3. n - x \in S
  BY <1>2
<1>4. ASSUME NEW j \in S
      PROVE  j <= n - x
  <2>1. n - j \in D
    OBVIOUS
  <2>2. x <= n - j
    <3> HIDE DEF D
    <3> QED
      BY <1>2, <2>1
  <2> QED
    BY <2>2
<1> QED
  BY <1>3, <1>4 DEF LastOf

-----------------------------------------------------------------------------
LEMMA BlockedType == Blocked \in Failures
BY DEF Blocked, Failure, Failures, Hashes, ReservedHashes

LEMMA NoFailureType == NoFailure \in Failures
BY DEF NoFailure, Failure, Failures, Hashes, ReservedHashes, None

\* What the engine reports of one execution, and the failure it normalises to.
LEMMA RawResultType ==
  ASSUME NEW raw \in RawResults
  PROVE  /\ raw.exit_code \in ExitCodes /\ raw.timed_out \in BOOLEAN
         /\ normalize_failure(raw) \in Failures
BY DEF RawResults, normalize_failure, Failure, Failures, Hashes, ReservedHashes

\* What one execution records is a TestAttemptRecord.
LEMMA AttemptRecordType ==
  ASSUME NEW raw \in RawResults
  PROVE  AttemptRecord(raw) \in Records
BY RawResultType, NoFailureType DEF AttemptRecord, Records

\* A result of a scenario whose tests never ran is an ExecutionResult.
LEMMA NotRunType ==
  ASSUME NEW verdict \in VerdictSet, NEW code \in ExitCodes, NEW late \in BOOLEAN,
         NEW failure \in Failures, NEW image \in BOOLEAN,
         NEW phase \in {"unplanned", "planned", "error", "failed", "ok"}
  PROVE  NotRun(verdict, code, late, failure, image, phase) \in ResultRecords
BY DEF NotRun, Result, ResultRecords

\* The failure of the last failing attempt, if there is one, was recorded.
LEMMA LastFailureType ==
  ASSUME NEW a \in Seq(Records)
  PROVE  LastFailure(a) \in Failures
<1> DEFINE failed == {i \in DOMAIN a : a[i].failure # NoFailure}
<1>1. CASE failed = {}
  BY <1>1, NoFailureType DEF LastFailure
<1>2. CASE failed # {}
  <2>1. failed \in SUBSET (1..Len(a)) /\ Len(a) \in Nat
    OBVIOUS
  <2>2. LastOf(failed) \in failed
    <3> HIDE DEF failed
    <3> QED
      BY <1>2, <2>1, LastOfGreatest
  <2>3. a[LastOf(failed)] \in Records
    BY <2>1, <2>2
  <2>4. a[LastOf(failed)].failure \in Failures
    BY <2>3 DEF Records
  <2> QED
    BY <1>2, <2>4 DEF LastFailure, LastOf
<1> QED
  BY <1>1, <1>2

\* The attempts of a scenario always yield one of the verdicts.
LEMMA TestVerdictType ==
  ASSUME NEW b \in BOOLEAN, NEW a
  PROVE  TestVerdict(b, a) \in VerdictSet
BY DEF TestVerdict, classify_candidate_attempts, VerdictSet

\* A frontier is one whatever the search finds.
LEMMA FrontierType ==
  ASSUME NEW rs \in Seq(ResultRecords), Len(rs) <= Planned,
         NEW ok \in BOOLEAN, NEW c \in BOOLEAN, NEW replay \in 0..Planned
  PROVE  compute_breakage_frontier(ok, rs, c, replay) \in Frontiers
<1> DEFINE fails == FutureFails(rs)
           first == FirstOf(fails)
           passes == PassesBefore(rs, first)
           last == LastOf(passes)
<1>1. fails \in SUBSET (1..Len(rs)) /\ passes \in SUBSET (1..Len(rs))
  BY DEF FutureFails, PassesBefore
<1>2. Len(rs) \in Nat /\ Planned \in Nat
  BY PlannedAssumption
<1>3. first \in 0..Planned /\ (first # 0 => first \in DOMAIN rs)
  <2>1. CASE fails = {}
    BY <2>1, <1>2 DEF FirstOf
  <2>2. CASE fails # {}
    <3>1. first \in fails
      BY <2>2, <1>1, FirstOfLeast
    <3> QED
      BY <3>1, <1>1, <1>2
  <2> QED
    BY <2>1, <2>2
<1>4. last \in 0..Planned
  <2>1. CASE passes = {}
    BY <2>1, <1>2 DEF LastOf
  <2>2. CASE passes # {}
    <3>1. last \in passes
      BY <2>2, <1>1, <1>2, LastOfGreatest
    <3> QED
      BY <3>1, <1>1, <1>2
  <2> QED
    BY <2>1, <2>2
<1>5. first # 0 => rs[first].failure \in Failures
  <2> HIDE DEF first
  <2>1. first # 0 => rs[first] \in ResultRecords
    BY <1>3
  <2> QED
    BY <2>1 DEF ResultRecords
<1>6. 0 \in 0..Planned
  BY <1>2
<1> HIDE DEF fails, first, passes, last
<1>7. /\ NoHorizon(0, 0, NoFailure) \in Frontiers
      /\ NoHorizon(0, last, NoFailure) \in Frontiers
      /\ first # 0 => NoHorizon(first, last, rs[first].failure) \in Frontiers
  BY <1>3, <1>4, <1>5, <1>6, NoFailureType DEF NoHorizon, Frontiers
<1>8. first # 0 =>
        [observed |-> TRUE, first_failing |-> first, last_passing |-> last,
         failure |-> rs[first].failure, replay |-> replay] \in Frontiers
  BY <1>3, <1>4, <1>5 DEF Frontiers
<1> QED
  BY <1>7, <1>8 DEF compute_breakage_frontier, first, last, fails, passes

-----------------------------------------------------------------------------
\* Where the scan is in its plan: before a scenario runs, the results are those
\* of the scenarios up to index; while it runs, those of the ones before it.
Position ==
  /\ Len(results) <= Planned
  /\ pc = "engine" => index = 0 /\ results = <<>>
  /\ pc = "next" => Len(results) = index
  /\ pc \in {"image", "fetch", "test", "classify"} => Len(results) = index - 1
  /\ pc = "classify" => attempts # <<>>

Typed == TypeOK /\ Position

\* Recording a result appends it and leaves the earlier ones alone.
LEMMA RecordAppends ==
  ASSUME Typed, pc \in {"image", "fetch", "test", "classify"},
         NEW r \in ResultRecords, Record(r), UNCHANGED index
  PROVE  /\ results' \in Seq(ResultRecords) /\ Len(results') = index
         /\ results'[index] = r
         /\ \A i \in 1..(index - 1) : results'[i] = results[i]
         /\ pc' \in {"next", "finalize"}
         /\ index \in 1..Planned
BY PlannedAssumption DEF Typed, TypeOK, Position, Record, AfterResult

\* Classify records one result, of the verdict the attempts yield.
LEMMA ClassifyRecords ==
  ASSUME Typed, Classify
  PROVE  /\ results' \in Seq(ResultRecords) /\ Len(results') = index
         /\ pc' \in {"next", "finalize"} /\ index \in 1..Planned
         /\ \A i \in 1..(index - 1) : results'[i] = results[i]
         /\ results'[index].verdict = TestVerdict(is_baseline, attempts)
         /\ results'[index].status = "Completed"
         /\ results'[index].attempts = attempts
         /\ baseline_ok' \in BOOLEAN /\ confirmed' \in BOOLEAN
         /\ first_fail' \in 0..Planned
         /\ UNCHANGED <<index, fetch, attempts, frontier, claim>>
<1> DEFINE verdict == TestVerdict(is_baseline, attempts)
           last == attempts[Len(attempts)]
           r == Result(verdict, Len(attempts), last.exit_code, last.timed_out,
                       RecordedFailure(verdict), "Completed", attempts, TRUE, fetch)
<1>1. /\ pc = "classify" /\ Record(r)
      /\ UNCHANGED <<index, fetch, attempts, frontier, claim>>
  BY DEF Classify
<1>2. verdict \in VerdictSet
  BY TestVerdictType DEF is_baseline
<1>3. /\ attempts \in Seq(Records) /\ Len(attempts) \in DOMAIN attempts
      /\ last \in Records
  BY <1>1 DEF Typed, TypeOK, Position
<1>4. RecordedFailure(verdict) \in Failures
  <2> HIDE DEF verdict
  <2> QED
    BY <1>3, NoFailureType, LastFailureType DEF RecordedFailure, Records
<1>5. r \in ResultRecords
  <2> HIDE DEF verdict, last
  <2>1. last.exit_code \in ExitCodes /\ last.timed_out \in BOOLEAN
    BY <1>3 DEF Records
  <2> QED
    BY <1>2, <1>3, <1>4, <2>1 DEF Result, ResultRecords, Typed, TypeOK
<1>6. /\ r.verdict = verdict /\ r.status = "Completed" /\ r.attempts = attempts
  BY DEF Result
<1>7. /\ baseline_ok' \in BOOLEAN /\ confirmed' \in BOOLEAN
      /\ first_fail' \in {index, first_fail}
  BY DEF Classify, Typed, TypeOK, is_baseline
<1> HIDE DEF r, verdict
<1>8. /\ results' \in Seq(ResultRecords) /\ Len(results') = index
      /\ results'[index] = r
      /\ \A i \in 1..(index - 1) : results'[i] = results[i]
      /\ pc' \in {"next", "finalize"} /\ index \in 1..Planned
  BY <1>1, <1>5, RecordAppends
<1>9. first_fail' \in 0..Planned
  BY <1>7, <1>8 DEF Typed, TypeOK
<1> QED
  BY <1>1, <1>6, <1>7, <1>8, <1>9 DEF verdict

\* The type invariant, with the position of the scan, is inductive.
LEMMA TypedStep ==
  ASSUME Typed, [Next]_vars
  PROVE  Typed'
<1> USE PlannedAssumption DEF Typed, Position
<1>1. CASE EngineFound
  BY <1>1 DEF EngineFound, TypeOK, Phases
<1>2. CASE NoEngine
  <2>1. /\ results' \in Seq(ResultRecords) /\ Len(results') = 1
    <3>1. PICK phase \in {"unplanned", "planned"} :
            results' = <<NotRun("Blocked", None, FALSE, Blocked, FALSE, phase)>>
      BY <1>2 DEF NoEngine
    <3>2. NotRun("Blocked", None, FALSE, Blocked, FALSE, phase) \in ResultRecords
      BY NotRunType, BlockedType DEF VerdictSet, ExitCodes
    <3>3. PICK r \in ResultRecords : results' = <<r>>
      BY <3>1, <3>2
    <3> QED
      BY <3>3
  <2>2. /\ frontier' = compute_breakage_frontier(FALSE, results', FALSE, 0)
        /\ claim' = "BLOCKED" /\ pc' \in {"sealed", "aborted"}
        /\ UNCHANGED <<index, fetch, attempts, baseline_ok, first_fail, confirmed>>
    BY <1>2 DEF NoEngine
  <2>3. frontier' \in Frontiers
    <3>1. 0 \in 0..Planned /\ Len(results') <= Planned
      BY <2>1
    <3> QED
      BY <2>1, <2>2, <3>1, FrontierType
  <2>4. TypeOK'
    BY <2>1, <2>2, <2>3 DEF TypeOK, Phases
  <2>5. Position'
    BY <2>1, <2>2
  <2> QED
    BY <2>4, <2>5
<1>3. CASE NextScenario
  BY <1>3 DEF NextScenario, TypeOK, Phases
<1>4. CASE PlanExhausted
  BY <1>4 DEF PlanExhausted, TypeOK, Phases
<1>5. CASE ImageResolved
  BY <1>5 DEF ImageResolved, TypeOK, Phases
<1>6. ASSUME NEW r \in ResultRecords, RecordNotRun(r), pc \in {"image", "fetch"}
      PROVE  Typed'
  <2>1. Record(r) /\ UNCHANGED <<index, fetch, attempts, baseline_ok, first_fail,
                                 confirmed, frontier, claim>>
    BY <1>6 DEF RecordNotRun
  <2>2. /\ results' \in Seq(ResultRecords) /\ Len(results') = index
        /\ pc' \in {"next", "finalize"} /\ index \in 1..Planned
    BY <1>6, <2>1, RecordAppends
  <2> QED
    BY <2>1, <2>2 DEF TypeOK, Phases
<1>7. CASE ImageBlocked
  <2>1. PICK phase \in {"unplanned", "planned"} :
          RecordNotRun(NotRun("Blocked", None, FALSE, Blocked, FALSE, phase))
    BY <1>7 DEF ImageBlocked
  <2>2. NotRun("Blocked", None, FALSE, Blocked, FALSE, phase) \in ResultRecords
    BY NotRunType, BlockedType DEF VerdictSet, ExitCodes
  <2> QED
    BY <1>6, <1>7, <2>1, <2>2 DEF ImageBlocked
<1>8. CASE FetchUnsupported
  <2>1. NotRun("Unsupported", None, FALSE, Blocked, TRUE, "unplanned") \in ResultRecords
    BY NotRunType, BlockedType DEF VerdictSet, ExitCodes
  <2> QED
    BY <1>6, <1>8, <2>1 DEF FetchUnsupported
<1>9. CASE FetchReady
  BY <1>9 DEF FetchReady, TypeOK, Phases
<1>10. CASE FetchExecutionError
  <2>1. NotRun("Blocked", None, FALSE, Blocked, TRUE, "error") \in ResultRecords
    BY NotRunType, BlockedType DEF VerdictSet, ExitCodes
  <2> QED
    BY <1>6, <1>10, <2>1 DEF FetchExecutionError
<1>11. CASE FetchFailed
  <2>1. PICK raw \in RawResults :
          RecordNotRun(NotRun("Blocked", raw.exit_code, raw.timed_out,
                              normalize_failure(raw), TRUE, "failed"))
    BY <1>11 DEF FetchFailed
  <2>2. /\ raw.exit_code \in ExitCodes /\ raw.timed_out \in BOOLEAN
        /\ normalize_failure(raw) \in Failures
    BY RawResultType
  <2>3. NotRun("Blocked", raw.exit_code, raw.timed_out,
               normalize_failure(raw), TRUE, "failed") \in ResultRecords
    BY <2>2, NotRunType DEF VerdictSet
  <2> QED
    BY <1>6, <1>11, <2>1, <2>3 DEF FetchFailed
<1>12. CASE TestAttempt
  <2>1. PICK raw \in RawResults : attempts' = Append(attempts, AttemptRecord(raw))
    BY <1>12 DEF TestAttempt
  <2>2. attempts' \in Seq(Records) /\ attempts' # <<>>
    BY <2>1, AttemptRecordType DEF TypeOK
  <2>3. pc' \in {"classify", "test"}
    BY <1>12 DEF TestAttempt
  <2> QED
    BY <1>12, <2>2, <2>3 DEF TestAttempt, TypeOK, Phases
<1>13. CASE TestExecutionError
  <2> DEFINE r == Result("Blocked", Len(attempts), None, FALSE, Blocked,
                         "ExecutionError", attempts, TRUE, fetch)
  <2>1. r \in ResultRecords
    BY BlockedType DEF TypeOK, Result, ResultRecords, VerdictSet, ExitCodes
  <2>2. Record(r) /\ UNCHANGED <<index, fetch, attempts, baseline_ok, first_fail,
                                 confirmed, frontier, claim>> /\ pc = "test"
    BY <1>13 DEF TestExecutionError
  <2> HIDE DEF r
  <2>3. /\ results' \in Seq(ResultRecords) /\ Len(results') = index
        /\ pc' \in {"next", "finalize"} /\ index \in 1..Planned
    BY <2>1, <2>2, RecordAppends
  <2> QED
    BY <2>2, <2>3 DEF TypeOK, Phases
<1>14. CASE Classify
  BY <1>14, ClassifyRecords DEF TypeOK, Phases
<1>15. CASE Finalize
  <2>1. frontier' \in Frontiers
    BY <1>15, FrontierType DEF Finalize, TypeOK
  <2> QED
    BY <1>15, <2>1 DEF Finalize, TypeOK, Phases
<1>16. CASE FinishScan
  <2>1. claim' \in {"BLOCKED", "PASS"} /\ pc' \in {"done", "aborted"}
    BY <1>16 DEF FinishScan, FinalClaim
  <2> QED
    BY <1>16, <2>1 DEF FinishScan, TypeOK, Phases
<1>17. CASE Abort
  BY <1>17 DEF Abort, TypeOK, Phases
<1>18. CASE UNCHANGED vars
  BY <1>18 DEF vars, TypeOK
<1> QED
  BY <1>1, <1>2, <1>3, <1>4, <1>5, <1>7, <1>8, <1>9, <1>10, <1>11, <1>12, <1>13,
     <1>14, <1>15, <1>16, <1>17, <1>18 DEF Next, Step, Scenario

\* The scan starts typed, at the head of its plan.
LEMMA TypedInit ==
  ASSUME Init
  PROVE  Typed
<1>1. 0 \in 0..Planned /\ Planned \in Nat
  BY PlannedAssumption
<1>2. NoHorizon(0, 0, NoFailure) \in Frontiers
  BY <1>1, NoFailureType DEF NoHorizon, Frontiers
<1>3. attempts \in Seq(Records) /\ results \in Seq(ResultRecords)
  BY DEF Init
<1>4. frontier \in Frontiers
  BY <1>2 DEF Init
<1>5. TypeOK
  BY <1>1, <1>3, <1>4 DEF Init, TypeOK, Phases
<1>6. Position
  BY <1>1 DEF Init, Position
<1> QED
  BY <1>5, <1>6 DEF Typed

\* The type invariant holds for every plan, rerun budget and set of diagnostics.
THEOREM TypeCorrect == Spec => []TypeOK
<1>1. Init => Typed
  BY TypedInit
<1>2. Typed /\ [Next]_vars => Typed'
  BY TypedStep
<1>3. Typed => TypeOK
  BY DEF Typed
<1> QED
  BY <1>1, <1>2, <1>3, PTL DEF Spec

-----------------------------------------------------------------------------
\* What the recorded results say of the failure that may become a horizon.
RepeatedFailure(r) ==
  /\ r.status = "Completed"
  /\ Len(r.attempts) >= 2
  /\ \A i, j \in DOMAIN r.attempts :
       /\ ~Passed(r.attempts[i])
       /\ r.attempts[i].failure.hash = r.attempts[j].failure.hash

Evidence ==
  /\ baseline_ok => results # <<>> /\ results[1].verdict = "BaselinePass"
  /\ \A i \in DOMAIN results : results[i].verdict = "FutureFail" =>
       i # 1 /\ RepeatedFailure(results[i])
  /\ frontier.observed => pc \in {"sealed", "done", "aborted"} /\ HorizonAuthorized

\* Only attempts that all failed, with one signature, make a FUTURE_FAIL.
LEMMA FutureFailRepeats ==
  ASSUME NEW b \in BOOLEAN, NEW a \in Seq(Records), TestVerdict(b, a) = "FutureFail"
  PROVE  /\ ~b /\ Len(a) >= 2
         /\ \A i, j \in DOMAIN a :
              ~Passed(a[i]) /\ a[i].failure.hash = a[j].failure.hash
<1>1. ~b /\ classify_candidate_attempts(a) = "FutureFail"
  BY DEF TestVerdict
<1>2. Repeatable(a) /\ Passes(a) = {}
  BY <1>1 DEF classify_candidate_attempts
<1>3. Len(a) >= 2 /\ \A i \in DOMAIN a : a[i].failure.hash = a[1].failure.hash
  BY <1>2 DEF Repeatable
<1>4. \A i \in DOMAIN a : ~Passed(a[i])
  BY <1>2 DEF Passes
<1> QED
  BY <1>1, <1>3, <1>4

\* Appending a result keeps the evidence when the result itself is sound.
LEMMA EvidenceGrows ==
  ASSUME Typed, Evidence, pc \in {"image", "fetch", "test", "classify"},
         Typed', Len(results') = index, index \in 1..Planned,
         \A i \in 1..(index - 1) : results'[i] = results[i],
         results'[index].verdict = "FutureFail" =>
           index # 1 /\ RepeatedFailure(results'[index]),
         baseline_ok' => \/ baseline_ok
                         \/ index = 1 /\ results'[1].verdict = "BaselinePass",
         UNCHANGED frontier
  PROVE  Evidence'
<1>1. Len(results) = index - 1 /\ index \in Nat
  BY DEF Typed, Position
<1>2. DOMAIN results' = 1..index /\ DOMAIN results = 1..(index - 1)
  BY <1>1 DEF Typed, TypeOK
<1>3. ~frontier'.observed
  BY DEF Evidence
<1>4. \A i \in DOMAIN results' : results'[i].verdict = "FutureFail" =>
        i # 1 /\ RepeatedFailure(results'[i])
  <2> SUFFICES ASSUME NEW i \in 1..index, results'[i].verdict = "FutureFail"
               PROVE  i # 1 /\ RepeatedFailure(results'[i])
    BY <1>2
  <2>1. CASE i = index
    BY <2>1
  <2>2. CASE i # index
    <3>1. i \in DOMAIN results /\ results'[i] = results[i]
      BY <2>2, <1>1, <1>2
    <3> QED
      BY <3>1 DEF Evidence
  <2> QED
    BY <2>1, <2>2
<1>5. baseline_ok' => results' # <<>> /\ results'[1].verdict = "BaselinePass"
  <2>1. results' # <<>>
    BY <1>1
  <2>2. CASE baseline_ok
    <3>1. results # <<>> /\ results[1].verdict = "BaselinePass"
      BY <2>2 DEF Evidence
    <3>2. 1 \in 1..(index - 1)
      BY <3>1, <1>1 DEF Typed, TypeOK
    <3> QED
      BY <2>1, <3>1, <3>2
  <2> QED
    BY <2>1, <2>2
<1> QED
  BY <1>3, <1>4, <1>5 DEF Evidence

\* The search over sound results authorises only sound horizons.
LEMMA HorizonSound ==
  ASSUME Typed, Evidence, NEW c \in BOOLEAN, NEW replay,
         compute_breakage_frontier(baseline_ok, results, c, replay).observed
  PROVE  LET fr == compute_breakage_frontier(baseline_ok, results, c, replay)
             f  == fr.first_failing
         IN  /\ f \in 2..Len(results)
             /\ results[1].verdict = "BaselinePass"
             /\ results[f].verdict = "FutureFail" /\ RepeatedFailure(results[f])
             /\ \A i \in 1..(f - 1) : results[i].verdict # "FutureFail"
             /\ fr.last_passing \in 1..(f - 1)
<1> DEFINE fails == FutureFails(results)
           first == FirstOf(fails)
           passes == PassesBefore(results, first)
           last == LastOf(passes)
           fr == compute_breakage_frontier(baseline_ok, results, c, replay)
<1>1. /\ baseline_ok /\ first # 0
      /\ fr.first_failing = first /\ fr.last_passing = last
  BY DEF compute_breakage_frontier, NoHorizon
<1>2. /\ results \in Seq(ResultRecords) /\ Len(results) \in Nat
      /\ DOMAIN results = 1..Len(results)
  BY DEF Typed, TypeOK
<1>3. fails \in SUBSET Nat /\ fails # {}
  BY <1>1, <1>2 DEF FutureFails, FirstOf
<1>4. first \in fails /\ \A i \in fails : first <= i
  <2> HIDE DEF fails
  <2> QED
    BY <1>3, FirstOfLeast
<1>5. /\ first \in 1..Len(results) /\ first # 1
      /\ results[first].verdict = "FutureFail"
  BY <1>2, <1>4 DEF FutureFails
<1>6. results[1].verdict = "BaselinePass" /\ RepeatedFailure(results[first])
  BY <1>1, <1>2, <1>5 DEF Evidence
<1>7. \A i \in 1..(first - 1) : results[i].verdict # "FutureFail"
  <2> SUFFICES ASSUME NEW i \in 1..(first - 1), results[i].verdict = "FutureFail"
               PROVE  FALSE
    OBVIOUS
  <2>1. i # 1 /\ i \in DOMAIN results
    BY <1>2, <1>5, <1>6
  <2>2. i \in fails
    BY <2>1 DEF FutureFails
  <2> QED
    BY <2>2, <1>4, <1>5
<1>8. passes \in SUBSET (1..(first - 1)) /\ 1 \in passes
  BY <1>1, <1>2, <1>5, <1>6 DEF PassesBefore, is_pass_like
<1>9. last \in 1..(first - 1)
  <2> HIDE DEF passes, first
  <2>1. first - 1 \in Nat
    BY <1>5
  <2> QED
    BY <1>8, <2>1, LastOfGreatest
<1>10. first \in 2..Len(results)
  BY <1>2, <1>5
<1> HIDE DEF first, last
<1> QED
  BY <1>1, <1>5, <1>6, <1>7, <1>9, <1>10

-----------------------------------------------------------------------------
\* A step that changes neither results nor frontier nor baseline_ok.
LEMMA EvidenceKept ==
  ASSUME Evidence, UNCHANGED <<results, frontier, baseline_ok>>,
         \/ pc \in Running
         \/ pc' \in {"sealed", "done", "aborted"}
  PROVE  Evidence'
<1>1. frontier.observed => pc \notin Running
  BY DEF Evidence, Running
<1>2. HorizonAuthorized' <=> HorizonAuthorized
  BY DEF HorizonAuthorized
<1> QED
  BY <1>1, <1>2 DEF Evidence

\* The evidence invariant is inductive relative to the type invariant.
LEMMA EvidenceStep ==
  ASSUME Typed, Evidence, Typed', [Next]_vars
  PROVE  Evidence'
<1>1. ASSUME pc \in Running, UNCHANGED <<results, frontier, baseline_ok>>
      PROVE  Evidence'
  BY <1>1, EvidenceKept
<1>2. CASE \/ EngineFound \/ NextScenario \/ PlanExhausted \/ ImageResolved
           \/ FetchReady \/ TestAttempt \/ Abort
  BY <1>1, <1>2 DEF EngineFound, NextScenario, PlanExhausted, ImageResolved,
       FetchReady, TestAttempt, Abort, Running
<1>3. CASE NoEngine
  <2>1. ~baseline_ok
    BY <1>3 DEF NoEngine, Evidence, Typed, Position
  <2>2. PICK r : results' = <<r>> /\ r.verdict = "Blocked"
    BY <1>3 DEF NoEngine, NotRun, Result
  <2>3. ~frontier'.observed /\ ~baseline_ok'
    BY <1>3, <2>1 DEF NoEngine, compute_breakage_frontier, NoHorizon
  <2> QED
    BY <2>2, <2>3 DEF Evidence
<1>4. ASSUME NEW r \in ResultRecords, Record(r), r.verdict # "FutureFail",
             pc \in {"image", "fetch", "test", "classify"},
             UNCHANGED <<index, frontier, baseline_ok>>
      PROVE  Evidence'
  BY <1>4, RecordAppends, EvidenceGrows
<1>5. CASE ImageBlocked
  <2>1. PICK phase \in {"unplanned", "planned"} :
          RecordNotRun(NotRun("Blocked", None, FALSE, Blocked, FALSE, phase))
    BY <1>5 DEF ImageBlocked
  <2>2. NotRun("Blocked", None, FALSE, Blocked, FALSE, phase) \in ResultRecords
    BY NotRunType, BlockedType DEF VerdictSet, ExitCodes
  <2> QED
    BY <1>4, <1>5, <2>1, <2>2 DEF ImageBlocked, RecordNotRun, NotRun, Result
<1>6. CASE FetchUnsupported
  <2>1. NotRun("Unsupported", None, FALSE, Blocked, TRUE, "unplanned") \in ResultRecords
    BY NotRunType, BlockedType DEF VerdictSet, ExitCodes
  <2> QED
    BY <1>4, <1>6, <2>1 DEF FetchUnsupported, RecordNotRun, NotRun, Result
<1>7. CASE FetchExecutionError
  <2>1. NotRun("Blocked", None, FALSE, Blocked, TRUE, "error") \in ResultRecords
    BY NotRunType, BlockedType DEF VerdictSet, ExitCodes
  <2> QED
    BY <1>4, <1>7, <2>1 DEF FetchExecutionError, RecordNotRun, NotRun, Result
<1>8. CASE FetchFailed
  <2>1. PICK raw \in RawResults :
          RecordNotRun(NotRun("Blocked", raw.exit_code, raw.timed_out,
                              normalize_failure(raw), TRUE, "failed"))
    BY <1>8 DEF FetchFailed
  <2>2. NotRun("Blocked", raw.exit_code, raw.timed_out,
               normalize_failure(raw), TRUE, "failed") \in ResultRecords
    BY RawResultType, NotRunType DEF VerdictSet
  <2> QED
    BY <1>4, <1>8, <2>1, <2>2 DEF FetchFailed, RecordNotRun, NotRun, Result
<1>9. CASE TestExecutionError
  <2> DEFINE r == Result("Blocked", Len(attempts), None, FALSE, Blocked,
                         "ExecutionError", attempts, TRUE, fetch)
  <2>1. r \in ResultRecords /\ r.verdict = "Blocked"
    BY BlockedType DEF Typed, TypeOK, Result, ResultRecords, VerdictSet, ExitCodes
  <2>2. Record(r) /\ UNCHANGED <<index, frontier, baseline_ok>> /\ pc = "test"
    BY <1>9 DEF TestExecutionError
  <2> HIDE DEF r
  <2> QED
    BY <1>4, <2>1, <2>2
<1>10. CASE Classify
  <2>1. /\ results'[index].verdict = TestVerdict(is_baseline, attempts)
        /\ results'[index].status = "Completed"
        /\ results'[index].attempts = attempts
        /\ Len(results') = index /\ index \in 1..Planned
        /\ \A i \in 1..(index - 1) : results'[i] = results[i]
        /\ UNCHANGED frontier
    BY <1>10, ClassifyRecords
  <2>2. pc = "classify" /\ attempts \in Seq(Records)
    BY <1>10 DEF Classify, Typed, TypeOK
  <2>3. results'[index].verdict = "FutureFail" =>
          index # 1 /\ RepeatedFailure(results'[index])
    <3> SUFFICES ASSUME TestVerdict(is_baseline, attempts) = "FutureFail"
                 PROVE  index # 1 /\ RepeatedFailure(results'[index])
      BY <2>1
    <3>1. /\ ~is_baseline /\ Len(attempts) >= 2
          /\ \A i, j \in DOMAIN attempts :
               /\ ~Passed(attempts[i])
               /\ attempts[i].failure.hash = attempts[j].failure.hash
      BY <2>2, FutureFailRepeats DEF is_baseline
    <3> QED
      BY <2>1, <3>1 DEF is_baseline, RepeatedFailure
  <2>4. baseline_ok' => \/ baseline_ok
                        \/ index = 1 /\ results'[1].verdict = "BaselinePass"
    BY <1>10, <2>1 DEF Classify, is_baseline
  <2> QED
    BY <2>1, <2>2, <2>3, <2>4, EvidenceGrows
<1>11. CASE Finalize
  <2>1. /\ frontier' = compute_breakage_frontier(baseline_ok, results, confirmed, first_fail)
        /\ UNCHANGED <<results, baseline_ok>> /\ pc' = "sealed"
    BY <1>11 DEF Finalize
  <2>2. frontier'.observed => HorizonAuthorized'
    <3> SUFFICES ASSUME frontier'.observed PROVE HorizonAuthorized'
      OBVIOUS
    <3> DEFINE f == frontier'.first_failing
    <3>1. confirmed \in BOOLEAN
      BY DEF Typed, TypeOK
    <3>2. /\ f \in 2..Len(results)
          /\ results[1].verdict = "BaselinePass"
          /\ results[f].verdict = "FutureFail" /\ RepeatedFailure(results[f])
          /\ \A i \in 1..(f - 1) : results[i].verdict # "FutureFail"
          /\ frontier'.last_passing \in 1..(f - 1)
      BY <2>1, <3>1, HorizonSound
    <3> HIDE DEF f
    <3> QED
      BY <2>1, <3>2 DEF HorizonAuthorized, RepeatedFailure, f
  <2> QED
    BY <2>1, <2>2 DEF Evidence
<1>12. CASE FinishScan
  BY <1>12, EvidenceKept DEF FinishScan
<1>13. CASE UNCHANGED vars
  <2>1. HorizonAuthorized' <=> HorizonAuthorized
    BY <1>13 DEF vars, HorizonAuthorized
  <2> QED
    BY <1>13, <2>1 DEF vars, Evidence
<1> QED
  BY <1>2, <1>3, <1>5, <1>6, <1>7, <1>8, <1>9, <1>10, <1>11, <1>12, <1>13
     DEF Next, Step, Scenario

\* Every horizon a scan ever publishes is authorised: it follows a passing
\* baseline and names the earliest scenario whose every attempt failed with one
\* signature (compute_breakage_frontier and the loop that feeds it).
THEOREM HorizonCorrect == Spec => []HorizonAuthorized
<1>1. Init => Typed
  BY TypedInit
<1>2. Init => Evidence
  BY DEF Init, Evidence, NoHorizon
<1>3. Typed /\ Evidence /\ [Next]_vars => Typed' /\ Evidence'
  BY TypedStep, EvidenceStep
<1>4. Evidence => HorizonAuthorized
  BY DEF Evidence, HorizonAuthorized
<1> QED
  BY <1>1, <1>2, <1>3, <1>4, PTL DEF Spec

-----------------------------------------------------------------------------
(* The scan against the verifier.                                          *)

\* What verify_test_attempts asks of the records of a series.
AttemptsSound(a) == \A i \in DOMAIN a : Passed(a[i]) <=> a[i].failure = NoFailure

\* A result whose scenario was executed had its image and its dependencies.
Prepared(r) == r.status # "NotRun" => r.image /\ r.fetch \in {"unplanned", "ok"}

\* Every recorded result is one the verifier derives too.
ResultsSound ==
  \A i \in DOMAIN results : ScenarioOk(i = 1, results[i]) /\ Prepared(results[i])

\* The attempts of the scenario that runs: none passed but the last, which ends them.
InProgress ==
  /\ pc \in {"image", "fetch"} => attempts = <<>>
  /\ pc \in {"test", "classify"} => AttemptsSound(attempts)
  /\ pc = "test" => Len(attempts) < Reruns /\ Passes(attempts) = {}
  /\ pc = "classify" => Len(attempts) <= Reruns /\ \A i \in Passes(attempts) : i = Len(attempts)

\* What the baseline decides.
Gate ==
  /\ baseline_ok <=> results # <<>> /\ results[1].verdict = "BaselinePass"
  /\ results # <<>> /\ pc \in {"next", "image", "fetch", "test", "classify"} => baseline_ok
  /\ index > 1 => baseline_ok
  /\ pc = "finalize" =>
       /\ results # <<>>
       /\ results[1].verdict = "BaselinePass" => Len(results) = Planned
       /\ results[1].verdict # "BaselinePass" => Len(results) = 1

\* The scan's notes of its first failure are what a search of the results finds.
FirstFailure ==
  /\ first_fail = FirstOf(FutureFails(results))
  /\ first_fail # 0 => confirmed

Closure ==
  /\ ResultsSound /\ InProgress /\ Gate /\ FirstFailure
  /\ pc \in Running => claim = None
  /\ SealedBundleVerifies

ScanInv == Typed /\ Evidence /\ Closure

-----------------------------------------------------------------------------
\* A record carries a failure exactly when the execution failed.
LEMMA RecordSound ==
  ASSUME NEW raw \in RawResults
  PROVE  /\ Passed(AttemptRecord(raw)) <=> Passed(raw)
         /\ Passed(AttemptRecord(raw)) <=> AttemptRecord(raw).failure = NoFailure
<1>1. normalize_failure(raw).kind # None
  BY DEF normalize_failure, Failure, None
<1>2. normalize_failure(raw) # NoFailure
  BY <1>1 DEF NoFailure, Failure
<1> QED
  BY <1>2 DEF AttemptRecord, Passed

\* One more attempt after failing ones.
LEMMA AttemptsGrow ==
  ASSUME NEW a \in Seq(Records), AttemptsSound(a), Passes(a) = {}, NEW raw \in RawResults,
         NEW b, b = Append(a, AttemptRecord(raw))
  PROVE  /\ b \in Seq(Records) /\ Len(b) = Len(a) + 1
         /\ AttemptsSound(b)
         /\ \A i \in Passes(b) : i = Len(b)
         /\ ~Passed(raw) => Passes(b) = {}
<1>1. /\ b \in Seq(Records) /\ Len(b) = Len(a) + 1 /\ b[Len(b)] = AttemptRecord(raw)
      /\ \A i \in 1..Len(a) : b[i] = a[i]
      /\ DOMAIN b = 1..(Len(a) + 1) /\ Len(a) \in Nat
  BY AttemptRecordType
<1>2. \A i \in DOMAIN b : i \in DOMAIN a \/ i = Len(b)
  BY <1>1
<1>3. AttemptsSound(b)
  BY <1>1, <1>2, RecordSound DEF AttemptsSound
<1>4. \A i \in DOMAIN b : Passed(b[i]) => i = Len(b) /\ Passed(raw)
  BY <1>1, <1>2, RecordSound DEF Passes
<1> QED
  BY <1>1, <1>3, <1>4 DEF Passes

\* What Classify records.
LEMMA ClassifyResult ==
  ASSUME Typed, Classify
  PROVE  results'[index] =
           Result(TestVerdict(is_baseline, attempts), Len(attempts),
                  attempts[Len(attempts)].exit_code, attempts[Len(attempts)].timed_out,
                  RecordedFailure(TestVerdict(is_baseline, attempts)), "Completed",
                  attempts, TRUE, fetch)
<1> DEFINE last == attempts[Len(attempts)]
           r == Result(TestVerdict(is_baseline, attempts), Len(attempts),
                       last.exit_code, last.timed_out,
                       RecordedFailure(TestVerdict(is_baseline, attempts)),
                       "Completed", attempts, TRUE, fetch)
<1>1. Record(r) /\ pc = "classify"
  BY DEF Classify
<1>2. results \in Seq(ResultRecords) /\ Len(results) = index - 1 /\ index \in Nat
  BY <1>1 DEF Typed, TypeOK, Position
<1> HIDE DEF r
<1>3. results' = Append(results, r)
  BY <1>1 DEF Record
<1>4. results'[index] = r
  BY <1>2, <1>3
<1> QED
  BY <1>4 DEF r

\* A series the loop completed yields a result the verifier accepts.
LEMMA CompletedSound ==
  ASSUME NEW b \in BOOLEAN, NEW a \in Seq(Records), a # <<>>, AttemptsSound(a),
         b => Len(a) = 1, ~b => Len(a) <= RerunsOnFailure,
         \A i \in Passes(a) : i = Len(a),
         NEW ready \in {"unplanned", "ok"},
         NEW failure,
         failure = (IF is_pass_like(TestVerdict(b, a)) THEN NoFailure
                    ELSE IF TestVerdict(b, a) = "Flaky" THEN LastFailure(a)
                    ELSE a[Len(a)].failure),
         NEW r,
         r = Result(TestVerdict(b, a), Len(a), a[Len(a)].exit_code, a[Len(a)].timed_out,
                    failure, "Completed", a, TRUE, ready)
  PROVE  ScenarioOk(b, r) /\ Prepared(r)
<1> DEFINE v == TestVerdict(b, a)
           n == Len(a)
<1>1. n \in Nat /\ n > 0 /\ n \in DOMAIN a
  OBVIOUS
<1>2. /\ b => n = 1
      /\ ~b => n <= RerunsOnFailure
  OBVIOUS
<1>3. is_pass_like(v) => Passed(a[n])
  <2>1. CASE b
    <3>1. is_pass_like(v) => Passes(a) # {}
      BY <2>1 DEF TestVerdict, is_pass_like
    <3>2. Passes(a) # {} => n \in Passes(a)
      OBVIOUS
    <3> QED
      BY <3>1, <3>2 DEF Passes
  <2>2. CASE ~b
    <3>1. is_pass_like(v) => Passes(a) = DOMAIN a
      BY <2>2 DEF TestVerdict, classify_candidate_attempts, is_pass_like
    <3> QED
      BY <1>1, <3>1 DEF Passes
  <2> QED
    BY <2>1, <2>2
<1>4. is_pass_like(v) => failure = a[n].failure /\ failure = NoFailure
  BY <1>1, <1>3 DEF AttemptsSound
<1>5. failure = IF v = "Flaky" THEN LastFailure(a) ELSE a[n].failure
  BY <1>4 DEF is_pass_like
<1> HIDE DEF v
<1>6. /\ r.verdict = v /\ r.attempt = n /\ r.exit_code = a[n].exit_code
      /\ r.timed_out = a[n].timed_out /\ r.failure = failure /\ r.status = "Completed"
      /\ r.attempts = a /\ r.image = TRUE /\ r.fetch = ready
  BY DEF Result, v
<1>7. CompletedOk(b, r)
  <2>1. r.verdict = TestVerdict(b, r.attempts)
    BY <1>6 DEF v
  <2>2. r.failure = IF TestVerdict(b, r.attempts) = "Flaky" THEN LastFailure(r.attempts)
                                                         ELSE r.attempts[n].failure
    BY <1>5, <1>6 DEF v
  <2>3. \A i \in Passes(a) : i = n
    OBVIOUS
  <2>4. r.attempts = a /\ Len(r.attempts) = n
    BY <1>6
  <2>5. /\ Len(r.attempts) > 0
        /\ b => Len(r.attempts) = 1
        /\ ~b => /\ Len(r.attempts) <= RerunsOnFailure
                /\ \A i \in Passes(r.attempts) : i = Len(r.attempts)
    BY <1>1, <1>2, <2>3, <2>4
  <2>6. /\ r.attempt = Len(r.attempts)
        /\ r.exit_code = r.attempts[Len(r.attempts)].exit_code
        /\ r.timed_out = r.attempts[Len(r.attempts)].timed_out
    BY <1>6, <2>4, Zenon
  <2> QED
    BY <2>1, <2>2, <2>4, <2>5, <2>6, Zenon DEF CompletedOk
<1>8. TestAttemptsOk(b, r)
  <2>1. \A i \in DOMAIN r.attempts :
          Passed(r.attempts[i]) <=> r.attempts[i].failure = NoFailure
    <3>1. r.attempts = a
      BY <1>6
    <3> QED
      BY <3>1, Zenon DEF AttemptsSound
  <2> QED
    BY <1>6, <1>7, <2>1 DEF TestAttemptsOk
<1> QED
  BY <1>4, <1>6, <1>8 DEF ScenarioOk, Prepared

\* A scenario whose tests never ran yields a result the verifier accepts.
LEMMA NotRunSound ==
  ASSUME NEW b \in BOOLEAN, NEW verdict \in {"Blocked", "Unsupported"}, NEW code, NEW late,
         NEW failure, NEW image \in BOOLEAN, NEW phase, ~(image /\ phase = "planned"),
         NEW r, r = NotRun(verdict, code, late, failure, image, phase)
  PROVE  ScenarioOk(b, r) /\ Prepared(r)
BY DEF NotRun, Result, ScenarioOk, TestAttemptsOk, Prepared, is_pass_like

-----------------------------------------------------------------------------
\* One more result: the first failure of the longer list.
LEMMA FirstFailureGrows ==
  ASSUME NEW n \in Nat \ {0}, NEW rs \in Seq(ResultRecords), Len(rs) = n - 1,
         NEW qs \in Seq(ResultRecords), Len(qs) = n,
         \A i \in 1..(n - 1) : qs[i] = rs[i]
  PROVE  /\ FirstOf(FutureFails(rs)) # 0 =>
              FirstOf(FutureFails(qs)) = FirstOf(FutureFails(rs))
         /\ FirstOf(FutureFails(rs)) = 0 =>
              FirstOf(FutureFails(qs)) =
                IF n # 1 /\ qs[n].verdict = "FutureFail" THEN n ELSE 0
<1> DEFINE A == FutureFails(rs)
           B == FutureFails(qs)
           new == n # 1 /\ qs[n].verdict = "FutureFail"
<1>1. A \in SUBSET (1..(n - 1))
  BY DEF FutureFails
<1>2. B = IF new THEN A \cup {n} ELSE A
  BY DEF FutureFails
<1> HIDE DEF A, B, new
<1>3. A \in SUBSET Nat /\ B \in SUBSET Nat
  BY <1>1, <1>2
<1>4. CASE A = {}
  <2>1. FirstOf(A) = 0
    BY <1>4 DEF FirstOf
  <2>2. FirstOf(B) = IF new THEN n ELSE 0
    <3>1. CASE new
      <4>1. B = {n} /\ n \in Nat
        BY <1>2, <1>4, <3>1
      <4>2. FirstOf(B) \in B
        BY <1>3, <4>1, FirstOfLeast
      <4> QED
        BY <3>1, <4>1, <4>2
    <3>2. CASE ~new
      BY <1>2, <1>4, <3>2 DEF FirstOf
    <3> QED
      BY <3>1, <3>2
  <2> QED
    BY <2>1, <2>2 DEF A, B, new
<1>5. CASE A # {}
  <2>1. FirstOf(A) \in A /\ \A i \in A : FirstOf(A) <= i
    BY <1>3, <1>5, FirstOfLeast
  <2>2. B # {}
    BY <1>2, <1>5
  <2>3. FirstOf(B) \in B /\ \A i \in B : FirstOf(B) <= i
    BY <1>3, <2>2, FirstOfLeast
  <2>4. FirstOf(A) \in B /\ FirstOf(A) \in 1..(n - 1)
    BY <1>1, <1>2, <2>1
  <2>5. FirstOf(B) <= FirstOf(A) /\ FirstOf(B) \in Nat
    BY <1>3, <2>3, <2>4
  <2>6. FirstOf(B) \in A
    BY <1>2, <2>3, <2>4, <2>5
  <2>7. FirstOf(B) = FirstOf(A) /\ FirstOf(A) # 0
    BY <2>1, <2>4, <2>5, <2>6
  <2> QED
    BY <2>7 DEF A, B
<1> QED
  BY <1>4, <1>5

\* What recording a sound result does to the notes of the scan.
Noted ==
  /\ pc' = IF is_baseline /\ results'[index].verdict # "BaselinePass"
           THEN "finalize" ELSE "next"
  /\ baseline_ok' = IF is_baseline THEN results'[1].verdict = "BaselinePass"
                    ELSE baseline_ok
  /\ IF ~is_baseline /\ NotesFirstFail(results'[index].verdict)
     THEN first_fail' = index /\ confirmed'
     ELSE UNCHANGED <<first_fail, confirmed>>

\* Recording a result the verifier would derive keeps the closure.
LEMMA ClosureGrows ==
  ASSUME Typed, Closure, pc \in {"image", "fetch", "test", "classify"},
         Typed', Len(results') = index, index \in 1..Planned,
         \A i \in 1..(index - 1) : results'[i] = results[i],
         ScenarioOk(index = 1, results'[index]), Prepared(results'[index]),
         Noted, UNCHANGED <<index, frontier, claim>>
  PROVE  Closure'
<1>1. /\ results \in Seq(ResultRecords) /\ Len(results) = index - 1
      /\ results' \in Seq(ResultRecords) /\ index \in Nat \ {0}
      /\ DOMAIN results' = 1..index /\ DOMAIN results = 1..(index - 1)
  BY DEF Typed, TypeOK, Position
<1>2. ResultsSound'
  <2> SUFFICES ASSUME NEW i \in 1..index
               PROVE  ScenarioOk(i = 1, results'[i]) /\ Prepared(results'[i])
    BY <1>1 DEF ResultsSound
  <2>1. CASE i = index
    BY <2>1
  <2>2. CASE i # index
    <3>1. i \in DOMAIN results /\ results'[i] = results[i]
      BY <1>1, <2>2
    <3>2. ScenarioOk(i = 1, results[i]) /\ Prepared(results[i])
      BY <3>1 DEF Closure, ResultsSound
    <3> QED
      BY <3>1, <3>2
  <2> QED
    BY <2>1, <2>2
<1>3. pc' \in {"next", "finalize"}
  BY DEF Noted
<1>4. InProgress'
  BY <1>3 DEF InProgress
<1>5. Gate'
  <2>1. results' # <<>> /\ results'[1] = IF index = 1 THEN results'[index] ELSE results[1]
    BY <1>1
  <2>2. index # 1 => results # <<>> /\ baseline_ok /\ results[1].verdict = "BaselinePass"
    BY <1>1 DEF Closure, Gate
  <2>3. CASE index = 1
    <3>1. /\ results'[1] = results'[index]
          /\ baseline_ok' <=> results'[1].verdict = "BaselinePass"
          /\ pc' = IF results'[1].verdict # "BaselinePass" THEN "finalize" ELSE "next"
          /\ index' = 1
      BY <2>3, Zenon DEF Noted, is_baseline
    <3>2. Len(results') = 1 /\ ~(index' > 1)
      BY <2>3, <3>1
    <3> QED
      BY <2>1, <3>1, <3>2 DEF Gate
  <2>4. CASE index # 1
    <3>1. /\ results'[1].verdict = "BaselinePass"
          /\ baseline_ok' = baseline_ok /\ pc' = "next"
      BY <2>1, <2>2, <2>4 DEF Noted, is_baseline
    <3>2. baseline_ok' /\ baseline_ok
      BY <2>2, <2>4, <3>1, Zenon
    <3> QED
      BY <2>1, <3>1, <3>2 DEF Gate
  <2> QED
    BY <2>3, <2>4
<1>6. FirstFailure'
  <2>1. /\ first_fail # 0 => FirstOf(FutureFails(results')) = first_fail
        /\ first_fail = 0 =>
             FirstOf(FutureFails(results')) =
               IF index # 1 /\ results'[index].verdict = "FutureFail" THEN index ELSE 0
    BY <1>1, FirstFailureGrows DEF Closure, FirstFailure
  <2> DEFINE new == index # 1 /\ results'[index].verdict = "FutureFail" /\ first_fail = 0
  <2>2. first_fail # 0 => confirmed
    BY DEF Closure, FirstFailure
  <2>3. CASE new
    <3>1. first_fail' = index /\ confirmed'
      BY <2>3 DEF Noted, NotesFirstFail, is_baseline
    <3> QED
      BY <2>1, <2>3, <3>1 DEF FirstFailure
  <2>4. CASE ~new
    <3>1. first_fail' = first_fail /\ confirmed' = confirmed
      BY <2>4, Zenon DEF Noted, NotesFirstFail, is_baseline
    <3>2. FirstOf(FutureFails(results')) = first_fail
      BY <2>1, <2>4
    <3>3. first_fail' # 0 => confirmed'
      BY <2>2, <3>1, Zenon
    <3> QED
      BY <3>1, <3>2, <3>3, Zenon DEF FirstFailure
  <2> QED
    BY <2>3, <2>4
<1>7. pc' \in Running /\ claim' = None
  BY <1>3 DEF Closure, Running
<1> QED
  BY <1>2, <1>3, <1>4, <1>5, <1>6, <1>7 DEF Closure, SealedBundleVerifies

\* A result of a scenario whose tests never completed keeps the closure.
LEMMA BlockedGrows ==
  ASSUME Typed, Closure, pc \in {"image", "fetch", "test"}, Typed',
         NEW r \in ResultRecords, Record(r), r.verdict \in {"Blocked", "Unsupported"},
         ScenarioOk(index = 1, r), Prepared(r),
         UNCHANGED <<index, baseline_ok, first_fail, confirmed, frontier, claim>>
  PROVE  Closure'
<1>1. /\ Len(results') = index /\ results'[index] = r /\ index \in 1..Planned
      /\ \A i \in 1..(index - 1) : results'[i] = results[i]
  BY RecordAppends
<1>2. index = 1 => ~baseline_ok
  BY DEF Typed, TypeOK, Position, Closure, Gate
<1>3. pc' = IF is_baseline /\ r.verdict # "BaselinePass" THEN "finalize" ELSE "next"
  BY DEF Record, AfterResult
<1>4. baseline_ok' = IF is_baseline THEN results'[1].verdict = "BaselinePass"
                     ELSE baseline_ok
  <2>1. CASE index = 1
    <3>1. results'[1].verdict # "BaselinePass"
      BY <1>1, <2>1
    <3> QED
      BY <1>2, <2>1, <3>1, Zenon DEF is_baseline, Typed, TypeOK
  <2>2. CASE index # 1
    BY <2>2, Zenon DEF is_baseline
  <2> QED
    BY <2>1, <2>2
<1>5. Noted
  <2>1. ~NotesFirstFail(results'[index].verdict)
    BY <1>1 DEF NotesFirstFail
  <2> QED
    BY <1>1, <1>3, <1>4, <2>1, Zenon DEF Noted
<1>6. ScenarioOk(index = 1, results'[index]) /\ Prepared(results'[index])
  BY <1>1
<1> QED
  BY <1>1, <1>5, <1>6, ClosureGrows

\* The tests of a scenario completed.
LEMMA ClassifyCloses ==
  ASSUME Typed, Closure, Evidence', Typed', Classify
  PROVE  Closure'
<1> DEFINE verdict == TestVerdict(is_baseline, attempts)
           b == index = 1
<1>1. /\ pc = "classify" /\ attempts \in Seq(Records) /\ attempts # <<>>
      /\ fetch \in {"unplanned", "ok"} /\ b \in BOOLEAN
  BY DEF Classify, Typed, TypeOK, Position
<1>2. /\ Len(results') = index /\ index \in 1..Planned
      /\ results' \in Seq(ResultRecords)
      /\ \A i \in 1..(index - 1) : results'[i] = results[i]
      /\ results'[index].verdict = verdict
      /\ results'[index].status = "Completed"
      /\ results'[index].attempts = attempts
      /\ UNCHANGED <<index, fetch, attempts, frontier, claim>>
  BY ClassifyRecords
<1>3. /\ AttemptsSound(attempts) /\ \A i \in Passes(attempts) : i = Len(attempts)
      /\ b => Len(attempts) = 1
      /\ ~b => Len(attempts) <= RerunsOnFailure
  <2>1. Len(attempts) \in Nat /\ Len(attempts) > 0
    BY <1>1
  <2>2. /\ AttemptsSound(attempts) /\ \A i \in Passes(attempts) : i = Len(attempts)
        /\ Len(attempts) <= Reruns
    BY <1>1 DEF Closure, InProgress
  <2>3. CASE b
    <3>1. Reruns = 1
      BY <2>3 DEF Reruns, is_baseline
    <3>2. Len(attempts) <= 1
      BY <2>2, <3>1, Zenon
    <3>3. \A n \in Nat : n > 0 /\ n <= 1 => n = 1
      OBVIOUS
    <3>4. Len(attempts) = 1
      BY <2>1, <3>2, <3>3, Zenon
    <3> QED
      BY <2>2, <2>3, <3>4
  <2>4. CASE ~b
    <3>1. Reruns = RerunsOnFailure
      BY <2>4 DEF Reruns, is_baseline
    <3> QED
      BY <2>2, <2>4, <3>1
  <2> QED
    BY <2>2, <2>3, <2>4
<1>4. ScenarioOk(b, results'[index]) /\ Prepared(results'[index])
  <2>1. results'[index] =
          Result(TestVerdict(b, attempts), Len(attempts),
                 attempts[Len(attempts)].exit_code, attempts[Len(attempts)].timed_out,
                 RecordedFailure(TestVerdict(b, attempts)), "Completed", attempts,
                 TRUE, fetch)
    BY ClassifyResult DEF is_baseline
  <2>2. RecordedFailure(TestVerdict(b, attempts)) =
          (IF is_pass_like(TestVerdict(b, attempts)) THEN NoFailure
           ELSE IF TestVerdict(b, attempts) = "Flaky" THEN LastFailure(attempts)
           ELSE attempts[Len(attempts)].failure)
    BY DEF RecordedFailure
  <2> HIDE DEF b
  <2> QED
    BY <1>1, <1>3, <2>1, <2>2, CompletedSound
<1>5. Noted
  <2>1. pc' = IF is_baseline /\ results'[index].verdict # "BaselinePass"
              THEN "finalize" ELSE "next"
    BY <1>2 DEF Classify, Record, AfterResult, Result
  <2>2. baseline_ok' = IF is_baseline THEN results'[1].verdict = "BaselinePass"
                       ELSE baseline_ok
    <3>1. baseline_ok' = IF is_baseline /\ verdict # "CoverageIncomplete"
                         THEN verdict = "BaselinePass" ELSE baseline_ok
      BY DEF Classify
    <3>2. CASE is_baseline /\ verdict # "CoverageIncomplete"
      <4>1. results'[1].verdict = verdict
        BY <1>2, <3>2 DEF is_baseline
      <4> QED
        BY <3>1, <3>2, <4>1, Zenon
    <3>3. CASE is_baseline /\ verdict = "CoverageIncomplete"
      <4>1. results'[1].verdict # "BaselinePass"
        BY <1>2, <3>3 DEF is_baseline
      <4>2. baseline_ok = FALSE
        BY <1>1, <3>3 DEF is_baseline, Typed, TypeOK, Position, Closure, Gate
      <4> QED
        BY <3>1, <3>3, <4>1, <4>2, Zenon
    <3>4. CASE ~is_baseline
      BY <3>1, <3>4, Zenon
    <3> QED
      BY <3>2, <3>3, <3>4
  <2>3. /\ first_fail' = IF NotesFirstFail(verdict) THEN index ELSE first_fail
        /\ confirmed' = IF NotesFirstFail(verdict)
                        THEN Passes(attempts) = {} /\ Len(attempts) >= 2 ELSE confirmed
    BY DEF Classify
  <2>4. verdict = "FutureFail" =>
          ~is_baseline /\ Passes(attempts) = {} /\ Len(attempts) >= 2
    <3> SUFFICES ASSUME verdict = "FutureFail"
                 PROVE  ~is_baseline /\ Passes(attempts) = {} /\ Len(attempts) >= 2
      OBVIOUS
    <3>1. is_baseline \in BOOLEAN
      BY DEF is_baseline
    <3>2. /\ ~is_baseline /\ Len(attempts) >= 2
          /\ \A i, j \in DOMAIN attempts : ~Passed(attempts[i])
      BY <1>1, <3>1, FutureFailRepeats
    <3> QED
      BY <3>2 DEF Passes
  <2>5. CASE NotesFirstFail(verdict)
    <3>1. ~is_baseline /\ first_fail' = index /\ confirmed'
      BY <2>3, <2>4, <2>5, Zenon DEF NotesFirstFail
    <3> QED
      BY <1>2, <2>1, <2>2, <2>5, <3>1, Zenon DEF Noted
  <2>6. CASE ~NotesFirstFail(verdict)
    BY <1>2, <2>1, <2>2, <2>3, <2>6, Zenon DEF Noted
  <2> QED
    BY <2>5, <2>6
<1> QED
  BY <1>1, <1>2, <1>4, <1>5, ClosureGrows

-----------------------------------------------------------------------------
\* The frontier the scan computes is the one the verifier derives.
LEMMA FrontierExpected ==
  ASSUME Typed, Evidence, Closure, pc = "finalize"
  PROVE  compute_breakage_frontier(baseline_ok, results, confirmed, first_fail)
           = ExpectedFrontier(results)
<1> DEFINE first == FirstOf(FutureFails(results))
           ok == results # <<>> /\ results[1].verdict = "BaselinePass"
           twice == /\ first # 0
                    /\ results[first].status = "Completed"
                    /\ Len(results[first].attempts) >= 2
                    /\ Passes(results[first].attempts) = {}
<1>1. /\ first_fail = first /\ (first # 0 => confirmed) /\ (baseline_ok <=> ok)
  BY DEF Closure, FirstFailure, Gate
<1>2. first # 0 => twice
  <2> SUFFICES ASSUME first # 0 PROVE twice
    OBVIOUS
  <2>1. FutureFails(results) \in SUBSET Nat /\ FutureFails(results) # {}
    BY DEF FutureFails, FirstOf, Typed, TypeOK
  <2>2. first \in FutureFails(results)
    BY <2>1, FirstOfLeast
  <2>3. first \in DOMAIN results /\ results[first].verdict = "FutureFail"
    BY <2>2 DEF FutureFails
  <2>4. RepeatedFailure(results[first])
    BY <2>3 DEF Evidence
  <2> QED
    BY <2>4 DEF RepeatedFailure, Passes
<1>3. ExpectedFrontier(results) = compute_breakage_frontier(ok, results, twice, first)
  BY DEF ExpectedFrontier
<1> HIDE DEF ok, twice, first
<1>4. compute_breakage_frontier(ok, results, twice, first)
        = compute_breakage_frontier(baseline_ok, results, confirmed, first)
  <2>1. CASE ~ok
    BY <1>1, <2>1, Zenon DEF compute_breakage_frontier
  <2>2. CASE ok /\ first = 0
    BY <1>1, <2>2, Zenon DEF compute_breakage_frontier, first
  <2>3. CASE ok /\ first # 0
    BY <1>1, <1>2, <2>3, Zenon DEF compute_breakage_frontier
  <2> QED
    BY <2>1, <2>2, <2>3
<1> QED
  BY <1>1, <1>3, <1>4

\* The verifier's conditions on results and claim when the scan finalizes.
LEMMA FinalizeVerifies ==
  ASSUME Typed, Evidence, Closure, Finalize
  PROVE  \A c \in {claim, FinalClaim} : verify_run(Planned, results, frontier', c)
<1>1. /\ pc = "finalize" /\ claim = None
      /\ frontier' = compute_breakage_frontier(baseline_ok, results, confirmed, first_fail)
  BY DEF Finalize, Closure, Running
<1>2. ResultsOk(Planned, results)
  BY <1>1 DEF ResultsOk, Closure, Gate, ResultsSound, Typed, Position
<1>3. frontier' = ExpectedFrontier(results)
  BY <1>1, FrontierExpected
<1>4. ClaimOk(results, None)
  BY DEF ClaimOk, None
<1>5. ClaimOk(results, FinalClaim)
  BY <1>1 DEF ClaimOk, FinalClaim, AnyBlocked, NotCompleted, Undecided, Closure, Gate
<1> QED
  BY <1>1, <1>2, <1>3, <1>4, <1>5 DEF verify_run

\* A bundle of one blocked baseline is one the verifier accepts.
LEMMA NoEngineVerifies ==
  ASSUME NEW phase \in {"unplanned", "planned"},
         NEW rs, rs = <<NotRun("Blocked", None, FALSE, Blocked, FALSE, phase)>>,
         NEW c, c # "PASS"
  PROVE  /\ \A i \in DOMAIN rs : ScenarioOk(i = 1, rs[i]) /\ Prepared(rs[i])
         /\ FutureFails(rs) = {}
         /\ verify_run(Planned, rs, compute_breakage_frontier(FALSE, rs, FALSE, 0), c)
<1> DEFINE r == NotRun("Blocked", None, FALSE, Blocked, FALSE, phase)
<1>1. DOMAIN rs = {1} /\ rs[1] = r /\ Len(rs) = 1 /\ rs # <<>>
  OBVIOUS
<1>2. r.verdict = "Blocked"
  BY DEF NotRun, Result
<1>3. ScenarioOk(TRUE, r) /\ Prepared(r)
  BY NotRunSound
<1> HIDE DEF r
<1>4. \A i \in DOMAIN rs : ScenarioOk(i = 1, rs[i]) /\ Prepared(rs[i])
  <2> SUFFICES ASSUME NEW i \in DOMAIN rs
               PROVE  ScenarioOk(i = 1, rs[i]) /\ Prepared(rs[i])
    OBVIOUS
  <2>1. i = 1 /\ (i = 1) = TRUE
    BY <1>1
  <2> QED
    BY <1>1, <1>3, <2>1
<1>5. FutureFails(rs) = {}
  BY <1>1 DEF FutureFails
<1>6. ResultsOk(Planned, rs)
  <2>1. Len(rs) <= Planned
    BY <1>1, PlannedAssumption
  <2> QED
    BY <1>1, <1>2, <1>4, <2>1 DEF ResultsOk
<1>7. compute_breakage_frontier(FALSE, rs, FALSE, 0) = ExpectedFrontier(rs)
  BY <1>1, <1>2 DEF compute_breakage_frontier, ExpectedFrontier
<1>8. ClaimOk(rs, c)
  BY DEF ClaimOk
<1> QED
  BY <1>4, <1>5, <1>6, <1>7, <1>8 DEF verify_run

\* A step that leaves the results and the notes alone keeps what they satisfy.
LEMMA ResultsKept ==
  ASSUME Closure, UNCHANGED <<results, first_fail, confirmed>>
  PROVE  ResultsSound' /\ FirstFailure'
<1>1. ResultsSound' <=> ResultsSound
  BY DEF ResultsSound
<1>2. FirstFailure' <=> FirstFailure
  BY DEF FirstFailure
<1> QED
  BY <1>1, <1>2 DEF Closure

\* The closure is inductive, and no step of the scan itself abandons a bundle.
LEMMA ClosureStep ==
  ASSUME Typed, Evidence, Closure, Typed', Evidence', [Next]_vars
  PROVE  Closure' /\ (Step => pc' # "aborted")
<1> USE PlannedAssumption
<1>1. ASSUME pc \in Running, pc' \in Running,
             UNCHANGED <<results, baseline_ok, first_fail, confirmed, claim>>,
             InProgress', Gate'
      PROVE  Closure'
  BY <1>1, ResultsKept DEF Closure, SealedBundleVerifies, Running
<1>2. CASE EngineFound
  <2>1. InProgress' /\ Gate'
    BY <1>2 DEF EngineFound, Typed, Position, Closure, InProgress, Gate
  <2> QED
    BY <1>1, <1>2, <2>1 DEF EngineFound, Running
<1>3. CASE NoEngine
  <2>1. PICK phase \in {"unplanned", "planned"} :
          results' = <<NotRun("Blocked", None, FALSE, Blocked, FALSE, phase)>>
    BY <1>3 DEF NoEngine
  <2>2. /\ pc = "engine" /\ claim' = "BLOCKED" /\ index = 0 /\ results = <<>>
        /\ frontier' = compute_breakage_frontier(FALSE, results', FALSE, 0)
        /\ pc' = IF verify_run(Planned, results', frontier', claim')
                 THEN "sealed" ELSE "aborted"
        /\ UNCHANGED <<index, fetch, attempts, baseline_ok, first_fail, confirmed>>
    BY <1>3 DEF NoEngine, Typed, Position
  <2>3. /\ ResultsSound' /\ FutureFails(results') = {}
        /\ verify_run(Planned, results', frontier', claim')
    BY <2>1, <2>2, NoEngineVerifies DEF ResultsSound
  <2>4. pc' = "sealed"
    BY <2>2, <2>3
  <2>5. results' # <<>> /\ results'[1].verdict = "Blocked"
    BY <2>1 DEF NotRun, Result
  <2>6. FinalClaim' = "BLOCKED"
    <3>1. 1 \in DOMAIN results'
      BY <2>1
    <3> QED
      BY <2>5, <3>1 DEF FinalClaim, AnyBlocked, NotCompleted
  <2>7. SealedBundleVerifies'
    BY <2>2, <2>3, <2>6 DEF SealedBundleVerifies
  <2>8. FirstFailure'
    <3>1. first_fail = 0
      BY <2>2 DEF Closure, FirstFailure, FutureFails, FirstOf
    <3> QED
      BY <2>2, <2>3, <3>1 DEF FirstFailure, FirstOf
  <2>9. Gate' /\ InProgress'
    BY <2>2, <2>4, <2>5 DEF Gate, InProgress, Closure
  <2> QED
    BY <2>3, <2>4, <2>7, <2>8, <2>9 DEF Closure, Running
<1>4. CASE NextScenario
  <2>1. InProgress'
    BY <1>4 DEF NextScenario, InProgress
  <2>2. Gate'
    BY <1>4 DEF NextScenario, Gate, Typed, TypeOK, Position, Closure
  <2> QED
    BY <1>1, <1>4, <2>1, <2>2 DEF NextScenario, Running
<1>5. CASE PlanExhausted
  <2>1. InProgress'
    BY <1>5 DEF PlanExhausted, InProgress
  <2>2. Gate'
    BY <1>5 DEF PlanExhausted, Gate, Typed, TypeOK, Position, Closure
  <2> QED
    BY <1>1, <1>5, <2>1, <2>2 DEF PlanExhausted, Running
<1>6. CASE ImageResolved
  <2>1. InProgress' /\ Gate'
    BY <1>6 DEF ImageResolved, InProgress, Gate, Closure
  <2> QED
    BY <1>1, <1>6, <2>1 DEF ImageResolved, Running
<1>7. CASE FetchReady
  <2>1. InProgress'
    <3>1. attempts' = <<>>
      BY <1>7 DEF FetchReady, Closure, InProgress
    <3>2. Len(<<>>) < Reruns
      BY RerunsAssumption DEF Reruns
    <3> QED
      BY <1>7, <3>1, <3>2 DEF FetchReady, InProgress, AttemptsSound, Passes, Reruns,
           is_baseline
  <2>2. Gate'
    BY <1>7 DEF FetchReady, Gate, Closure
  <2> QED
    BY <1>1, <1>7, <2>1, <2>2 DEF FetchReady, Running
<1>8. CASE TestAttempt
  <2>1. PICK raw \in RawResults :
          /\ attempts' = Append(attempts, AttemptRecord(raw))
          /\ pc' = IF EndsLoop(raw) THEN "classify" ELSE "test"
    BY <1>8 DEF TestAttempt
  <2>2. /\ pc = "test" /\ attempts \in Seq(Records)
        /\ UNCHANGED <<index, fetch, results, baseline_ok, first_fail, confirmed,
                       frontier, claim>>
    BY <1>8 DEF TestAttempt, Typed, TypeOK
  <2>3. /\ AttemptsSound(attempts) /\ Len(attempts) < Reruns /\ Passes(attempts) = {}
    BY <2>2 DEF Closure, InProgress
  <2>4. /\ Len(attempts') = Len(attempts) + 1 /\ AttemptsSound(attempts')
        /\ \A i \in Passes(attempts') : i = Len(attempts')
        /\ ~Passed(raw) => Passes(attempts') = {}
    BY <2>1, <2>2, <2>3, AttemptsGrow
  <2>5. Reruns \in Nat /\ Reruns' = Reruns /\ Len(attempts) \in Nat
    BY <2>2, RerunsAssumption DEF Reruns, is_baseline
  <2>6. /\ Len(attempts') <= Reruns'
        /\ ~EndsLoop(raw) => ~Passed(raw) /\ Len(attempts') < Reruns'
    BY <2>3, <2>4, <2>5 DEF EndsLoop
  <2>7. InProgress'
    BY <2>1, <2>4, <2>6 DEF InProgress
  <2>8. Gate' /\ pc' \in {"classify", "test"}
    BY <2>1, <2>2 DEF Gate, Closure
  <2> QED
    BY <1>1, <2>2, <2>7, <2>8 DEF Running
<1>9. ASSUME NEW r \in ResultRecords, RecordNotRun(r), pc \in {"image", "fetch"},
             r.verdict \in {"Blocked", "Unsupported"},
             \A b \in BOOLEAN : ScenarioOk(b, r) /\ Prepared(r)
      PROVE  Closure' /\ pc' # "aborted"
  <2>1. Record(r) /\ UNCHANGED <<index, baseline_ok, first_fail, confirmed, frontier,
                                 claim>>
    BY <1>9 DEF RecordNotRun
  <2>2. ScenarioOk(index = 1, r) /\ Prepared(r) /\ pc' # "aborted"
    BY <1>9, <2>1 DEF Record, AfterResult
  <2> QED
    BY <1>9, <2>1, <2>2, BlockedGrows
<1>10. CASE ImageBlocked
  <2>1. PICK phase \in {"unplanned", "planned"} :
          RecordNotRun(NotRun("Blocked", None, FALSE, Blocked, FALSE, phase))
    BY <1>10 DEF ImageBlocked
  <2> DEFINE r == NotRun("Blocked", None, FALSE, Blocked, FALSE, phase)
  <2>2. r \in ResultRecords /\ r.verdict \in {"Blocked", "Unsupported"}
    BY NotRunType, BlockedType DEF VerdictSet, ExitCodes, NotRun, Result
  <2>3. \A b \in BOOLEAN : ScenarioOk(b, r) /\ Prepared(r)
    BY NotRunSound
  <2> HIDE DEF r
  <2> QED
    BY <1>9, <1>10, <2>1, <2>2, <2>3 DEF ImageBlocked, r
<1>11. CASE FetchUnsupported
  <2> DEFINE r == NotRun("Unsupported", None, FALSE, Blocked, TRUE, "unplanned")
  <2>1. r \in ResultRecords /\ r.verdict \in {"Blocked", "Unsupported"}
    BY NotRunType, BlockedType DEF VerdictSet, ExitCodes, NotRun, Result
  <2>2. \A b \in BOOLEAN : ScenarioOk(b, r) /\ Prepared(r)
    BY NotRunSound
  <2>3. RecordNotRun(r) /\ pc = "fetch"
    BY <1>11 DEF FetchUnsupported
  <2> HIDE DEF r
  <2> QED
    BY <1>9, <2>1, <2>2, <2>3
<1>12. CASE FetchExecutionError
  <2> DEFINE r == NotRun("Blocked", None, FALSE, Blocked, TRUE, "error")
  <2>1. r \in ResultRecords /\ r.verdict \in {"Blocked", "Unsupported"}
    BY NotRunType, BlockedType DEF VerdictSet, ExitCodes, NotRun, Result
  <2>2. \A b \in BOOLEAN : ScenarioOk(b, r) /\ Prepared(r)
    BY NotRunSound
  <2>3. RecordNotRun(r) /\ pc = "fetch"
    BY <1>12 DEF FetchExecutionError
  <2> HIDE DEF r
  <2> QED
    BY <1>9, <2>1, <2>2, <2>3
<1>13. CASE FetchFailed
  <2>1. PICK raw \in RawResults :
          RecordNotRun(NotRun("Blocked", raw.exit_code, raw.timed_out,
                              normalize_failure(raw), TRUE, "failed"))
    BY <1>13 DEF FetchFailed
  <2> DEFINE r == NotRun("Blocked", raw.exit_code, raw.timed_out,
                         normalize_failure(raw), TRUE, "failed")
  <2>2. r \in ResultRecords /\ r.verdict \in {"Blocked", "Unsupported"}
    BY RawResultType, NotRunType DEF VerdictSet, NotRun, Result
  <2>3. \A b \in BOOLEAN : ScenarioOk(b, r) /\ Prepared(r)
    BY NotRunSound
  <2>4. RecordNotRun(r) /\ pc = "fetch"
    BY <1>13, <2>1 DEF FetchFailed
  <2> HIDE DEF r
  <2> QED
    BY <1>9, <2>2, <2>3, <2>4
<1>14. CASE TestExecutionError
  <2> DEFINE r == Result("Blocked", Len(attempts), None, FALSE, Blocked,
                         "ExecutionError", attempts, TRUE, fetch)
  <2>1. /\ Record(r) /\ pc = "test"
        /\ UNCHANGED <<index, fetch, attempts, baseline_ok, first_fail, confirmed,
                       frontier, claim>>
    BY <1>14 DEF TestExecutionError
  <2>2. r \in ResultRecords /\ r.verdict = "Blocked"
    BY BlockedType DEF Typed, TypeOK, Result, ResultRecords, VerdictSet, ExitCodes
  <2>3. AttemptsSound(attempts) /\ fetch \in {"unplanned", "ok"}
    BY <2>1 DEF Closure, InProgress, Typed, TypeOK
  <2>4. ScenarioOk(index = 1, r) /\ Prepared(r)
    BY <2>3 DEF ScenarioOk, TestAttemptsOk, AttemptsSound, Prepared, Result, is_pass_like
  <2> HIDE DEF r
  <2>5. pc' # "aborted"
    BY <2>1 DEF Record, AfterResult
  <2> QED
    BY <2>1, <2>2, <2>4, <2>5, BlockedGrows
<1>15. CASE Classify
  <2>1. pc' # "aborted"
    BY <1>15, ClassifyRecords
  <2> QED
    BY <1>15, <2>1, ClassifyCloses
<1>16. CASE Finalize
  <2>1. /\ pc' = "sealed"
        /\ UNCHANGED <<index, fetch, attempts, results, baseline_ok, first_fail,
                       confirmed, claim>>
    BY <1>16 DEF Finalize
  <2>2. SealedBundleVerifies'
    <3>1. FinalClaim' = FinalClaim
      BY <2>1 DEF FinalClaim
    <3> QED
      BY <1>16, <2>1, <3>1, FinalizeVerifies DEF SealedBundleVerifies
  <2>3. Gate' /\ InProgress'
    BY <1>16, <2>1 DEF Finalize, Gate, InProgress, Closure
  <2> QED
    BY <2>1, <2>2, <2>3, ResultsKept DEF Closure, Running
<1>17. CASE FinishScan
  <2>1. /\ pc = "sealed" /\ claim' = FinalClaim
        /\ pc' = IF verify_run(Planned, results, frontier, claim') THEN "done"
                                                                  ELSE "aborted"
        /\ UNCHANGED <<index, fetch, attempts, results, baseline_ok, first_fail,
                       confirmed, frontier>>
    BY <1>17 DEF FinishScan
  <2>2. verify_run(Planned, results, frontier, FinalClaim)
    BY <2>1 DEF Closure, SealedBundleVerifies
  <2>3. pc' = "done" /\ FinalClaim' = FinalClaim
    BY <2>1, <2>2 DEF FinalClaim
  <2>4. SealedBundleVerifies'
    BY <2>1, <2>2, <2>3 DEF SealedBundleVerifies
  <2>5. Gate' /\ InProgress'
    BY <2>1, <2>3 DEF Gate, InProgress, Closure
  <2> QED
    BY <2>1, <2>3, <2>4, <2>5, ResultsKept DEF Closure, Running
<1>18. ASSUME Abort
       PROVE  Closure'
  <2>1. Gate' /\ InProgress' /\ ~(pc' \in Running) /\ SealedBundleVerifies'
    BY <1>18 DEF Abort, Gate, InProgress, Closure, Running, SealedBundleVerifies
  <2>2. ResultsSound' /\ FirstFailure'
    BY <1>18, ResultsKept DEF Abort
  <2> QED
    BY <2>1, <2>2 DEF Closure
<1>19. ASSUME UNCHANGED vars
       PROVE  Closure'
  <2>1. ResultsSound' /\ FirstFailure'
    BY <1>19, ResultsKept DEF vars
  <2>2. /\ InProgress' <=> InProgress
        /\ Gate' <=> Gate
        /\ SealedBundleVerifies' <=> SealedBundleVerifies
    BY <1>19 DEF vars, InProgress, Gate, SealedBundleVerifies, FinalClaim, Reruns,
         is_baseline
  <2>3. pc' \in Running => claim' = None
    BY <1>19 DEF vars, Closure
  <2> QED
    BY <2>1, <2>2, <2>3 DEF Closure
<1>20. Step => Closure' /\ pc' # "aborted"
  BY <1>2, <1>3, <1>4, <1>5, <1>6, <1>7, <1>8, <1>10, <1>11, <1>12, <1>13, <1>14,
     <1>15, <1>16, <1>17 DEF Step, Scenario
<1> QED
  BY <1>18, <1>19, <1>20 DEF Next

LEMMA ScanInvInit ==
  ASSUME Init
  PROVE  ScanInv
<1>1. Typed
  BY TypedInit
<1>2. Evidence
  BY DEF Init, Evidence, NoHorizon
<1>3. FirstFailure
  BY DEF Init, FirstFailure, FutureFails, FirstOf
<1>4. ResultsSound /\ InProgress /\ Gate /\ SealedBundleVerifies
  BY DEF Init, ResultsSound, InProgress, Gate, SealedBundleVerifies
<1> QED
  BY <1>1, <1>2, <1>3, <1>4 DEF Init, ScanInv, Closure

LEMMA ScanInvStep ==
  ASSUME ScanInv, [Next]_vars
  PROVE  ScanInv' /\ (Step => pc' # "aborted")
BY TypedStep, EvidenceStep, ClosureStep DEF ScanInv

\* The two halves together are an invariant of the scan.
LEMMA ScanInvCorrect == Spec => []ScanInv
<1>1. Init => ScanInv
  BY ScanInvInit
<1>2. ScanInv /\ [Next]_vars => ScanInv'
  BY ScanInvStep
<1> QED
  BY <1>1, <1>2, PTL DEF Spec

-----------------------------------------------------------------------------
\* What the verdicts of completed attempts require of them.
LEMMA VerdictAttempts ==
  ASSUME NEW b \in BOOLEAN, NEW a, a # <<>>, a \in Seq(Records)
  PROVE  LET v == TestVerdict(b, a) IN
         /\ is_pass_like(v) => Passes(a) # {}
         /\ is_pass_like(v) /\ ~b => Passes(a) = DOMAIN a
         /\ b => v \in {"BaselinePass", "BaselineInvalid", "CoverageIncomplete"}
BY DEF TestVerdict, classify_candidate_attempts, is_pass_like

\* A pass-like result the verifier accepts rests on one attempt, which passed.
LEMMA PassIsOneAttempt ==
  ASSUME NEW b \in BOOLEAN, NEW r \in ResultRecords, ScenarioOk(b, r),
         is_pass_like(r.verdict)
  PROVE  r.status = "Completed" /\ Len(r.attempts) = 1 /\ Passed(r.attempts[1])
<1> DEFINE a == r.attempts
<1>1. r.status = "Completed" /\ CompletedOk(b, r)
  BY DEF ScenarioOk, TestAttemptsOk, is_pass_like
<1>2. a \in Seq(Records)
  BY DEF ResultRecords
<1>3. /\ Len(a) > 0 /\ r.verdict = TestVerdict(b, a)
      /\ b => Len(a) = 1
      /\ ~b => \A i \in Passes(a) : i = Len(a)
  BY <1>1 DEF CompletedOk
<1> HIDE DEF a
<1>4. a # <<>> /\ Len(a) \in Nat /\ DOMAIN a = 1..Len(a)
  BY <1>2, <1>3
<1>5. /\ Passes(a) # {}
      /\ ~b => Passes(a) = DOMAIN a
  BY <1>2, <1>3, <1>4, VerdictAttempts
<1>6. Len(a) = 1
  <2>1. CASE b
    BY <1>3, <2>1
  <2>2. CASE ~b
    <3>1. 1 \in DOMAIN a
      BY <1>3, <1>4
    <3> QED
      BY <1>3, <1>5, <2>2, <3>1
  <2> QED
    BY <2>1, <2>2
<1>7. Passed(a[1])
  <2>1. Passes(a) \in SUBSET {1}
    BY <1>4, <1>6 DEF Passes
  <2> QED
    BY <1>5, <2>1 DEF Passes
<1> QED
  BY <1>1, <1>6, <1>7 DEF a

\* A scenario executed without an image or with a failed fetch is never counted
\* as passing, and no retry turns a failure into a pass (execute_scenario).
THEOREM PassCleanCorrect == Spec => []PassIsClean
<1>1. ScanInv => PassIsClean
  <2> SUFFICES ASSUME ScanInv, NEW i \in DOMAIN results, is_pass_like(results[i].verdict)
               PROVE  /\ results[i].image /\ results[i].fetch \in {"unplanned", "ok"}
                      /\ results[i].status = "Completed" /\ Len(results[i].attempts) = 1
    BY DEF PassIsClean
  <2>1. results[i] \in ResultRecords
    BY DEF ScanInv, Typed, TypeOK
  <2>2. ScenarioOk(i = 1, results[i]) /\ Prepared(results[i])
    BY DEF ScanInv, Closure, ResultsSound
  <2>3. results[i].status = "Completed" /\ Len(results[i].attempts) = 1
    BY <2>1, <2>2, PassIsOneAttempt
  <2> QED
    BY <2>2, <2>3 DEF Prepared
<1> QED
  BY <1>1, ScanInvCorrect, PTL

\* No candidate is executed unless the baseline passed (scan_with_adapter's gate).
THEOREM GateCorrect == Spec => []BaselineGatesCandidates
<1>1. ScanInv => BaselineGatesCandidates
  BY DEF ScanInv, Closure, Gate, BaselineGatesCandidates
<1> QED
  BY <1>1, ScanInvCorrect, PTL

\* Tests run, and are recorded, only for a scenario whose image and fetch succeeded.
THEOREM PreparationCorrect == Spec => []TestsNeedPreparation
<1>1. ScanInv => TestsNeedPreparation
  <2> SUFFICES ASSUME ScanInv PROVE TestsNeedPreparation
    OBVIOUS
  <2>1. \A i \in DOMAIN results : results[i].attempts # <<>> =>
          results[i].image /\ results[i].fetch \in {"unplanned", "ok"}
    <3> SUFFICES ASSUME NEW i \in DOMAIN results, results[i].attempts # <<>>
                 PROVE  results[i].image /\ results[i].fetch \in {"unplanned", "ok"}
      OBVIOUS
    <3>1. ScenarioOk(i = 1, results[i]) /\ Prepared(results[i])
      BY DEF ScanInv, Closure, ResultsSound
    <3>2. results[i].status # "NotRun"
      BY <3>1 DEF ScenarioOk, TestAttemptsOk
    <3> QED
      BY <3>1, <3>2 DEF Prepared
  <2> QED
    BY <2>1 DEF TestsNeedPreparation, ScanInv, Typed, TypeOK
<1> QED
  BY <1>1, ScanInvCorrect, PTL

\* The verifier, which trusts nothing the scan decided, accepts every bundle it
\* seals, under the claim the bundle has and under the one it is to be given.
THEOREM SealedCorrect == Spec => []SealedBundleVerifies
<1>1. ScanInv => SealedBundleVerifies
  BY DEF ScanInv, Closure
<1> QED
  BY <1>1, ScanInvCorrect, PTL

NeverRefusesItself == Step => pc' # "aborted"

\* The scan abandons a bundle only for an error of the host: the verifier's
\* refusal, which finish_scan would turn into one, never comes.
THEOREM NoSelfRefusal == Spec => [][NeverRefusesItself]_vars
<1>1. ScanInv /\ [Next]_vars => [NeverRefusesItself]_vars
  BY ScanInvStep DEF NeverRefusesItself
<1> QED
  BY <1>1, ScanInvCorrect, PTL DEF Spec

\* A public PASS claim means that every planned scenario ran and either passed at
\* its first attempt or failed repeatedly in one way (finish_scan's status rule).
THEOREM ClaimCorrect == Spec => []PassClaimIsComplete
<1>1. ScanInv => PassClaimIsComplete
  <2> SUFFICES ASSUME ScanInv, pc = "done", claim = "PASS"
               PROVE  /\ Len(results) = Planned
                      /\ \A i \in DOMAIN results : LET a == results[i].attempts IN
                           \/ Len(a) = 1 /\ Passed(a[1])
                           \/ /\ Len(a) >= 2 /\ Passes(a) = {}
                              /\ \A j, k \in DOMAIN a :
                                   a[j].failure.hash = a[k].failure.hash
    BY DEF PassClaimIsComplete
  <2>1. verify_run(Planned, results, frontier, claim)
    BY DEF ScanInv, Closure, SealedBundleVerifies
  <2>2. /\ results # <<>>
        /\ \A i \in DOMAIN results : results[i].verdict \notin Undecided
        /\ results[1].verdict = "BaselinePass" => Len(results) = Planned
        /\ \A i \in DOMAIN results : ScenarioOk(i = 1, results[i])
    BY <2>1 DEF verify_run, ClaimOk, ResultsOk
  <2>3. \A i \in DOMAIN results : results[i] \in ResultRecords
    BY DEF ScanInv, Typed, TypeOK
  <2>4. ASSUME NEW i \in DOMAIN results
        PROVE  LET a == results[i].attempts IN
               /\ a \in Seq(Records) /\ a # <<>>
               /\ results[i].verdict = TestVerdict(i = 1, a)
    <3>1. results[i].status = "Completed" /\ CompletedOk(i = 1, results[i])
      BY <2>2 DEF ScenarioOk, TestAttemptsOk, Undecided
    <3>2. results[i].attempts \in Seq(Records)
      BY <2>3 DEF ResultRecords
    <3> QED
      BY <3>1, <3>2 DEF CompletedOk
  <2>5. Len(results) = Planned
    <3>1. 1 \in DOMAIN results
      BY <2>2 DEF ScanInv, Typed, TypeOK
    <3>2. results[1].verdict \in {"BaselinePass", "BaselineInvalid", "CoverageIncomplete"}
      BY <2>4, <3>1, VerdictAttempts
    <3> QED
      BY <2>2, <3>1, <3>2 DEF Undecided
  <2>6. ASSUME NEW i \in DOMAIN results
        PROVE  LET a == results[i].attempts IN
               \/ Len(a) = 1 /\ Passed(a[1])
               \/ /\ Len(a) >= 2 /\ Passes(a) = {}
                  /\ \A j, k \in DOMAIN a : a[j].failure.hash = a[k].failure.hash
    <3> DEFINE a == results[i].attempts
    <3>1. (i = 1) \in BOOLEAN /\ results[i] \in ResultRecords
      BY <2>3
    <3>2. CASE is_pass_like(results[i].verdict)
      BY <2>2, <3>1, <3>2, PassIsOneAttempt
    <3>3. CASE ~is_pass_like(results[i].verdict)
      <4>1. results[i].verdict = "FutureFail"
        BY <2>2, <3>1, <3>3 DEF Undecided, is_pass_like, ResultRecords, VerdictSet
      <4>2. a \in Seq(Records) /\ TestVerdict(i = 1, a) = "FutureFail"
        BY <2>4, <4>1
      <4>3. /\ Len(a) >= 2
            /\ \A j, k \in DOMAIN a :
                 ~Passed(a[j]) /\ a[j].failure.hash = a[k].failure.hash
        BY <3>1, <4>2, FutureFailRepeats
      <4> QED
        BY <4>3 DEF Passes
    <3> QED
      BY <3>2, <3>3
  <2> QED
    BY <2>5, <2>6
<1> QED
  BY <1>1, ScanInvCorrect, PTL

=============================================================================
