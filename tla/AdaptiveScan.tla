----------------------------- MODULE AdaptiveScan -----------------------------
(***************************************************************************)
(* A scan of a repository with a dependency experiment: the loop of         *)
(* scan_with_adapter, one step per scenario, the plan that grows while it   *)
(* runs (schema 2) or enumerates all subsets (schema 1), the reduction that *)
(* is derived at its end, and what the verifier makes of the bundle.        *)
(***************************************************************************)
EXTENDS DependencyVerifier

CONSTANT RerunsOnFailure

ASSUME ExperimentAssumption ==
  /\ RerunsOnFailure \in Nat \ {0}
  /\ Schema = 2 => RerunsOnFailure >= 3 /\ MaxScenarios >= 2

VARIABLES
  pc,          \* "run", then "done"
  probes,      \* experiment.probes, as subsets of the changes
  plan,        \* the execution plan
  results,     \* results, in the order of the plan
  reduction,   \* reduction.json
  frontier     \* frontier.json

vars == <<pc, probes, plan, results, reduction, frontier>>

-----------------------------------------------------------------------------
(* What one scenario can come to: the attempts the loop would make and their
   verdict, or none when image, fetch or engine failed.                    *)
ScenarioResult(verdict, attempt, failure) ==
  [verdict |-> verdict, attempt |-> attempt, failure |-> failure]

AttemptRecords == {AttemptRecord(raw) : raw \in RawResults}

Attempts(n) ==
  {s \in UNION {[1..k -> AttemptRecords] : k \in 1..n} :
     /\ \A i \in 1..(Len(s) - 1) : ~Passed(s[i])
     /\ Len(s) = n \/ Passed(s[Len(s)])}

Completed(is_baseline, s) ==
  ScenarioResult(TestVerdict(is_baseline, s), Len(s),
    IF TestVerdict(is_baseline, s) = "Flaky" THEN LastFailure(s) ELSE s[Len(s)].failure)

Unfinished(n) ==
  {ScenarioResult("Blocked", k, Failure("blocked", BlockedHash)) : k \in 0..(n - 1)}
  \cup {ScenarioResult("Unsupported", 0, Failure("blocked", BlockedHash))}
  \cup {ScenarioResult("Blocked", 0, normalize_failure(raw)) :
          raw \in {x \in RawResults : ~Passed(x)}}

BaselineResults == {Completed(TRUE, s) : s \in Attempts(1)} \cup Unfinished(1)

ProbeResults ==
  {Completed(FALSE, s) : s \in Attempts(RerunsOnFailure)} \cup Unfinished(RerunsOnFailure)

-----------------------------------------------------------------------------
\* exhaustive_nonempty_subsets: the full set, then the others by size and order
exhaustive_nonempty_subsets ==
  LET others == (SUBSET Changes) \ {{}, Changes}
      rank(S) == 2 + Cardinality({T \in others : Before(T, S)})
  IN  [k \in 1..(1 + Cardinality(others)) |->
         IF k = 1 THEN Changes ELSE CHOOSE S \in others : rank(S) = k]

InitialProbes == IF Schema = 2 THEN <<Changes>> ELSE exhaustive_nonempty_subsets

baseline_ok == results # <<>> /\ results[1].verdict = "BaselinePass"

\* next_probe: nothing before every probe has its result.
next_probe ==
  IF Schema # 2 \/ Len(results) < Len(probes) + 1 THEN {}
  ELSE next_dependency_subset(Observations(probes, plan, results))

\* The test at the head of the loop.
MayExtend ==
  /\ Len(results) = Len(plan) /\ baseline_ok
  /\ Len(plan) < MaxScenarios
  /\ next_probe # {}

Init ==
  /\ pc = "run"
  /\ probes = InitialProbes
  /\ plan = PlanOf(probes)
  /\ results = <<>>
  /\ reduction = Reduction(Changes, None, "Blocked", <<>>)
  /\ frontier = NoHorizon(0, 0, NoFailure)

Extend ==
  /\ pc = "run" /\ MayExtend
  /\ probes' = Append(probes, next_probe)
  /\ plan' = PlanOf(probes')
  /\ UNCHANGED <<pc, results, reduction, frontier>>

\* Mutant: the candidates run whatever the baseline did.
StopsAfterBaseline_never == FALSE

StopsAfterBaseline == results # <<>> /\ ~baseline_ok

\* One round of the loop; a baseline that did not pass is the last.
RunScenario ==
  /\ pc = "run" /\ Len(results) < Len(plan) /\ ~StopsAfterBaseline
  /\ \E r \in IF results = <<>> THEN BaselineResults ELSE ProbeResults :
       results' = Append(results, r)
  /\ UNCHANGED <<pc, probes, plan, reduction, frontier>>

LoopEnds == StopsAfterBaseline \/ (Len(results) = Len(plan) /\ ~MayExtend)

\* A minimal set that was proven is replayed rather than the first failure.
ReplayTarget(ps, rs, red, first) ==
  IF red.status = "ProvenMinimal" THEN ScenarioOf(ps, rs, red.minimal) ELSE first

Finalize ==
  /\ pc = "run" /\ LoopEnds
  /\ reduction' = derive_dependency_reduction(Observations(probes, plan, results),
                                              BaselineObservation(plan, results))
  /\ LET first     == FirstOf(FutureFails(results))
         confirmed == first # 0 /\ results[first].attempt >= 2
     IN  frontier' = compute_breakage_frontier(baseline_ok, results, confirmed,
                       ReplayTarget(probes, results, reduction', first))
  /\ pc' = "done"
  /\ UNCHANGED <<probes, plan, results>>

Next == Extend \/ RunScenario \/ Finalize

Spec == Init /\ [][Next]_vars

-----------------------------------------------------------------------------
\* Type invariant of the loop's variables.  A plan that grows while it runs
\* stays within max_scenarios, and no subset is executed twice.
TypeOK ==
  /\ pc \in {"run", "done"}
  /\ \A i \in DOMAIN probes : probes[i] \subseteq Changes /\ probes[i] # {}
  /\ \A i, j \in DOMAIN probes : i # j => probes[i] # probes[j]
  /\ Schema = 2 => Len(probes) < MaxScenarios
  /\ Len(plan) = IF Len(probes) < MaxScenarios THEN Len(probes) + 1 ELSE MaxScenarios
  /\ results \in Seq(BaselineResults \cup ProbeResults)
  /\ Len(results) <= Len(plan)
  /\ reduction.minimal \subseteq Changes /\ reduction.minimal # {}

Shows(S, P(_)) == \E i \in DOMAIN probes : i + 1 \in DOMAIN results /\ probes[i] = S /\ P(results[i + 1])

\* PROVEN_MINIMAL in terms of executions: the minimal set failed in every one
\* of at least three attempts exactly as the full candidate did, so did the
\* set with any excluded change added, and without any one of its members the
\* tests passed or failed in another way, the baseline standing for no change.
ProvenIsMinimal ==
  pc = "done" /\ reduction.status = "ProvenMinimal" =>
    LET same(r)  == /\ r.verdict = "FutureFail" /\ r.attempt >= 3
                    /\ r.failure.hash = reduction.hash
        other(r) == \/ r.verdict \in {"BaselinePass", "FuturePass"}
                    \/ r.verdict = "FutureFail" /\ r.failure.hash # reduction.hash
    IN  /\ Shows(Changes, same) /\ Shows(reduction.minimal, same)
        /\ \A c \in Changes \ reduction.minimal : Shows(reduction.minimal \cup {c}, same)
        /\ \A c \in reduction.minimal :
             IF reduction.minimal = {c} THEN other(results[1])
             ELSE Shows(reduction.minimal \ {c}, other)

\* A search cut off by the budget, or stopped by a probe that decides nothing,
\* is not called proven; and one that was neither proved its set, unless
\* adding a change altered the failure.
UnprovenIsExplained ==
  pc = "done" /\ Schema = 2 /\ Stable(reduction.probes, Changes, reduction.hash) =>
    (reduction.status = "Inconclusive" <=>
       \/ next_probe # {}
       \/ \E i \in DOMAIN results : results[i].verdict \in
             {"Flaky", "Blocked", "Unsupported", "Inconclusive", "CoverageIncomplete"}
       \/ \E c \in Changes \ reduction.minimal :
             /\ reduction.minimal \cup {c} \in Tested(reduction.probes)
             /\ ~Stable(reduction.probes, reduction.minimal \cup {c}, reduction.hash))

\* The verifier accepts each finished bundle: its own derivation of probes,
\* plan, reduction and frontier agrees with the scan's.
BundleIsAccepted ==
  pc = "done" => BundleVerifies(probes, plan, results, reduction, frontier)

\* It refuses the same bundle without its last probe, however consistently
\* plan, reduction and frontier are rewritten: a search cannot be shortened to
\* where its claim is strongest.
TruncationIsRefused ==
  pc = "done" /\ Schema = 2 /\ Len(results) > 2 =>
    LET n   == Len(probes) - 1
        ps  == SubSeq(probes, 1, n)
        ss  == PlanOf(ps)
        rs  == SubSeq(results, 1, n + 1)
        red == derive_expected_dependency_reduction(ps, ss, rs)
    IN  ~BundleVerifies(ps, ss, rs, red, ExpectedFrontier(ps, rs, red))

\* What a horizon tells the user to replay failed in the way the horizon
\* reports, also when it is the minimal set rather than the first failure.
ReplayShowsHorizon ==
  pc = "done" /\ frontier.observed =>
    /\ frontier.replay \in DOMAIN results
    /\ results[frontier.replay].verdict = "FutureFail"
    /\ results[frontier.replay].failure.hash = frontier.failure.hash

-----------------------------------------------------------------------------
(* The reduction as delta debugging *)
FullObserved == Len(results) >= 2

Target == IF FullObserved THEN results[2].failure.hash ELSE None

Class(o) ==
  IF stable_target_failure(o, Target) THEN "same"
  ELSE IF decisive_non_target(o, Target) THEN "different"
  ELSE "unclear"

outcome ==
  LET obs == Observations(probes, plan, results) IN
  [S \in SUBSET Changes |->
     IF S = {} THEN (IF results = <<>> THEN "untested"
                     ELSE IF baseline_ok THEN "different" ELSE "unclear")
     ELSE IF S \in Tested(obs) THEN Class(At(obs, S)) ELSE "untested"]

suspects ==
  LET stable == StableFailures(Observations(probes, plan, results), Target)
  IN  IF stable = {} THEN Changes ELSE Smallest(stable)

verdict ==
  IF pc = "run" THEN "open"
  ELSE IF reduction.status = "ProvenMinimal" THEN "minimal" ELSE "unresolved"

Abstract == INSTANCE DeltaDebug WITH status <- verdict

\* The scan's search is a delta debugging: it implements DeltaDebug.
ImplementsDeltaDebug == Abstract!Spec

=============================================================================
