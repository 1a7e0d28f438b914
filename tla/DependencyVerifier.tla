-------------------------- MODULE DependencyVerifier --------------------------
(***************************************************************************)
(* What the offline verifier makes of a dependency experiment: the probe    *)
(* sequence it expects, the reduction it derives from the recorded results  *)
(* and the frontier that follows.  A bundle is given by its candidates, as  *)
(* subsets ps of the changes, its plan ss and its results rs; candidate i   *)
(* is scenario i + 1.                                                       *)
(***************************************************************************)
EXTENDS DependencySchedule, Planner

CONSTANTS Schema, MaxScenarios

ASSUME VerifierAssumption == Schema \in {1, 2} /\ MaxScenarios \in Nat \ {0}

PlanOf(ps) == plan_scenarios(MaxScenarios, 0, <<>>, probe_candidates(ps))

HasResult(ps, rs, S) == \E i \in DOMAIN ps : ps[i] = S /\ i + 1 \in DOMAIN rs

\* Mutant: the baseline is forgotten.
ScenarioOf_unshifted(ps, rs, S) ==
  FirstOf({i \in DOMAIN ps : ps[i] = S /\ i + 1 \in DOMAIN rs})

\* The scenario that executed a set of changes, 0 if none did.
ScenarioOf(ps, rs, S) ==
  FirstOf({i + 1 : i \in {j \in DOMAIN ps : ps[j] = S /\ j + 1 \in DOMAIN rs}})

\* The observation of each probe that has a result.
Observations(ps, ss, rs) ==
  [i \in {j \in DOMAIN ps : j + 1 \in DOMAIN rs} |->
     Observation(ps[i], rs[i + 1], ss[i + 1].grade)]

BaselineObservation(ss, rs) == Observation({}, rs[1], ss[1].grade)

BaselinePassed(rs) == rs # <<>> /\ rs[1].verdict = "BaselinePass"

-----------------------------------------------------------------------------
(* expected_adaptive_dependency_probes: no error is reported *)
ObservedPass(ss, rs) == BaselinePassed(rs) /\ ss[1].grade = "Observed"

\* Every candidate is the probe that the observations before it call for.
EachIsNext(ps, obs) ==
  \A i \in DOMAIN ps : ps[i] = next_dependency_subset(SubSeq(obs, 1, i - 1))

\* The search stops where nothing is left to request or the budget is spent.
StopsWhereItMay(ps, obs) ==
  Len(ps) + 1 < MaxScenarios => next_dependency_subset(obs) = {}

\* Mutant: the probes are checked one by one, not where they end.
AdaptiveProbesOk_any_end(ps, ss, rs) ==
  /\ ps # <<>> /\ ps[1] = Changes /\ rs # <<>>
  /\ ValidObservations(Observations(ps, ss, rs))
  /\ EachIsNext(ps, Observations(ps, ss, rs))

AdaptiveProbesOk(ps, ss, rs) ==
  /\ ps # <<>> /\ ps[1] = Changes /\ rs # <<>>
  /\ \/ ~ObservedPass(ss, rs) /\ Len(ps) = 1 /\ Len(rs) = 1
     \/ /\ ObservedPass(ss, rs)
        /\ Len(ps) + 1 <= MaxScenarios
        /\ Len(rs) = Len(ps) + 1 /\ Len(ss) = Len(rs)
        /\ ValidObservations(Observations(ps, ss, rs))
        /\ EachIsNext(ps, Observations(ps, ss, rs))
        /\ StopsWhereItMay(ps, Observations(ps, ss, rs))

\* expected_dependency_probes: the full set, then every other subset in order
ExhaustiveProbesOk(ps) ==
  /\ Len(ps) = 2 ^ Cardinality(Changes) - 1
  /\ {ps[i] : i \in DOMAIN ps} = (SUBSET Changes) \ {{}}
  /\ ps[1] = Changes
  /\ \A i \in 3..Len(ps) : Before(ps[i - 1], ps[i])

-----------------------------------------------------------------------------
(* derive_expected_dependency_reduction, from the results looked up by id *)
SameFailure(o, hash) ==
  o.authority = "Observed" /\ o.verdict = "Fail" /\ o.hash = hash /\ o.attempts >= 3

StableHash(o) == IF SameFailure(o, o.hash) THEN o.hash ELSE None

\* The full candidate's verdict when it has no stable failure.
StatusOf(verdict) ==
  CASE verdict = "Pass"    -> "OriginalPassed"
    [] verdict = "Blocked" -> "Blocked"
    [] verdict = "Flaky"   -> "UnstableFailure"
    [] verdict \in {"Fail", "Inconclusive"} -> "Inconclusive"

\* addition probe: the failure is the same with the change added
Irrelevant(seen, S, hash) == S \in DOMAIN seen /\ SameFailure(seen[S], hash)

\* subtraction probe: an observed pass or another failure; the baseline's
\* record, at the empty set, says so when nothing is left
DeletionNecessary(seen, S, hash) ==
  /\ S \in DOMAIN seen
  /\ seen[S].authority = "Observed"
  /\ seen[S].verdict \in {"Pass", "Fail"}
  /\ seen[S].verdict = "Fail" => seen[S].hash # hash

ProofHolds(seen, minimal, hash) ==
  /\ \A c \in Changes \ minimal : Irrelevant(seen, minimal \cup {c}, hash)
  /\ \A c \in minimal : DeletionNecessary(seen, minimal \ {c}, hash)

\* observed_by_subset, with baseline_dependency_probe_record
ObservedBySubset(ps, ss, rs) ==
  [S \in {T \in SUBSET Changes : IF T = {} THEN rs # <<>> ELSE HasResult(ps, rs, T)} |->
     IF S = {} THEN BaselineObservation(ss, rs)
     ELSE LET i == CHOOSE j \in DOMAIN ps : ps[j] = S IN Observation(S, rs[i + 1], ss[i + 1].grade)]

derive_expected_dependency_reduction(ps, ss, rs) ==
  LET seen    == ObservedBySubset(ps, ss, rs)
      hash    == StableHash(seen[Changes])
      failing == {S \in (DOMAIN seen) \ {{}} : SameFailure(seen[S], hash)}
      minimal == CHOOSE S \in failing : \A T \in failing : ~Before(T, S)
      records == Observations(ps, ss, rs)
  IN  IF Changes \notin DOMAIN seen THEN Reduction(Changes, None, "Blocked", records)
      ELSE IF hash = None
      THEN Reduction(Changes, None, StatusOf(seen[Changes].verdict), records)
      ELSE Reduction(minimal, hash,
             IF ProofHolds(seen, minimal, hash) THEN "ProvenMinimal" ELSE "Inconclusive",
             records)

-----------------------------------------------------------------------------
(* verify_dependency_semantics and the checks beside it *)
ProbesOk(ps, ss, rs) ==
  IF Schema = 2 THEN AdaptiveProbesOk(ps, ss, rs) ELSE ExhaustiveProbesOk(ps)

\* Every scenario is bound to the exact resolution of its subset, the baseline
\* to the declared baseline set.
ResolutionsBound(ps, ss) ==
  \A i \in DOMAIN ss : ss[i].resolved = {IF ss[i].is_baseline THEN {} ELSE ps[i - 1]}

\* The results are those of the plan, or of its baseline if that did not pass.
ResultsClosed(ss, rs) ==
  Len(rs) = IF BaselinePassed(rs) THEN Len(ss) ELSE 1

ReductionOk(ps, ss, rs, red) == red = derive_expected_dependency_reduction(ps, ss, rs)

\* verify_frontier_semantics: a proven minimal set takes the first failure's
\* place in the replay command
ReplayOf(ps, rs, red, first) ==
  IF red.status = "ProvenMinimal" /\ red.authority = "Observed"
  THEN ScenarioOf(ps, rs, red.minimal) ELSE first

ExpectedFrontier(ps, rs, red) ==
  LET first     == FirstOf(FutureFails(rs))
      confirmed == first # 0 /\ rs[first].attempt >= 2
  IN  compute_breakage_frontier(BaselinePassed(rs), rs, confirmed,
        IF confirmed THEN ReplayOf(ps, rs, red, first) ELSE 0)

BundleVerifies(ps, ss, rs, red, fr) ==
  /\ ProbesOk(ps, ss, rs)
  /\ ss = PlanOf(ps)
  /\ ResolutionsBound(ps, ss)
  /\ ResultsClosed(ss, rs)
  /\ ReductionOk(ps, ss, rs, red)
  /\ fr = ExpectedFrontier(ps, rs, red)

=============================================================================
