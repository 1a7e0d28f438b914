-------------------------- MODULE DependencySchedule --------------------------
(***************************************************************************)
(* Live reduction of a dependency experiment: which subset of the changes  *)
(* to execute next, and what the executions prove.  A set of changes is    *)
(* the sorted vector of its ids; the order of the ids is that of numbers.  *)
(* An observation is the result of the scenario that executed one subset.  *)
(***************************************************************************)
EXTENDS Verdicts, FiniteSets

CONSTANT Changes   \* ids of the declared changes

ASSUME ChangesAssumption == Changes \subseteq Nat /\ Changes # {} /\ IsFiniteSet(Changes)

dependency_probe_verdict(verdict) ==
  CASE verdict \in {"BaselinePass", "FuturePass"}         -> "Pass"
    [] verdict \in {"BaselineInvalid", "FutureFail"}      -> "Fail"
    [] verdict = "Flaky"                                  -> "Flaky"
    [] verdict \in {"Blocked", "Unsupported"}             -> "Blocked"
    [] verdict \in {"Inconclusive", "CoverageIncomplete"} -> "Inconclusive"

ProbeVerdicts == {"Pass", "Fail", "Flaky", "Blocked", "Inconclusive"}

Observation(ids, result, authority) ==
  [ids |-> ids, verdict |-> dependency_probe_verdict(result.verdict),
   hash |-> result.failure.hash, attempts |-> result.attempt, authority |-> authority]

\* The checks next_dependency_subset makes of the observations it is given.
ValidObservation(o) ==
  /\ o.ids # {} /\ o.ids \subseteq Changes
  /\ o.verdict = "Fail" => o.hash # None
  /\ o.verdict = "Pass" => o.hash = None
  /\ o.verdict \in {"Pass", "Fail"} => o.attempts # 0

ValidObservations(obs) ==
  /\ \A i \in DOMAIN obs : ValidObservation(obs[i])
  /\ \A i, j \in DOMAIN obs : i # j => obs[i].ids # obs[j].ids
  /\ obs # <<>> => obs[1].ids = Changes

Tested(obs) == {obs[i].ids : i \in DOMAIN obs}

\* the observation of a tested subset
At(obs, S) == obs[CHOOSE i \in DOMAIN obs : obs[i].ids = S]

stable_target_failure(o, target) ==
  /\ o.authority = "Observed" /\ o.verdict = "Fail"
  /\ o.hash = target /\ o.attempts >= 3

decisive_non_target(o, target) ==
  /\ o.authority = "Observed"
  /\ \/ o.verdict = "Pass" /\ o.attempts >= 1
     \/ o.verdict = "Fail" /\ o.attempts >= 2 /\ o.hash # target

-----------------------------------------------------------------------------
(* The order by length, then lexical; for sets of one size the lexical order
   of the sorted vectors is decided by the least id in which they differ.  *)
Least(S) == CHOOSE c \in S : \A d \in S : c <= d

Before(S, T) ==
  \/ Cardinality(S) < Cardinality(T)
  \/ /\ Cardinality(S) = Cardinality(T) /\ S # T
     /\ Least((S \ T) \cup (T \ S)) \in S

Smallest(sets) == CHOOSE S \in sets : \A T \in sets : S = T \/ Before(S, T)

StableFailures(obs, target) ==
  {S \in Tested(obs) : stable_target_failure(At(obs, S), target)}

Decisive(obs, S, target) == S \in Tested(obs) /\ decisive_non_target(At(obs, S), target)
Stable(obs, S, target)   == S \in Tested(obs) /\ stable_target_failure(At(obs, S), target)

\* Members whose deletion, and excluded changes whose addition, is not settled.
OpenDeletions(obs, S, target) ==
  {c \in S : S # {c} /\ ~Decisive(obs, S \ {c}, target)}

\* Mutant: no addition is scheduled.
OpenAdditions_none(obs, S, target) == {}

OpenAdditions(obs, S, target) ==
  {c \in Changes \ S : ~Stable(obs, S \cup {c}, target)}

\* The empty set stands for None: an unsettled subset that was already tested
\* stops the search.
Request(obs, S) == IF S \in Tested(obs) THEN {} ELSE S

NextDeletion(obs, S, target) ==
  Request(obs, S \ {Least(OpenDeletions(obs, S, target))})

NextAddition(obs, S, target) ==
  Request(obs, S \cup {Least(OpenAdditions(obs, S, target))})

next_dependency_subset(obs) ==
  IF obs = <<>> THEN Changes
  ELSE LET target  == At(obs, Changes).hash
           current == Smallest(StableFailures(obs, target))
       IN  IF target = None \/ ~Stable(obs, Changes, target) THEN {}
           ELSE IF OpenDeletions(obs, current, target) # {}
           THEN NextDeletion(obs, current, target)
           ELSE IF OpenAdditions(obs, current, target) # {}
           THEN NextAddition(obs, current, target)
           ELSE {}

-----------------------------------------------------------------------------
(* derive_observed_dependency_reduction.  baseline is the observation of the
   baseline scenario, which stands for the empty subset.                   *)

\* is the change the only thing that makes the failure appear?
Necessary(o, target) ==
  /\ o.authority = "Observed"
  /\ o.verdict \in {"Pass", "Fail"}
  /\ ~(o.verdict = "Fail" /\ o.hash = target)

\* The remaining subset of a subtraction, the baseline when it is empty.
Subtraction(obs, baseline, S) == IF S = {} THEN baseline ELSE At(obs, S)

NecessaryChange(obs, baseline, minimal, c, target) ==
  /\ minimal = {c} \/ minimal \ {c} \in Tested(obs)
  /\ Necessary(Subtraction(obs, baseline, minimal \ {c}), target)

\* Mutant: only the subtractions are looked at.
ProvenMinimal_no_additions(obs, baseline, minimal, target) ==
  \A c \in minimal : NecessaryChange(obs, baseline, minimal, c, target)

\* Mutant: a missing subtraction probe is no objection.
ProvenMinimal_missing_ok(obs, baseline, minimal, target) ==
  /\ \A c \in Changes \ minimal : Stable(obs, minimal \cup {c}, target)
  /\ \A c \in minimal : minimal = {c} \/ minimal \ {c} \in Tested(obs) =>
        NecessaryChange(obs, baseline, minimal, c, target)

ProvenMinimal(obs, baseline, minimal, target) ==
  /\ \A c \in Changes \ minimal : Stable(obs, minimal \cup {c}, target)
  /\ \A c \in minimal : NecessaryChange(obs, baseline, minimal, c, target)

\* addition_probes and subtraction_probes are determined by obs and minimal.
Reduction(minimal, hash, status, obs) ==
  [minimal |-> minimal, hash |-> hash, status |-> status, probes |-> obs,
   authority |-> IF status = "ProvenMinimal" THEN "Observed" ELSE "Inconclusive"]

NoStableFailure ==
  [Pass |-> "OriginalPassed", Blocked |-> "Blocked", Flaky |-> "UnstableFailure",
   Fail |-> "Inconclusive", Inconclusive |-> "Inconclusive"]

derive_dependency_reduction(obs, baseline) ==
  IF Changes \notin Tested(obs) THEN Reduction(Changes, None, "Blocked", obs)
  ELSE LET full    == At(obs, Changes)
           minimal == Smallest(StableFailures(obs, full.hash))
       IN  IF ~stable_target_failure(full, full.hash) \/ full.hash = None
           THEN Reduction(Changes, None, NoStableFailure[full.verdict], obs)
           ELSE Reduction(minimal, full.hash,
                  IF ProvenMinimal(obs, baseline, minimal, full.hash)
                  THEN "ProvenMinimal" ELSE "Inconclusive", obs)

=============================================================================
