---------------------------- MODULE MCAdaptiveScan ----------------------------
(* Instances of AdaptiveScan for TLC; its two derivations compared on an
   exhaustive experiment with two changes; small experiments loaded. *)
EXTENDS AdaptiveScan

CONSTANTS Absent, Refused

Pair == INSTANCE DependencyVerifier WITH Changes <- {1, 2}, Schema <- 1, MaxScenarios <- 4

\* The order of the exhaustive probes is the one the verifier expects.
ASSUME ExhaustiveOrder == ExhaustiveProbesOk(exhaustive_nonempty_subsets)

\* Whatever an exhaustive experiment observes, scan and verifier derive the
\* same reduction from it.
ASSUME ExhaustiveAgreement ==
  LET ps == <<{1, 2}, {1}, {2}>>
      ss == Pair!PlanOf(ps)
  IN  \A b \in BaselineResults, r1, r2, r3 \in ProbeResults :
        LET rs == IF b.verdict = "BaselinePass" THEN <<b, r1, r2, r3>> ELSE <<b>>
        IN  Pair!derive_expected_dependency_reduction(ps, ss, rs)
              = Pair!derive_dependency_reduction(Pair!Observations(ps, ss, rs),
                                                 Pair!BaselineObservation(ss, rs))

Experiment == INSTANCE DependencyExperiment
                WITH Sources <- {"a.whl", "b.whl", "tree"}, WheelSources <- {"a.whl", "b.whl"}

MCArtifacts == [source : {"a.whl", "tree", "/etc"}, content : {1}]
               \cup [source : {"b.whl"}, content : {2}]

MCEntries ==
  {e \in [id : {"p", "q"}, name : {"p", "q"}, before : MCArtifacts, after : MCArtifacts,
          unchanged : BOOLEAN, name_normalized : {TRUE}] :
     e.unchanged => e.before = e.after}

MCManifests ==
  [schema : {1, 2}, ecosystem : {"python"}, runtime : {"3.11"}, image_pinned : {TRUE},
   set_ids_canonical : {TRUE}, entries : [1..2 -> MCEntries]]

\* An experiment is loaded or refused for what it says or for what lies in the
\* workspace, never for a probe of it; what the scan makes of every subset of its
\* changes is what the verifier expects of it.
ASSUME ProbesLoad ==
  LET project == [ecosystem |-> "python", runtime |-> "3.11"]
      files   == [s \in {"a.whl", "b.whl", "tree"} |-> IF s = "b.whl" THEN 2 ELSE 1]
      Loads(m) == Experiment!load_dependency_experiment(m, project, files) # Refused
  IN  /\ {m.schema : m \in {n \in MCManifests : Loads(n)}} = {1, 2}
      /\ \A m \in MCManifests :
           /\ Loads(m) <=> /\ Experiment!experiment_verifies(m, project, files)
                           /\ Experiment!Changing(m) # {}
           /\ Loads(m) => \A chosen \in (SUBSET Experiment!Changing(m)) \ {{}} :
                Experiment!candidate_verifies(m, chosen, Experiment!probe_for_subset(m, chosen))

=============================================================================
