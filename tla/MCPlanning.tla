------------------------------ MODULE MCPlanning ------------------------------
(* An instance of Planning for TLC: explicit and implicit runtime lists, small
   budgets, experiments of both schemas, and recorded candidates that disagree. *)
EXTENDS Planning

MCBases == {9, 12, 20}

MCVersions == {{}, {<<>>}, {<<10>>}, {<<13, 14>>}, {<<14, 13>>}, {<<13, 14, 15>>}}

MCConfigs ==
  [ecosystem : {"auto", "python"}, versions : MCVersions, max_versions : {0, 1, 3},
   channels : {{"stable"}, {"preview"}, {"stable", "preview"}},
   max_scenarios : {1, 2, 4, 7}, reruns_on_failure : {1, 3},
   latest_allowed : BOOLEAN, prerelease : BOOLEAN]

MCProbes == <<{1}, {2}, {3}>>

MCExperiments ==
  {{}, {[schema |-> 1, probes |-> MCProbes]}, {[schema |-> 2, probes |-> <<MCProbes[1]>>]}}

MCSet(id, baseline, valid) ==
  [ProbeCandidate({id}, id) EXCEPT !.set = DependencySet({id}, baseline, valid)]

MCRecorded ==
  {<<MCSet(1, a, v), MCSet(2, b, TRUE)>> : a, b \in {{}, {9}}, v \in BOOLEAN}
  \cup {<<MCSet(1, {}, FALSE)>>, <<[MCSet(1, {}, TRUE) EXCEPT !.axis = "runtime"]>>,
        <<MCSet(1, {}, TRUE), LabelCandidate("prerelease", 2)>>}

=============================================================================
