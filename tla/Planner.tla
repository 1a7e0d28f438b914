-------------------------------- MODULE Planner --------------------------------
(***************************************************************************)
(* From the configuration to the execution plan: validation, the runtime   *)
(* candidates of the adapters, the dependency candidates, and the selection *)
(* of scenarios within the budget.  An Option or a fallible result is the   *)
(* set of its at most one value.  A runtime version is a number: the minor  *)
(* version of Python and Rust, the major version of Node.                   *)
(***************************************************************************)
EXTENDS Integers, Sequences, FiniteSets

Nightly == 1000   \* the preview toolchain, after every numbered one

\* Config::validate, as far as planning reads the configuration.
validate_explicit_versions(config) ==
  \A versions \in config.versions :
    /\ Len(versions) <= config.max_versions
    /\ versions # <<>> => "stable" \in config.channels
    /\ \A i \in 1..(Len(versions) - 1) : versions[i] < versions[i + 1]

\* Mutant: the baseline's slot is not counted.
validate_baseline_free(config) ==
  /\ validate_explicit_versions(config)
  /\ \A versions \in config.versions :
       /\ config.ecosystem \in {"auto", "python"}
       /\ Len(versions) <= config.max_scenarios
  /\ config.max_scenarios # 0
  /\ config.reruns_on_failure # 0

validate(config) ==
  /\ validate_explicit_versions(config)
  /\ \A versions \in config.versions :
       /\ config.ecosystem \in {"auto", "python"}
       /\ Len(versions) + 1 <= config.max_scenarios
  /\ config.max_scenarios # 0
  /\ config.reruns_on_failure # 0

-----------------------------------------------------------------------------
(* Candidates: an id, an axis, the version it runs, an order key, the grade
   it has when executed, and its dependency set -- of {} when it has none,
   else the identity of the set's baseline and whether the set validates.  *)
NoSet == {}
DependencySet(id, baseline, valid) == {[id |-> id, baseline |-> baseline, valid |-> valid]}

RuntimeCandidate(id, version, order) ==
  [id |-> id, axis |-> "runtime", version |-> version, order |-> order,
   grade |-> "Observed", set |-> NoSet]

Prefix(s, n) == SubSeq(s, 1, IF Len(s) <= n THEN Len(s) ELSE n)

AscendingRuntimes(name, versions) ==
  [i \in DOMAIN versions |-> RuntimeCandidate(<<name, versions[i]>>, versions[i], versions[i])]

PythonCatalogue == <<10, 11, 12, 13>>
NodeCatalogue   == <<18, 20, 22, 24>>

\* A catalogue ascends: what is later than the baseline is the end of it.
LaterThan(versions, base) ==
  SubSeq(versions, 1 + Cardinality({i \in DOMAIN versions : versions[i] <= base}),
         Len(versions))

\* Mutant: an empty explicit list falls back to the catalogue.
python_candidates_fallback(config, base) ==
  IF ~validate(config) THEN {}
  ELSE IF config.versions \in {{}, {<<>>}}
  THEN {AscendingRuntimes("py", Prefix(LaterThan(PythonCatalogue, base), config.max_versions))}
  ELSE {AscendingRuntimes("py", versions) : versions \in
          {vs \in config.versions : \A i \in DOMAIN vs : vs[i] > base}}

\* The Python adapter: an explicit list is taken whole or refused.
python_candidates(config, base) ==
  IF ~validate(config) THEN {}
  ELSE IF config.versions = {}
  THEN {AscendingRuntimes("py", Prefix(LaterThan(PythonCatalogue, base), config.max_versions))}
  ELSE {AscendingRuntimes("py", versions) : versions \in
          {vs \in config.versions : \A i \in DOMAIN vs : vs[i] > base}}

node_candidates(config, base) ==
  {AscendingRuntimes("node", Prefix(LaterThan(NodeCatalogue, base), config.max_versions))}

\* The Rust adapter: the declared minimum, an older toolchain, and nightly.
rust_candidates(config, base) ==
  LET wanted(c) == /\ c.channel \in config.channels
                   /\ c.version # base
      kept(c)   == IF wanted(c) THEN <<c>> ELSE <<>>
      selected  == Prefix(kept([version |-> 74, channel |-> "stable"])
                            \o kept([version |-> Nightly, channel |-> "preview"]),
                          config.max_versions)
  IN  {[i \in DOMAIN selected |->
          RuntimeCandidate(<<"rust", selected[i].version>>, selected[i].version, i)]}

adapter_candidates(detected, config, base) ==
  CASE detected = "python" -> python_candidates(config, base)
    [] detected = "node"   -> node_candidates(config, base)
    [] detected = "rust"   -> rust_candidates(config, base)

LabelCandidate(id, order) ==
  [id |-> <<"deps", id>>, axis |-> "dependencies", version |-> id, order |-> order,
   grade |-> "Simulated", set |-> NoSet]

\* expected_dependency_candidates, and dependency_candidates without experiment
label_candidates(config) ==
  (IF config.latest_allowed THEN <<LabelCandidate("latest-allowed", 1)>> ELSE <<>>)
  \o (IF config.prerelease THEN <<LabelCandidate("prerelease", 2)>> ELSE <<>>)

\* Mutant: later probes come first.
ProbeCandidate_newest_first(probe, i) ==
  [id |-> <<"probe", probe>>, axis |-> "dependencies", version |-> probe, order |-> 1000 - i,
   grade |-> "Observed", set |-> DependencySet(probe, {}, TRUE)]

ProbeCandidate(probe, i) ==
  [id |-> <<"probe", probe>>, axis |-> "dependencies", version |-> probe, order |-> i,
   grade |-> "Observed", set |-> DependencySet(probe, {}, TRUE)]

\* dependency_candidates of an experiment: its probes in their order.  The
\* empty set of changes identifies the experiment's baseline set.
probe_candidates(probes) == [i \in DOMAIN probes |-> ProbeCandidate(probes[i], i)]

-----------------------------------------------------------------------------
(* plan_scenarios *)
Scenario(id, runtime, axes, grade, resolved) ==
  [id |-> id, is_baseline |-> axes = {}, runtime |-> runtime, axes |-> axes,
   grade |-> grade, resolved |-> resolved]

BaselineId == <<"baseline", 0>>

\* A stable sort by order key.
Sorted(cands) ==
  LET before(i, j) == \/ cands[i].order < cands[j].order
                      \/ cands[i].order = cands[j].order /\ i < j
      rank(i) == 1 + Cardinality({j \in DOMAIN cands : before(j, i)})
  IN  [k \in DOMAIN cands |-> cands[CHOOSE i \in DOMAIN cands : rank(i) = k]]

ValidSets(deps) == {s \in UNION {deps[i].set : i \in DOMAIN deps} : s.valid}

\* The one exact baseline all concrete sets share, if they share one.
resolved_baseline(deps) ==
  LET baselines == {s.baseline : s \in ValidSets(deps)} IN
  IF Cardinality(baselines) = 1 THEN baselines ELSE {}

\* Mutant: the candidate's own baseline is not compared.
BoundTo_any(c, resolved) ==
  {s \in c.set : c.axis = "dependencies" /\ s.valid}

\* The sets of a candidate that are bound to the plan's baseline.
BoundTo(c, resolved) ==
  {s \in c.set : c.axis = "dependencies" /\ s.valid /\ s.baseline \in resolved}

dependency_candidate_binding(c, resolved) ==
  [resolved |-> {s.id : s \in BoundTo(c, resolved)},
   grade |-> IF BoundTo(c, resolved) # {} THEN c.grade
             ELSE IF c.axis = "dependencies" /\ c.set = NoSet THEN "Simulated"
             ELSE "Inconclusive"]

\* What the budget leaves for candidates after the baseline.
Slots(budget) == IF budget = 0 THEN 0 ELSE budget - 1

\* The single-axis scenarios in the order in which they are considered.
SingleAxis(base, rts, deps) ==
  LET resolved == resolved_baseline(deps)
      rt(c)    == Scenario(c.id, c.version, {"runtime"}, c.grade, resolved)
      dep(c)   == LET b == dependency_candidate_binding(c, resolved)
                  IN  Scenario(c.id, base, {"dependencies"}, b.grade, b.resolved)
      sorted_rts  == Sorted(rts)
      sorted_deps == Sorted(deps)
  IN  [i \in DOMAIN rts |-> rt(sorted_rts[i])]
      \o [i \in DOMAIN deps |-> dep(sorted_deps[i])]

\* The pairwise scenario of the first candidates as they were given.
Combination(rts, deps) ==
  Scenario(<<"combo", rts[1].id, deps[1].id>>, rts[1].version,
           {"runtime", "dependencies"}, "Simulated",
           dependency_candidate_binding(deps[1], resolved_baseline(deps)).resolved)

plan_scenarios(budget, base, rts, deps) ==
  LET resolved == resolved_baseline(deps)
      concrete == \E i \in DOMAIN deps : deps[i].set # NoSet
      grade    == IF concrete /\ resolved = {} THEN "Inconclusive" ELSE "Observed"
      singles  == SingleAxis(base, rts, deps)
      spare    == Len(singles) < Slots(budget) /\ rts # <<>> /\ deps # <<>>
  IN  <<Scenario(BaselineId, base, {}, grade, resolved)>>
      \o Prefix(singles, Slots(budget))
      \o (IF spare THEN <<Combination(rts, deps)>> ELSE <<>>)

\* The PlanDecisions of the candidates: whether each was selected.
plan_decisions(budget, base, rts, deps) ==
  LET singles == SingleAxis(base, rts, deps)
  IN  [i \in DOMAIN singles |-> [id |-> singles[i].id, selected |-> i <= Slots(budget)]]

=============================================================================
