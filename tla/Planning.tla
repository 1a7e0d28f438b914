------------------------------- MODULE Planning -------------------------------
(***************************************************************************)
(* When a plan is made: at the start of a scan from the configuration and   *)
(* the dependency experiment, again for each probe of an adaptive           *)
(* experiment, and by the verifier from the candidates a bundle records.    *)
(***************************************************************************)
EXTENDS Planner

CONSTANTS
  Configs,     \* configurations, as load_str deserialises them
  Bases,       \* baseline runtimes
  Experiments, \* dependency experiments: {} or one [schema, probes]
  Recorded     \* dependency candidates of bundles that others wrote

\* At most one explicit list; one experiment or none, whose probes differ, an
\* adaptive one's being numbered; and candidates with ids of their own.
ASSUME PlanningAssumption ==
  /\ Bases \subseteq Nat
  /\ \A c \in Configs :
       /\ c.versions \subseteq Seq(Nat) /\ \A u, v \in c.versions : u = v
       /\ c.max_versions \in Nat /\ c.max_scenarios \in Nat /\ c.reruns_on_failure \in Nat
       /\ c.latest_allowed \in BOOLEAN /\ c.prerelease \in BOOLEAN
  /\ \A x \in Experiments :
       /\ \A d, e \in x : d = e
       /\ \A e \in x : /\ e \in [schema : {1, 2}, probes : Seq(SUBSET Nat)]
                       /\ e.probes # <<>>
                       /\ \A i, j \in DOMAIN e.probes : i # j => e.probes[i] # e.probes[j]
                       /\ e.schema = 2 => \A i \in DOMAIN e.probes : e.probes[i] = {i}
  /\ \A deps \in Recorded :
       /\ Len(deps) \in Nat /\ DOMAIN deps = 1..Len(deps)
       /\ \A i \in DOMAIN deps : /\ deps[i].id[1] \in {"deps", "probe"}
                                /\ deps[i].order \in Int
       /\ \A i, j \in DOMAIN deps : i # j => deps[i].id # deps[j].id

VARIABLES
  config, detected, base, experiment,
  status,      \* where the planning is
  runtimes,    \* rt_cands
  dependencies, \* dep_cands; with rt_cands, candidates.json
  plan,        \* plan.json
  decisions    \* plan-decisions.json

vars == <<config, detected, base, experiment, status, runtimes, dependencies, plan,
          decisions>>
inputs == <<config, detected, base>>

Init ==
  /\ config \in Configs /\ base \in Bases
  /\ detected \in {"python", "node", "rust"}
  /\ config.ecosystem \in {"auto", detected}
  /\ experiment \in Experiments
  /\ status = "loaded"
  /\ runtimes = <<>> /\ dependencies = <<>> /\ plan = <<>> /\ decisions = <<>>

DependencyCandidates ==
  IF experiment = {} THEN label_candidates(config)
  ELSE probe_candidates((CHOOSE e \in experiment : TRUE).probes)

Adaptive == \E e \in experiment : e.schema = 2

\* plan_scenarios and the writes of plan.json and plan-decisions.json
MakePlan(rts, deps) ==
  /\ runtimes' = rts /\ dependencies' = deps
  /\ plan' = plan_scenarios(config.max_scenarios, base, rts, deps)
  /\ decisions' = plan_decisions(config.max_scenarios, base, rts, deps)

\* The errors after the candidates are known: an experiment pins one runtime.
Unplannable(rts) ==
  \/ experiment # {} /\ rts # <<>>
  \/ Adaptive /\ (config.reruns_on_failure < 3 \/ config.max_scenarios < 2)

Plan ==
  /\ status = "loaded" /\ validate(config)
  /\ config.versions # {} => detected = "python"
  /\ \E rts \in adapter_candidates(detected, config, base) :
       /\ ~Unplannable(rts)
       /\ MakePlan(rts, DependencyCandidates)
  /\ status' = "planned"
  /\ UNCHANGED <<inputs, experiment>>

\* every ? between validation and the plan
Refuse ==
  /\ status = "loaded"
  /\ \/ ~validate(config)
     \/ config.versions # {} /\ detected # "python"
     \/ \A rts \in adapter_candidates(detected, config, base) : Unplannable(rts)
  /\ status' = "refused"
  /\ UNCHANGED <<inputs, experiment, runtimes, dependencies, plan, decisions>>

\* The scan adds the next probe and plans again, as long as the budget allows.
ExtendPlan ==
  /\ status = "planned" /\ Adaptive
  /\ Len(plan) < config.max_scenarios
  /\ \E e \in experiment :
       LET probe == {Len(e.probes) + 1} IN
       /\ experiment' = {[e EXCEPT !.probes = Append(@, probe)]}
       /\ MakePlan(runtimes, probe_candidates(Append(e.probes, probe)))
  /\ UNCHANGED <<inputs, status>>

\* The verifier plans from recorded dependency candidates, whatever they are.
Replan ==
  /\ status = "loaded" /\ validate(config)
  /\ experiment = {} /\ config.versions = {}
  /\ \E deps \in Recorded, rts \in adapter_candidates(detected, config, base) :
       MakePlan(rts, deps)
  /\ status' = "replanned"
  /\ UNCHANGED <<inputs, experiment>>

Next == Plan \/ Refuse \/ ExtendPlan \/ Replan

Spec == Init /\ [][Next]_vars

-----------------------------------------------------------------------------
(* verify_plan_semantics on the bundle of a scan *)
ExplicitRuntimesOk ==
  \A versions \in config.versions :
    /\ detected = "python" /\ Len(versions) = Len(runtimes)
    /\ \A i \in DOMAIN versions : /\ versions[i] > base
                                  /\ runtimes[i] = RuntimeCandidate(<<"py", versions[i]>>,
                                                                     versions[i], versions[i])

CandidatesOk ==
  /\ \A i, j \in DOMAIN dependencies : i # j => dependencies[i].id # dependencies[j].id
  /\ \A i \in DOMAIN dependencies : \A s \in dependencies[i].set :
       /\ dependencies[i].axis = "dependencies" /\ s.valid
       /\ dependencies[i].grade = "Observed" /\ dependencies[i].version = s.id

verify_plan_semantics ==
  LET concrete == \E i \in DOMAIN dependencies : dependencies[i].set # NoSet
      used     == IF concrete THEN dependencies ELSE label_candidates(config)
  IN  /\ CandidatesOk /\ ExplicitRuntimesOk
      /\ Adaptive => runtimes = <<>>
      /\ concrete => \A i \in DOMAIN dependencies : dependencies[i].set # NoSet
      /\ plan = plan_scenarios(config.max_scenarios, base, runtimes, used)
      /\ decisions = plan_decisions(config.max_scenarios, base, runtimes, used)

\* An explicit list of runtimes is planned whole and in its order: validation,
\* adapter and budget together never drop one of them (config.rs:163, 430).
ExplicitNeverTruncated ==
  status = "planned" => \A versions \in config.versions :
    \A i \in DOMAIN versions : /\ i + 1 \in DOMAIN plan
                               /\ plan[i + 1].runtime = versions[i]
                               /\ plan[i + 1].axes = {"runtime"}

\* A candidate is recorded as selected exactly if it is planned, and none is left
\* out before the budget is spent.
BudgetIsUsed ==
  status \in {"planned", "replanned"} =>
    /\ Len(plan) <= config.max_scenarios
    /\ \A i \in DOMAIN decisions :
         /\ decisions[i].selected <=> \E j \in DOMAIN plan : plan[j].id = decisions[i].id
         /\ ~decisions[i].selected => Len(plan) = config.max_scenarios

\* No candidate is lost without a record of it: what the budget cuts off is named
\* in plan-decisions.json, and an explicit list of runtimes is never cut.
PlanIsComplete == ExplicitNeverTruncated /\ BudgetIsUsed

\* A dependency scenario counts as observed only if its exact resolution starts
\* from the resolution the plan's baseline executed, itself observed.
ObservedIsBound ==
  \A i \in DOMAIN plan :
    plan[i].grade = "Observed" /\ "dependencies" \in plan[i].axes =>
      /\ plan[i].resolved # {} /\ plan[i].axes = {"dependencies"}
      /\ plan[1].grade = "Observed" /\ plan[1].resolved # {}

\* The verifier derives the plan a scan wrote from the recorded candidates.
PlanVerifies == status = "planned" => verify_plan_semantics

\* Planning again for another probe keeps every scenario that was planned,
\* in its place: results recorded so far stay those of the plan's prefix.
PlanIsExtended ==
  [][status = "planned" =>
       Len(plan') >= Len(plan) /\ SubSeq(plan', 1, Len(plan)) = plan]_vars

=============================================================================
