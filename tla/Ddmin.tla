--------------------------------- MODULE Ddmin ---------------------------------
(***************************************************************************)
(* Delta debugging of a dependency candidate against an executor: the       *)
(* library function ddmin_dependency_changes_with_options, one step per     *)
(* execution.  Every execution is a fresh one, so two executions of one     *)
(* subset may differ.  Of a failure's hash only matters whether it is that  *)
(* of the first execution, the target.                                     *)
(***************************************************************************)
EXTENDS Integers, FiniteSets

CONSTANTS
  Changes,      \* ids of the candidate's changes
  Required      \* options.required_failure_executions

ASSUME DdminAssumption ==
  /\ Changes # {} /\ IsFiniteSet(Changes)
  /\ Required \in Nat /\ Required >= 3

VARIABLES
  pc,        \* original | search | confirm | add | subtract | return | done
  minimal,   \* the changes that are left
  settled,   \* changes this phase is done with: the prefix before index
  runs,      \* executions of one set so far, where several are required
  outcome,   \* what the last execution of each subset showed
  observed,  \* no record so far has an authority other than OBSERVED
  executions,\* next_sequence - 1
  answer,    \* the status about to be returned
  status     \* the status of the returned reduction, "open" before

vars == <<pc, minimal, settled, runs, outcome, observed, executions, answer, status>>

Statuses == {"ProvenMinimal", "OriginalPassed", "UnstableFailure", "Blocked", "Inconclusive"}

\* Observations validate_probe_observation lets through.
Observations ==
  {o \in [verdict : {"Pass", "Fail", "Flaky", "Blocked", "Inconclusive"},
          target : BOOLEAN, observed : BOOLEAN] : o.target => o.verdict = "Fail"}

Class(o) ==
  IF o.target THEN "same"
  ELSE IF o.verdict \in {"Pass", "Fail"} THEN "different" ELSE "unclear"

status_for_non_failure ==
  [Blocked |-> "Blocked", Inconclusive |-> "Inconclusive", Flaky |-> "UnstableFailure",
   Pass |-> "OriginalPassed", Fail |-> "Inconclusive"]

status_for_failed_rerun ==
  [Blocked |-> "Blocked", Inconclusive |-> "Inconclusive", Flaky |-> "UnstableFailure",
   Pass |-> "UnstableFailure", Fail |-> "UnstableFailure"]

status_for_non_minimal_probe ==
  [Blocked |-> "Blocked", Flaky |-> "UnstableFailure", Inconclusive |-> "Inconclusive",
   Pass |-> "Inconclusive", Fail |-> "Inconclusive"]

Init ==
  /\ pc = "original"
  /\ minimal = Changes /\ settled = {} /\ runs = 0
  /\ outcome = [S \in SUBSET Changes |-> "untested"]
  /\ observed = TRUE /\ executions = 0
  /\ answer = "none" /\ status = "open"

\* DependencyProbeExecutor::run with a valid observation.
Run(S, o) ==
  /\ outcome' = [outcome EXCEPT ![S] = Class(o)]
  /\ observed' = (observed /\ o.observed)
  /\ executions' = executions + 1

\* It returns an error: the executor failed, its observation is invalid or
\* its evidence location was used before.
RunFails ==
  /\ pc \in {"original", "search", "confirm", "add", "subtract"}
  /\ pc' = "done" /\ status' = "error"
  /\ UNCHANGED <<minimal, settled, runs, outcome, observed, executions, answer>>

Goto(phase) ==
  /\ pc' = phase /\ settled' = {} /\ runs' = 0
  /\ UNCHANGED <<minimal, answer, status>>

Answer(a) ==
  /\ pc' = "return" /\ answer' = a
  /\ UNCHANGED <<minimal, settled, runs, status>>

Again ==
  /\ runs' = runs + 1
  /\ UNCHANGED <<pc, minimal, settled, answer, status>>

Settle(c) ==
  /\ settled' = settled \cup {c}
  /\ UNCHANGED <<pc, minimal, runs, answer, status>>

\* The original set must fail Required times with one hash.  The first
\* failure defines the target.
Original ==
  /\ pc = "original"
  /\ \E o \in Observations :
       /\ runs = 0 /\ o.verdict = "Fail" => o.target
       /\ Run(Changes, o)
       /\ IF o.target
          THEN IF runs + 1 = Required THEN Goto("search") ELSE Again
          ELSE Answer(IF runs = 0 THEN status_for_non_failure[o.verdict]
                      ELSE status_for_failed_rerun[o.verdict])

\* Mutant: the subset is tried again.
Remove_forgotten(c) == settled' = {} /\ UNCHANGED <<pc, minimal, runs, answer, status>>

\* The change is removed and the search starts over.
Remove(c) ==
  /\ minimal' = minimal \ {c} /\ settled' = {}
  /\ UNCHANGED <<pc, runs, answer, status>>

\* One change at a time is left out.  This loop and the next two take the
\* changes in the order of their ids; any order is allowed here.
Search ==
  /\ pc = "search"
  /\ \E c \in minimal \ settled, o \in Observations :
       /\ Run(minimal \ {c}, o)
       /\ CASE Class(o) = "same"      -> Remove(c)
            [] Class(o) = "different" -> Settle(c)
            [] Class(o) = "unclear"   -> Answer(status_for_non_failure[o.verdict])

Searched ==
  /\ pc = "search" /\ settled = minimal
  /\ Goto(IF minimal # Changes THEN "confirm" ELSE "add")
  /\ UNCHANGED <<outcome, observed, executions>>

\* A reduced set is an experiment of its own.
Confirm ==
  /\ pc = "confirm"
  /\ \E o \in Observations :
       /\ Run(minimal, o)
       /\ IF o.target
          THEN IF runs + 1 = Required THEN Goto("add") ELSE Again
          ELSE Answer(status_for_failed_rerun[o.verdict])

\* Each excluded change is added in an execution of its own: irrelevant?
Add ==
  /\ pc = "add"
  /\ \E c \in (Changes \ minimal) \ settled, o \in Observations :
       /\ Run(minimal \cup {c}, o)
       /\ IF o.observed /\ o.target THEN Settle(c)
          ELSE Answer(status_for_non_minimal_probe[o.verdict])

Added ==
  /\ pc = "add" /\ settled = Changes \ minimal
  /\ Goto("subtract") /\ UNCHANGED <<outcome, observed, executions>>

\* Mutant: any execution without the change shows it to be necessary.
Necessary_unless_same(o) == o.observed /\ ~o.target

Necessary(o) == o.observed /\ Class(o) = "different"

\* Each change of the minimal set is left out in an execution of its own; the
\* executions of the search are not reused.
Subtract ==
  /\ pc = "subtract"
  /\ \E c \in minimal \ settled, o \in Observations :
       /\ Run(minimal \ {c}, o)
       /\ IF Necessary(o) THEN Settle(c)
          ELSE Answer(status_for_non_minimal_probe[o.verdict])

Subtracted ==
  /\ pc = "subtract" /\ settled = minimal
  /\ Answer(IF minimal = {} \/ ~observed THEN "Inconclusive" ELSE "ProvenMinimal")
  /\ UNCHANGED <<outcome, observed, executions>>

Return ==
  /\ pc = "return"
  /\ pc' = "done" /\ status' = answer
  /\ UNCHANGED <<minimal, settled, runs, outcome, observed, executions, answer>>

Next ==
  \/ Original \/ Search \/ Searched \/ Confirm \/ Add \/ Added
  \/ Subtract \/ Subtracted \/ Return \/ RunFails

Spec == Init /\ [][Next]_vars

-----------------------------------------------------------------------------
\* Type invariant of the reduction's state.
TypeOK ==
  /\ pc \in {"original", "search", "confirm", "add", "subtract", "return", "done"}
  /\ minimal \subseteq Changes /\ settled \subseteq Changes
  /\ runs \in 0..(Required - 1)
  /\ outcome \in [SUBSET Changes -> {"untested", "same", "different", "unclear"}]
  /\ observed \in BOOLEAN /\ executions \in Nat
  /\ answer \in Statuses \cup {"none"} /\ status \in Statuses \cup {"open", "error"}

\* The number of executions a reduction may ask for: each round of the search
\* removes a change or ends it, and confirmation and proof are linear.  So
\* every reduction ends.
N == Cardinality(Changes)
ExecutionsBounded == 2 * executions <= 4 * Required + N * (N + 1) + 2 * N

-----------------------------------------------------------------------------
verdict ==
  CASE status = "open"          -> "open"
    [] status = "ProvenMinimal" -> "minimal"
    [] OTHER                    -> "unresolved"

Abstract == INSTANCE DeltaDebug WITH suspects <- minimal, status <- verdict

\* The library function is a delta debugging, however the executor answers.
ImplementsDeltaDebug == Abstract!Spec

=============================================================================
