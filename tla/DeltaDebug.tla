------------------------------ MODULE DeltaDebug ------------------------------
(***************************************************************************)
(* What a dependency reduction promises, whichever code makes it: subsets   *)
(* of the changes are executed in some order, the set of suspects shrinks   *)
(* to subsets that showed the same failure, and it is called minimal only   *)
(* on the strength of executions: without any one suspect the failure was   *)
(* another one or none, with any one further change it was the same.        *)
(***************************************************************************)
CONSTANT Changes

VARIABLES
  outcome,   \* what the last execution of each subset showed
  suspects,  \* the smallest set known to cause the failure
  status

vars == <<outcome, suspects, status>>

Outcomes == {"untested", "same", "different", "unclear"}

Init ==
  /\ outcome = [S \in SUBSET Changes |-> "untested"]
  /\ suspects = Changes
  /\ status = "open"

Minimal(S) ==
  /\ outcome[S] = "same"
  /\ \A c \in S : outcome[S \ {c}] = "different"
  /\ \A c \in Changes \ S : outcome[S \cup {c}] = "same"

Probe(S, shown) ==
  /\ status = "open"
  /\ outcome' = [outcome EXCEPT ![S] = shown]
  /\ \/ suspects' = suspects
     \/ shown = "same" /\ S \subseteq suspects /\ suspects' = S
  /\ UNCHANGED status

Conclude ==
  /\ status = "open" /\ Minimal(suspects)
  /\ status' = "minimal"
  /\ UNCHANGED <<outcome, suspects>>

GiveUp ==
  /\ status = "open"
  /\ status' = "unresolved"
  /\ UNCHANGED <<outcome, suspects>>

Next ==
  \/ \E S \in SUBSET Changes, shown \in Outcomes \ {"untested"} : Probe(S, shown)
  \/ Conclude \/ GiveUp

Spec == Init /\ [][Next]_vars

-----------------------------------------------------------------------------
\* Type invariant of the abstract reduction.
TypeOK ==
  /\ outcome \in [SUBSET Changes -> Outcomes]
  /\ suspects \subseteq Changes
  /\ status \in {"open", "minimal", "unresolved"}

\* A reduction that is called minimal stands on executions of exactly the
\* subsets that 1-minimality speaks of.
MinimalIsProved == status = "minimal" => Minimal(suspects)

\* Suspicion is never extended to a change once it was cleared, and a
\* concluded reduction stays what it is.
OnlyShrinks == [][suspects' \subseteq suspects /\ (status # "open" => UNCHANGED vars)]_vars

=============================================================================
