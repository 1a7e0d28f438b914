------------------------------ MODULE Compare ------------------------------
(***************************************************************************)
(* tomorrowci compare: two sealed bundles are locked, verified and read,   *)
(* and the policy of the head decides whether a change may be merged.      *)
(* Comparisons run beside each other and beside replays of the same        *)
(* bundles; no process waits for a lock.                                   *)
(***************************************************************************)
EXTENDS FiniteSets, Verdicts

CONSTANTS
  Procs,     \* the processes
  Bundles,   \* the bundles, numbered in the order of their paths
  Commands,  \* what a process may have been asked to do
  Results,   \* the verdicts a sealed bundle may hold, the baseline first
  Policies   \* the policies a bundle may hold

\* A sealed bundle whose baseline did not pass has no other result (property
\* BaselineGatesCandidates of module Scan).
ASSUME CompareAssumption ==
  /\ Procs # {} /\ 0 \notin Procs /\ Bundles \subseteq Nat
  /\ \A c \in Commands : c.base \in Bundles /\ c.head \in Bundles
  /\ \A r \in Results : /\ r \in Seq(VerdictSet) /\ Len(r) > 0
                        /\ r[1] # "BaselinePass" => Len(r) = 1

VARIABLES
  results, policy, \* of each bundle, sealed
  sound,           \* whether each bundle verifies now
  lock,            \* the process that holds the lock of each bundle, or 0
  command,         \* of each process
  pc,              \* where each process is
  held,            \* the bundles each comparison has verified, locked and read
  outcome          \* how each process ended

vars == <<results, policy, sound, lock, command, pc, held, outcome>>
sealed == <<results, policy, command>>
Free == 0

\* Mutant: the bundles are locked in the order of the arguments.
Roots_as_given(c) == IF c.base = c.head THEN <<c.base>> ELSE <<c.base, c.head>>

\* The lower path is locked first, whatever the order of the arguments, and one
\* bundle compared with itself is locked once.
Roots(c) ==
  CASE c.base = c.head -> <<c.base>>
    [] c.base < c.head -> <<c.base, c.head>>
    [] OTHER           -> <<c.head, c.base>>

\* Mutant: the first lock is dropped before the second bundle is loaded.
LockedWith_dropped(p, b) ==
  [a \in Bundles |-> IF a = b THEN p ELSE IF lock[a] = p THEN Free ELSE lock[a]]

\* What is left of the locks when the next bundle is loaded: all of them.
LockedWith(p, b) == [lock EXCEPT ![b] = p]
Unlocked(p) == [a \in Bundles |-> IF lock[a] = p THEN Free ELSE lock[a]]

\* The bundle a comparison loads next.
Current(p) == Roots(command[p])[Len(held[p]) + 1]

TypeOK ==
  /\ sound \in [Bundles -> BOOLEAN] /\ lock \in [Bundles -> Procs \cup {Free}]
  /\ pc \in [Procs -> {"verify", "lock", "load", "captured", "replay", "leaving", "ended"}]
  /\ outcome \in [Procs -> {"none", "busy", "refused", "done", "pass", "fail", "died"}]
  /\ \A p \in Procs : Len(held[p]) <= Len(Roots(command[p]))

Init ==
  /\ results \in [Bundles -> Results] /\ policy \in [Bundles -> Policies]
  /\ sound = [b \in Bundles |-> TRUE] /\ lock = [b \in Bundles |-> Free]
  /\ command \in [Procs -> Commands]
  /\ pc = [p \in Procs |-> "verify"]
  /\ held = [p \in Procs |-> << >>]
  /\ outcome = [p \in Procs |-> "none"]

Go(p, next) == pc' = [pc EXCEPT ![p] = next]

\* What is returned is settled first; then the locks are dropped.
End(p, how) == Go(p, "leaving") /\ outcome' = [outcome EXCEPT ![p] = how]
Refuse(p, how) == End(p, how) /\ UNCHANGED <<sealed, sound, lock, held>>

Leave(p) ==
  /\ pc[p] = "leaving" /\ Go(p, "ended")
  /\ lock' = Unlocked(p)
  /\ UNCHANGED <<sealed, sound, held, outcome>>

----------------------------------------------------------------------------
(* load_verified_manifest, of each bundle in turn. *)

\* verify_run_for_operation, before the lock
Verify(p) ==
  /\ pc[p] = "verify"
  /\ \/ ~sound[Current(p)] /\ Refuse(p, "refused")
     \/ /\ sound[Current(p)] /\ Go(p, "lock")
        /\ UNCHANGED <<sealed, sound, lock, held, outcome>>

\* RunOperationLock::acquire creates the lock file or gives up.
Acquire(p) ==
  /\ pc[p] = "lock"
  /\ \/ lock[Current(p)] # Free /\ Refuse(p, "busy")
     \/ /\ lock[Current(p)] = Free
        /\ lock' = LockedWith(p, Current(p))
        /\ Go(p, IF command[p].kind = "replay" THEN "replay" ELSE "load")
        /\ UNCHANGED <<sealed, sound, held, outcome>>

\* Verify, read, verify and read again: the lock keeps replays away.
Load(p) ==
  /\ pc[p] = "load"
  /\ \/ ~sound[Current(p)] /\ Refuse(p, "refused")
     \/ /\ sound[Current(p)]
        /\ held' = [held EXCEPT ![p] = Append(@, Current(p))]
        /\ Go(p, IF Len(held'[p]) = Len(Roots(command[p])) THEN "captured" ELSE "verify")
        /\ UNCHANGED <<sealed, sound, lock, outcome>>

\* A replay breaks the seal of its bundle while it writes and mends it at the
\* end, or leaves it broken (module EvidenceOps has its steps).
ReplayWrites(p) ==
  /\ pc[p] = "replay" /\ sound[Current(p)]
  /\ sound' = [sound EXCEPT ![Current(p)] = FALSE]
  /\ UNCHANGED <<sealed, lock, pc, held, outcome>>

ReplayEnds(p) ==
  /\ pc[p] = "replay"
  /\ \/ sound' = [sound EXCEPT ![Current(p)] = TRUE]
     \/ UNCHANGED sound
  /\ End(p, "done")
  /\ UNCHANGED <<sealed, lock, held>>

\* A process dies: its lock files stay.
Crash(p) ==
  /\ pc[p] # "ended" /\ Go(p, "ended")
  /\ outcome' = [outcome EXCEPT ![p] = "died"]
  /\ UNCHANGED <<sealed, sound, lock, held>>

----------------------------------------------------------------------------
(* The decision. *)

\* A FUTURE_FAIL of a sealed bundle has two equal failures and no pass, so the
\* horizon is confirmed; its label is that of the first failing scenario.
Frontier(verdicts) ==
  compute_breakage_frontier(verdicts[1] = "BaselinePass",
    [i \in DOMAIN verdicts |-> [verdict |-> verdicts[i], failure |-> NoFailure]], TRUE, 0)

\* Mutant: a horizon that moved is no regression.
compare_horizons_moved(base, head) ==
  IF head.observed /\ ~base.observed THEN "Regression"
  ELSE IF base.observed /\ ~head.observed THEN "Improvement"
  ELSE "Unchanged"

compare_horizons(base, head) ==
  CASE ~base.observed /\ ~head.observed -> "Unchanged"
    [] ~base.observed /\ head.observed  -> "Regression"
    [] base.observed /\ ~head.observed  -> "Improvement"
    [] OTHER -> IF base.first_failing = head.first_failing THEN "Unchanged" ELSE "Regression"

Having(verdicts, v) == {i \in DOMAIN verdicts : verdicts[i] = v}

\* Evidence that decides nothing cannot decide a gate.
require_observed_gate_inputs(verdicts) ==
  /\ verdicts[1] \in {"BaselinePass", "BaselineInvalid"}
  /\ \A v \in {"Unsupported", "Inconclusive", "Flaky", "CoverageIncomplete"} :
       Having(verdicts, v) = {}

\* A policy: the enabled rules, and the set of its threshold in percent, if any.
Enabled(rules) ==
  rules.baseline_invalid \/ rules.new_future_failure \/ rules.horizon_regression
    \/ rules.blocked_ratio_above # {}

evaluate_policy_gate(base, head, rules) ==
  \/ rules.baseline_invalid /\ Having(head, "BaselineInvalid") # {}
  \/ /\ rules.new_future_failure
     /\ Having(head, "FutureFail") # {} /\ Having(base, "FutureFail") = {}
  \/ /\ rules.horizon_regression
     /\ compare_horizons(Frontier(base), Frontier(head)) = "Regression"
  \/ \E above \in rules.blocked_ratio_above :
       100 * Cardinality(Having(head, "Blocked")) > above * Len(head)

\* The manifests go back to the order of the arguments, and the policy is the
\* head's.
Decide(p) ==
  LET base  == results[command[p].base]
      head  == results[command[p].head]
      rules == policy[command[p].head]
  IN  /\ pc[p] = "captured"
      /\ End(p, IF ~(require_observed_gate_inputs(base) /\ require_observed_gate_inputs(head))
                   \/ ~Enabled(rules) THEN "refused"
                ELSE IF evaluate_policy_gate(base, head, rules) THEN "fail" ELSE "pass")
      /\ UNCHANGED <<sealed, sound, lock, held>>

Next ==
  \E p \in Procs :
    \/ Verify(p) \/ Acquire(p) \/ Load(p) \/ Decide(p) \/ Leave(p)
    \/ ReplayWrites(p) \/ ReplayEnds(p) \/ Crash(p)

Spec == Init /\ [][Next]_vars

----------------------------------------------------------------------------
(* Properties. *)

\* What a comparison decides on is two bundles that verify at one and the same
\* moment, both out of the reach of replays: the first stays locked while the
\* second is loaded.
CapturedTogether ==
  \A p \in Procs : pc[p] = "captured" =>
    \A b \in {command[p].base, command[p].head} : sound[b] /\ lock[b] = p

\* Operations that meet never all turn each other away: the paths order the
\* locks, so one of them goes through, dies, or is refused for its evidence.
SomeoneGoesThrough ==
  (\A p \in Procs : pc[p] = "ended") => \E p \in Procs : outcome[p] # "busy"

\* A gate with every rule enabled lets no failure pass that is earlier than the
\* failures of the base: a candidate that fails at the head failed at the base,
\* it or an earlier one.
PassingGateKeepsHorizon ==
  \A p \in Procs :
    LET c == command[p]
        rules == policy[c.head] IN
    outcome[p] = "pass" /\ rules.new_future_failure /\ rules.horizon_regression =>
      \A i \in Having(results[c.head], "FutureFail") :
        \E j \in Having(results[c.base], "FutureFail") : j <= i
=============================================================================
