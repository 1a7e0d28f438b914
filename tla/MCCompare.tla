----------------------------- MODULE MCCompare -----------------------------
(* Instances of Compare for TLC. *)
EXTENDS Compare

\* Two bundles, compared in either order or with themselves, and replayed.
MCCommands ==
  [kind : {"compare"}, base : {1, 2}, head : {1, 2}]
    \cup {[kind |-> "replay", base |-> b, head |-> b] : b \in {1, 2}}

\* A sealed bundle without a passing baseline ends there.
MCResults ==
  {<<"BaselineInvalid">>, <<"BaselinePass", "FuturePass", "Flaky">>}
    \cup {<<"BaselinePass", a, b>> : a, b \in {"FuturePass", "FutureFail", "Blocked"}}

\* The default policy, and one without a rule.
MCPolicies ==
  {[baseline_invalid |-> r, new_future_failure |-> r, horizon_regression |-> r,
    blocked_ratio_above |-> IF r THEN {50} ELSE {}] : r \in BOOLEAN}
=============================================================================
