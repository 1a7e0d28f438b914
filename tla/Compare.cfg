\* Two processes and two bundles: comparisons in either order, and replays.
CONSTANTS
  Diagnostics = {"d"}
  Procs = {1, 2}
  Bundles = {1, 2}
  Commands <- MCCommands
  Results <- MCResults
  Policies <- MCPolicies
SPECIFICATION Spec
INVARIANT CapturedTogether
INVARIANT SomeoneGoesThrough
INVARIANT PassingGateKeepsHorizon
\* every process ends
CHECK_DEADLOCK FALSE
