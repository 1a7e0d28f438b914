\* Three changes and a budget that some searches exhaust.
CONSTANTS
  Diagnostics = {"d"}
  Changes = {1, 2, 3}
  Schema = 2
  MaxScenarios = 6
  RerunsOnFailure = 3
  Absent = Absent
  Refused = Refused
SPECIFICATION Spec
INVARIANT ProvenIsMinimal
INVARIANT UnprovenIsExplained
INVARIANT BundleIsAccepted
INVARIANT TruncationIsRefused
INVARIANT ReplayShowsHorizon
PROPERTY ImplementsDeltaDebug
\* the scan stops when it is done
CHECK_DEADLOCK FALSE
