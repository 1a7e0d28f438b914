\* Every ecosystem, channel and label, lists of up to two runtimes, experiments
\* of up to two probes, and recorded candidates of any baseline.
CONSTANTS
  Configs <- MCConfigs
  Bases <- MCBases
  Experiments <- MCExperiments
  Recorded <- MCRecorded
SPECIFICATION Spec
INVARIANT PlanIsComplete
INVARIANT ObservedIsBound
INVARIANT PlanVerifies
PROPERTY PlanIsExtended
\* planning ends
CHECK_DEADLOCK FALSE
