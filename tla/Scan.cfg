\* Three scenarios, up to two attempts each, failing in two ways.
CONSTANTS
  d1 = d1
  d2 = d2
  Diagnostics <- MCDiagnostics
  RerunsOnFailure = 2
  Planned = 3
SPECIFICATION FairSpec
INVARIANT SealedBundleVerifies
INVARIANT HorizonAuthorized
INVARIANT PassIsClean
INVARIANT BaselineGatesCandidates
INVARIANT TestsNeedPreparation
INVARIANT PassClaimIsComplete
PROPERTY ScanEnds
\* the scan stops when it is done or abandoned
CHECK_DEADLOCK FALSE
