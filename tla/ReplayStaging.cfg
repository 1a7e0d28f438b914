\* A rename that fails against the message that staging is preserved.
CONSTANTS
  p1 = p1
  p2 = p2
  d1 = d1
  Absent = Absent
  Torn = Torn
  Diagnostics <- MCDiagnostics
  Procs <- TwoProcs
  Recorded <- Failing
  Finishing = FALSE
  MaxFaults = 1
SPECIFICATION Spec
SYMMETRY Symmetry
INVARIANT StagingIsPreserved
\* every operation may have ended or died
CHECK_DEADLOCK FALSE
