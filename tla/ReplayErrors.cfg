\* Engine errors of a replay against the promise to record them.
CONSTANTS
  p1 = p1
  p2 = p2
  d1 = d1
  Absent = Absent
  Torn = Torn
  Diagnostics <- MCDiagnostics
  Procs <- TwoProcs
  Recorded <- Failing
  Finishing = FALSE
  MaxFaults = 0
SPECIFICATION Spec
SYMMETRY Symmetry
INVARIANT HandledErrorsAreRecorded
\* every operation may have ended or died
CHECK_DEADLOCK FALSE
