\* Two operations while the scan rewrites its claims without the lock, and a fault.
CONSTANTS
  p1 = p1
  p2 = p2
  d1 = d1
  Absent = Absent
  Torn = Torn
  Diagnostics <- MCDiagnostics
  Procs <- TwoProcs
  Recorded <- Failing
  Finishing = TRUE
  MaxFaults = 1
SPECIFICATION Spec
SYMMETRY Symmetry
INVARIANT OnlyAckedRemain
\* every operation may have ended or died
CHECK_DEADLOCK FALSE
