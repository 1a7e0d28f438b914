\* Two operations and up to two faults, crashes included.
CONSTANTS
  p1 = p1
  p2 = p2
  d1 = d1
  Absent = Absent
  Torn = Torn
  Diagnostics <- MCDiagnostics
  Procs <- TwoProcs
  Recorded <- MCRecorded
  Finishing = FALSE
  MaxFaults = 2
SPECIFICATION FairSpec
INVARIANT LockExcludes
INVARIANT AckedSurvive
INVARIANT OnlyAckedRemain
INVARIANT UndoRestores
INVARIANT OneFaultIsHarmless
INVARIANT ExecutesOnVerified
INVARIANT PassIsWitnessed
INVARIANT ExecutionsAreRecorded
PROPERTY OperationsEnd
PROPERTY BrokenStaysBroken
\* every operation may have ended or died
CHECK_DEADLOCK FALSE
