-------------------------------- MODULE MCScan --------------------------------
(* Instances of Scan for TLC: a baseline and a few candidates, and tests that
   fail in one of a few interchangeable ways.                              *)
EXTENDS Scan

CONSTANTS d1, d2

MCDiagnostics == {d1, d2}
=============================================================================
